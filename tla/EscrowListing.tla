--------------------------- MODULE EscrowListing ---------------------------
(***************************************************************************)
(* GET /api/escrows of apps/server/src/routes/escrows.ts over the list of   *)
(* services/indexer.ts: a client reads the index page by page, each page an *)
(* OFFSET into the rows ordered by updated_at, while events and webhooks    *)
(* rewrite rows and add new ones.  A page is one statement of SQLite; the   *)
(* table is free to change between two pages.                               *)
(*                                                                         *)
(* Rows are written at distinct instants of a clock that does not go back,  *)
(* so updated_at is the number of the write: 1 is the one that seeds the    *)
(* table.                                                                   *)
(***************************************************************************)
EXTENDS Naturals, FiniteSets

CONSTANTS
    Escrows,        \* the ids of the rows
    DemoEscrow,     \* the row that an empty table is seeded with
    Mine,           \* those that name the address of the query as a party
    States,         \* EscrowState
    PageSize,       \* the pageSize of the query
    MaxWrites       \* bound: writes to the table

ASSUME ListingAssumption ==
    /\ IsFiniteSet(Escrows) /\ DemoEscrow \in Escrows /\ Mine \subseteq Escrows
    /\ "Active" \in States
    /\ PageSize \in Nat \ {0} /\ MaxWrites \in Nat \ {0}

VARIABLES
    updatedAt,      \* the last write of each row, 0 if it is not in the table
    stateOf,        \* the state of each row
    reader,         \* the client: its query, its next page (0: none), the rows it has seen
    untouched,      \* history: rows that matched when it began and were not written since
    leftFilter,     \* history: a row was written so that it no longer matched
    writes          \* how many writes there were

listingVars == <<updatedAt, stateOf, reader, untouched, leftFilter, writes>>

NoQuery == [mine |-> FALSE, states |-> States]

\* The WHERE clause: the address is optional, and so is the state.
Matching(query, id, s) == (query.mine => id \in Mine) /\ s \in query.states

Rows == {id \in Escrows : updatedAt[id] > 0}

\* SELECT ... WHERE
Selected(query) == {id \in Rows : Matching(query, id, stateOf[id])}

\* Mutant: the oldest row first.
Offset_OldestFirst(query, id) ==
    Cardinality({other \in Selected(query) : updatedAt[other] < updatedAt[id]})

\* ORDER BY updated_at DESC: how many rows come before this one.
Offset(query, id) ==
    Cardinality({other \in Selected(query) : updatedAt[other] > updatedAt[id]})

\* LIMIT pageSize OFFSET (page - 1) * pageSize
Page(query, page) == {id \in Selected(query) : Offset(query, id) \div PageSize = page - 1}

PageCount(total) == IF total = 0 THEN 1 ELSE (total + PageSize - 1) \div PageSize

\* upsert: a new row, or all columns of the one there is.
Upsert(id, s) ==
    /\ writes < MaxWrites
    /\ writes' = writes + 1
    /\ updatedAt' = [updatedAt EXCEPT ![id] = writes + 1]
    /\ stateOf' = [stateOf EXCEPT ![id] = s]
    /\ untouched' = untouched \ {id}
    /\ leftFilter' = \/ leftFilter
                     \/ /\ id \in Rows
                        /\ Matching(reader.query, id, stateOf[id])
                        /\ ~ Matching(reader.query, id, s)
    /\ UNCHANGED reader

\* A client begins to read.
BeginReading(query) ==
    /\ reader.page = 0
    /\ reader' = [query |-> query, page |-> 1, seen |-> {}]
    /\ untouched' = Selected(query)
    /\ leftFilter' = FALSE
    /\ UNCHANGED <<updatedAt, stateOf, writes>>

\* It is answered a page, and reads on up to the pageCount of the answer.
ReadPage ==
    /\ reader.page > 0
    /\ LET more == reader.page < PageCount(Cardinality(Selected(reader.query)))
       IN reader' = [reader EXCEPT !.seen = @ \cup Page(reader.query, reader.page),
                                   !.page = IF more THEN @ + 1 ELSE 0]
    /\ UNCHANGED <<updatedAt, stateOf, untouched, leftFilter, writes>>

ListingInit ==
    /\ updatedAt = [id \in Escrows |-> IF id = DemoEscrow THEN 1 ELSE 0]
    /\ stateOf = [id \in Escrows |-> "Active"]
    /\ reader = [query |-> NoQuery, page |-> 0, seen |-> {}]
    /\ untouched = {} /\ leftFilter = FALSE /\ writes = 1

ListingNext ==
    \/ \E id \in Escrows, s \in States : Upsert(id, s)
    \/ \E mine \in BOOLEAN, states \in {States} \cup {{s} : s \in States} :
            BeginReading([mine |-> mine, states |-> states])
    \/ ReadPage

ListingSpec == ListingInit /\ [][ListingNext]_listingVars

----------------------------------------------------------------------------
(* Properties.                                                              *)

\* No two rows were written at once, and the client has only seen rows that there are.
ListingTypeOK ==
    /\ updatedAt \in [Escrows -> 0 .. writes]
    /\ \A id, other \in Rows : updatedAt[id] = updatedAt[other] => id = other
    /\ stateOf \in [Escrows -> States]
    /\ reader.seen \cup untouched \subseteq Rows
    /\ reader.page \in 0 .. Cardinality(Escrows)
    /\ leftFilter \in BOOLEAN /\ writes \in 0 .. MaxWrites

\* A client that reads all pages has seen every row that was there all the time: rows
\* that are written meanwhile come to the front and only push the others back, to pages
\* not read yet.  (A row that leaves the filter pulls them forward: then one may be
\* missed.)
UntouchedIsSeen == reader.page = 0 /\ ~ leftFilter => untouched \subseteq reader.seen
=============================================================================
