---------------------------- MODULE IndexerProofs ----------------------------
(***************************************************************************)
(* Theorems about EventWatcher and Indexer, for every chain, page limit and  *)
(* number of calls that are pending at once.                                *)
(***************************************************************************)
EXTENDS Indexer, FiniteSetTheorems, SequenceTheorems, WellFoundedInduction, TLAPS

\* Every event that the handlers want between the start of the watch and event n
\* has reached them.
Read(n) == \A p \in first + 1 .. n : Typed(log[p].event) => p \in delivered

\* NothingSkipped is not inductive: a late page moves the cursor to its own end, so
\* what precedes the page has to be read already.  That holds because a poll begins
\* at the cursor, and because only one start(), the first, begins without a cursor.
PagesFollowCursor ==
    /\ \A s \in Slots :
          /\ requests[s].latest <= ledger /\ requests[s].from <= Len(log)
          /\ requests[s].kind \in {"first", "tick"} /\ requests[s].served =>
                requests[s].from <= requests[s].upTo
          /\ cursor = NoCursor => requests[s].kind # "tick"
          /\ cursor # NoCursor /\ requests[s].kind \in {"first", "tick"} =>
                first <= requests[s].from /\ Read(requests[s].from)
    /\ \A s, t \in Slots :
          requests[s].kind \in {"latest", "first"} /\ requests[t].kind \in {"latest", "first"}
              => s = t
    /\ cursor = NoCursor => ~ timer /\ delivered = {}
    /\ cursor # NoCursor => first <= cursor /\ Read(cursor)
    /\ \A q \in delivered : Read(q)

IndInv == WatcherTypeOK /\ PagesFollowCursor

-----------------------------------------------------------------------------
LEMMA BeforeFacts ==
    ASSUME NEW l, log \in Seq([ledger: Nat, event: Published])
    PROVE  Before(l) \in 0 .. Len(log)
<1> DEFINE earlier == {i \in DOMAIN log : log[i].ledger < l}
<1>1. Len(log) \in Nat /\ DOMAIN log = 1 .. Len(log)
  OBVIOUS
<1>2. IsFiniteSet(DOMAIN log) /\ Cardinality(DOMAIN log) = Len(log)
  BY <1>1, FS_Interval
<1>3. earlier \subseteq DOMAIN log
  OBVIOUS
<1>4. IsFiniteSet(earlier) /\ Cardinality(earlier) <= Cardinality(DOMAIN log)
  BY <1>2, <1>3, FS_Subset
<1>5. Cardinality(earlier) \in Nat
  BY <1>4, FS_CardinalityType
<1> QED BY <1>1, <1>2, <1>4, <1>5 DEF Before

LEMMA FreeIsRequest == Free \in Request
BY DEF Free, Call, Request

\* A call that is made is a request, and follows the cursor if there is one.
LEMMA GetEventsFacts ==
    ASSUME WatcherTypeOK, NEW kind \in {"first", "tick"}, NEW start
    PROVE  /\ GetEvents(kind, start) \in Request
           /\ GetEvents(kind, start).kind = kind
           /\ GetEvents(kind, start).upTo = 0
           /\ GetEvents(kind, start).latest = 0
           /\ ~ GetEvents(kind, start).served
           /\ GetEvents(kind, start).from <= Len(log)
           /\ cursor # NoCursor => GetEvents(kind, start).from = cursor
<1>1. Before(start) \in 0 .. Len(log)
  BY BeforeFacts DEF WatcherTypeOK
<1>2. cursor # NoCursor => cursor \in 0 .. Len(log)
  BY DEF WatcherTypeOK, NoCursor
<1> DEFINE from == IF cursor # NoCursor THEN cursor ELSE Before(start)
<1>3. from \in Nat /\ from <= Len(log)
  BY <1>1, <1>2
<1>4. GetEvents(kind, start)
        = [kind |-> kind, from |-> from, served |-> FALSE, upTo |-> 0, latest |-> 0]
  BY DEF GetEvents, Call
<1> HIDE DEF from
<1>5. GetEvents(kind, start) \in Request
  BY <1>3, <1>4 DEF Request
<1> QED BY <1>3, <1>4, <1>5 DEF from

\* What was read stays read when the log grows and more is delivered.
LEMMA ReadKept ==
    ASSUME NEW n \in Nat, n <= Len(log), Len(log) \in Nat, first \in Nat,
           \A p \in 1 .. Len(log) : log'[p] = log[p],
           first' = first, delivered \subseteq delivered', Read(n)
    PROVE  Read(n)'
BY DEF Read

-----------------------------------------------------------------------------
LEMMA InitEstablishes == WatcherInit => IndInv
<1> SUFFICES ASSUME WatcherInit PROVE IndInv
  OBVIOUS
<1> USE DEF WatcherInit
<1>1. requests \in [Slots -> Request] /\ \A s \in Slots : requests[s] = Free
  BY FreeIsRequest
<1>2. log \in Seq([ledger: Nat, event: Published]) /\ Len(log) = 0
  OBVIOUS
<1>3. \A s \in Slots : requests[s].upTo <= Len(log) /\ requests[s].latest <= ledger
  BY <1>1, <1>2 DEF Free, Call
<1>4. ledger \in Nat \ {0} /\ startLedger \in 0..ledger
  BY WatcherAssumption
<1>5. WatcherTypeOK
  BY <1>1, <1>2, <1>3, <1>4 DEF WatcherTypeOK
<1>6. PagesFollowCursor
  BY <1>1, <1>3 DEF PagesFollowCursor, Free, Call
<1> QED BY <1>5, <1>6 DEF IndInv

-----------------------------------------------------------------------------
\* The contract publishes nothing, or more: what was read stays read.
LEMMA CloseLedgerKeeps == IndInv /\ CloseLedger => IndInv'
<1> SUFFICES ASSUME IndInv, CloseLedger PROVE IndInv'
  OBVIOUS
<1>1. WatcherTypeOK /\ PagesFollowCursor
  BY DEF IndInv
<1> PICK n \in 0..PerLedger :
        \E events \in [1..n -> Published] :
            log' = log \o [i \in 1..n |-> [ledger |-> ledger + 1, event |-> events[i]]]
  BY DEF CloseLedger
<1>2. PICK events \in [1..n -> Published] :
        log' = log \o [i \in 1..n |-> [ledger |-> ledger + 1, event |-> events[i]]]
  OBVIOUS
<1> DEFINE new == [i \in 1..n |-> [ledger |-> ledger + 1, event |-> events[i]]]
<1>3. ledger' = ledger + 1 /\ UNCHANGED watcher
  BY DEF CloseLedger
<1>4. n \in Nat /\ ledger \in Nat \ {0}
  BY <1>1, WatcherAssumption DEF WatcherTypeOK
<1>5. log \in Seq([ledger: Nat, event: Published])
  BY <1>1 DEF WatcherTypeOK
<1>6. new \in Seq([ledger: Nat, event: Published]) /\ Len(new) = n
  <2>1. new \in [1..n -> [ledger: Nat, event: Published]]
    BY <1>4
  <2> QED BY <1>4, <2>1
<1>7. log' = log \o new
  BY <1>2
<1> HIDE DEF new
<1>8. /\ log' \in Seq([ledger: Nat, event: Published])
      /\ Len(log') = Len(log) + n
      /\ Len(log) \in Nat
      /\ \A p \in 1 .. Len(log) : log'[p] = log[p]
  BY <1>4, <1>5, <1>6, <1>7
<1>9. WatcherTypeOK'
  <2>1. cursor' \in {NoCursor} \cup 0..Len(log')
    BY <1>1, <1>3, <1>4, <1>8 DEF WatcherTypeOK, watcher
  <2>2. \A s \in Slots : requests'[s].upTo <= Len(log')
    BY <1>1, <1>3, <1>4, <1>8 DEF WatcherTypeOK, watcher, Request
  <2>3. delivered' \subseteq DOMAIN log'
    BY <1>1, <1>3, <1>4, <1>5, <1>8 DEF WatcherTypeOK, watcher
  <2>4. startLedger' \in 0..ledger'
    BY <1>1, <1>3, <1>4 DEF WatcherTypeOK, watcher
  <2> QED BY <1>1, <1>3, <1>4, <1>8, <2>1, <2>2, <2>3, <2>4 DEF WatcherTypeOK, watcher
<1>10. PagesFollowCursor'
  <2>1. \A m \in Nat : m <= Len(log) /\ Read(m) => Read(m)'
    BY <1>1, <1>3, <1>8, ReadKept DEF WatcherTypeOK, watcher
  <2>2. \A s \in Slots : /\ requests[s].from \in Nat /\ requests[s].latest \in Nat
    BY <1>1 DEF WatcherTypeOK, Request
  <2>3. \A s \in Slots : requests'[s].latest <= ledger' /\ requests'[s].from <= Len(log')
    BY <1>1, <1>3, <1>4, <1>8, <2>2 DEF PagesFollowCursor, watcher
  <2>4. \A q \in delivered' : Read(q)'
    BY <1>1, <1>3, <1>8, <2>1 DEF PagesFollowCursor, WatcherTypeOK, watcher
  <2>5. cursor' # NoCursor => first' <= cursor' /\ Read(cursor)'
    <3>1. cursor # NoCursor => cursor \in 0 .. Len(log)
      BY <1>1 DEF WatcherTypeOK
    <3> QED BY <1>1, <1>3, <1>8, <2>1, <3>1 DEF PagesFollowCursor, watcher
  <2>6. \A s \in Slots : cursor' # NoCursor /\ requests'[s].kind \in {"first", "tick"} =>
            first' <= requests'[s].from /\ Read(requests[s].from)'
    BY <1>1, <1>3, <2>1, <2>2 DEF PagesFollowCursor, watcher
  <2> QED BY <1>1, <1>3, <2>3, <2>4, <2>5, <2>6 DEF PagesFollowCursor, watcher
<1> QED BY <1>9, <1>10 DEF IndInv

\* One pending call takes another's place, or its answer's, and the rest stays.
LEMMA RequestReplaced ==
    ASSUME IndInv, NEW s \in Slots, NEW r \in Request,
           requests' = [requests EXCEPT ![s] = r],
           UNCHANGED <<chain, cursor, timer, first, delivered>>,
           startLedger' \in 0 .. ledger,
           r.upTo <= Len(log), r.latest <= ledger, r.from <= Len(log),
           r.kind \in {"first", "tick"} /\ r.served => r.from <= r.upTo,
           cursor = NoCursor => r.kind # "tick",
           cursor # NoCursor /\ r.kind \in {"first", "tick"} =>
                first <= r.from /\ Read(r.from),
           r.kind \in {"latest", "first"} =>
                requests[s].kind \in {"latest", "first"} \/ ~ Starting
    PROVE  IndInv'
<1>1. WatcherTypeOK /\ PagesFollowCursor
  BY DEF IndInv
<1>2. /\ requests' \in [Slots -> Request]
      /\ requests'[s] = r
      /\ \A t \in Slots \ {s} : requests'[t] = requests[t]
  BY <1>1 DEF WatcherTypeOK
<1>3. UNCHANGED <<ledger, log, cursor, timer, first, delivered>>
  BY DEF chain
<1>4. WatcherTypeOK'
  <2>1. \A t \in Slots : requests'[t].upTo <= Len(log)
    BY <1>1, <1>2 DEF WatcherTypeOK
  <2> QED BY <1>1, <1>2, <1>3, <2>1 DEF WatcherTypeOK
<1>5. \A n : Read(n)' = Read(n)
  BY <1>3 DEF Read
<1>6. PagesFollowCursor'
  <2>1. ASSUME NEW t \in Slots
        PROVE  /\ requests'[t].latest <= ledger' /\ requests'[t].from <= Len(log')
               /\ requests'[t].kind \in {"first", "tick"} /\ requests'[t].served =>
                     requests'[t].from <= requests'[t].upTo
               /\ cursor' = NoCursor => requests'[t].kind # "tick"
    BY <1>1, <1>2, <1>3 DEF PagesFollowCursor
  <2>2. ASSUME NEW t \in Slots, cursor' # NoCursor, requests'[t].kind \in {"first", "tick"}
        PROVE  first' <= requests'[t].from /\ Read(requests[t].from)'
    <3>1. first <= requests'[t].from /\ Read(requests'[t].from)
      BY <1>1, <1>2, <1>3, <2>2 DEF PagesFollowCursor
    <3> QED BY <1>3, <3>1 DEF Read
  <2>3. ASSUME NEW t \in Slots, NEW u \in Slots,
               requests'[t].kind \in {"latest", "first"},
               requests'[u].kind \in {"latest", "first"}
        PROVE  t = u
    BY <1>1, <1>2, <2>3 DEF PagesFollowCursor, Starting
  <2>4. cursor' # NoCursor => first' <= cursor' /\ Read(cursor)'
    BY <1>1, <1>3 DEF PagesFollowCursor, Read
  <2>5. \A q \in delivered' : Read(q)'
    BY <1>1, <1>3, <1>5 DEF PagesFollowCursor
  <2>6. cursor' = NoCursor => ~ timer' /\ delivered' = {}
    BY <1>1, <1>3 DEF PagesFollowCursor
  <2> QED BY <2>1, <2>2, <2>3, <2>4, <2>5, <2>6 DEF PagesFollowCursor
<1> QED BY <1>4, <1>6 DEF IndInv

LEMMA ServeKeeps == ASSUME IndInv, NEW s \in Slots, Serve(s) PROVE IndInv'
<1>1. WatcherTypeOK /\ PagesFollowCursor
  BY DEF IndInv
<1> DEFINE r == requests[s]
           answer == [r EXCEPT !.served = TRUE, !.upTo = PageEnd(r.from), !.latest = ledger]
<1>2. requests' = [requests EXCEPT ![s] = answer]
  BY DEF Serve
<1>3. UNCHANGED <<chain, cursor, startLedger, timer, first, delivered>>
  BY DEF Serve
<1>4. r \in Request /\ Len(log) \in Nat /\ ledger \in Nat /\ r.from <= Len(log)
  BY <1>1 DEF WatcherTypeOK, PagesFollowCursor
<1>5. PageEnd(r.from) \in Nat /\ PageEnd(r.from) <= Len(log) /\ r.from <= PageEnd(r.from)
  <2>1. r.from \in Nat
    BY <1>4 DEF Request
  <2> QED BY <1>4, <2>1, WatcherAssumption DEF PageEnd
<1>6. /\ answer \in Request
      /\ answer.kind = r.kind /\ answer.from = r.from
      /\ answer.upTo = PageEnd(r.from) /\ answer.latest = ledger
  BY <1>4, <1>5 DEF Request
<1> HIDE DEF answer
<1>7. startLedger' \in 0 .. ledger
  BY <1>1, <1>3 DEF WatcherTypeOK
<1>8. cursor = NoCursor => answer.kind # "tick"
  BY <1>1, <1>6 DEF PagesFollowCursor
<1>9. cursor # NoCursor /\ answer.kind \in {"first", "tick"} =>
         first <= answer.from /\ Read(answer.from)
  BY <1>1, <1>6 DEF PagesFollowCursor
<1>10. answer.kind \in {"latest", "first"} => requests[s].kind \in {"latest", "first"}
  BY <1>6
<1>11. ledger <= ledger
  BY <1>4
<1> QED BY <1>2, <1>3, <1>4, <1>5, <1>6, <1>7, <1>8, <1>9, <1>10, <1>11, RequestReplaced

\* Every poll begins at the cursor, or before there is one.
LEMMA PollFacts ==
    ASSUME IndInv, NEW kind \in {"first", "tick"}, NEW start
    PROVE  /\ GetEvents(kind, start) \in Request
           /\ GetEvents(kind, start).kind = kind
           /\ ~ GetEvents(kind, start).served
           /\ GetEvents(kind, start).upTo <= Len(log)
           /\ GetEvents(kind, start).latest <= ledger
           /\ GetEvents(kind, start).from <= Len(log)
           /\ cursor # NoCursor =>
                 first <= GetEvents(kind, start).from /\ Read(GetEvents(kind, start).from)
<1>1. WatcherTypeOK /\ PagesFollowCursor
  BY DEF IndInv
<1>2. Len(log) \in Nat /\ ledger \in Nat
  BY <1>1 DEF WatcherTypeOK
<1> QED BY <1>1, <1>2, GetEventsFacts DEF PagesFollowCursor

LEMMA FreeFacts ==
    /\ Free \in Request /\ Free.kind = "none"
    /\ Free.upTo = 0 /\ Free.latest = 0 /\ Free.from = 0
BY FreeIsRequest DEF Free, Call

LEMMA LatestFacts ==
    /\ GetLatestLedger \in Request /\ GetLatestLedger.kind = "latest"
    /\ GetLatestLedger.upTo = 0 /\ GetLatestLedger.latest = 0 /\ GetLatestLedger.from = 0
BY DEF GetLatestLedger, Call, Request

LEMMA StartKeeps == IndInv /\ Start => IndInv'
<1> SUFFICES ASSUME IndInv, Start PROVE IndInv'
  OBVIOUS
<1>1. PICK s \in Slots :
        requests' = [requests EXCEPT ![s] =
            IF startLedger = 0 THEN GetLatestLedger ELSE GetEvents("first", startLedger)]
  BY DEF Start
<1>2. ~ Starting /\ UNCHANGED <<chain, cursor, startLedger, timer, first, delivered>>
  BY DEF Start
<1>3. startLedger' \in 0 .. ledger /\ Len(log) \in Nat /\ ledger \in Nat
  BY <1>2 DEF IndInv, WatcherTypeOK
<1>4. CASE startLedger = 0
  <2>1. requests' = [requests EXCEPT ![s] = GetLatestLedger]
    BY <1>1, <1>4
  <2>2. /\ GetLatestLedger.upTo <= Len(log) /\ GetLatestLedger.latest <= ledger
        /\ GetLatestLedger.from <= Len(log)
    BY <1>3, LatestFacts
  <2>3. GetLatestLedger \in Request /\ GetLatestLedger.kind = "latest"
    BY LatestFacts
  <2> QED BY <1>2, <1>3, <2>1, <2>2, <2>3, RequestReplaced
<1>5. CASE startLedger # 0
  <2> DEFINE r == GetEvents("first", startLedger)
  <2>1. requests' = [requests EXCEPT ![s] = r]
    BY <1>1, <1>5
  <2>2. /\ r \in Request /\ r.kind = "first" /\ ~ r.served
        /\ r.upTo <= Len(log) /\ r.latest <= ledger /\ r.from <= Len(log)
        /\ cursor # NoCursor => first <= r.from /\ Read(r.from)
    BY PollFacts
  <2> HIDE DEF r
  <2> QED BY <1>2, <1>3, <2>1, <2>2, RequestReplaced
<1> QED BY <1>4, <1>5

LEMMA TickKeeps == IndInv /\ Tick => IndInv'
<1> SUFFICES ASSUME IndInv, Tick PROVE IndInv'
  OBVIOUS
<1> DEFINE r == GetEvents("tick", startLedger)
<1>1. PICK s \in Slots : requests' = [requests EXCEPT ![s] = r]
  BY DEF Tick
<1>2. timer /\ UNCHANGED <<chain, cursor, startLedger, timer, first, delivered>>
  BY DEF Tick
<1>3. startLedger' \in 0 .. ledger
  BY <1>2 DEF IndInv, WatcherTypeOK
<1>4. /\ r \in Request /\ r.kind = "tick" /\ ~ r.served
      /\ r.upTo <= Len(log) /\ r.latest <= ledger /\ r.from <= Len(log)
      /\ cursor # NoCursor => first <= r.from /\ Read(r.from)
  BY PollFacts
<1>5. cursor # NoCursor
  BY <1>2 DEF IndInv, PagesFollowCursor
<1> HIDE DEF r
<1> QED BY <1>1, <1>2, <1>3, <1>4, <1>5, RequestReplaced

LEMMA StartAtLatestKeeps == ASSUME IndInv, NEW s \in Slots, StartAtLatest(s) PROVE IndInv'
<1> DEFINE r == GetEvents("first", startLedger')
<1>1. /\ requests[s].kind = "latest"
      /\ startLedger' = RecentLedger(requests[s].latest)
      /\ requests' = [requests EXCEPT ![s] = r]
      /\ UNCHANGED <<chain, cursor, timer, first, delivered>>
  BY DEF StartAtLatest
<1>2. /\ requests[s].latest \in Nat /\ requests[s].latest <= ledger
      /\ ledger \in Nat \ {0}
  BY DEF IndInv, WatcherTypeOK, PagesFollowCursor, Request
<1>3. startLedger' \in 0 .. ledger
  BY <1>1, <1>2 DEF RecentLedger
<1>4. /\ r \in Request /\ r.kind = "first" /\ ~ r.served
      /\ r.upTo <= Len(log) /\ r.latest <= ledger /\ r.from <= Len(log)
      /\ cursor # NoCursor => first <= r.from /\ Read(r.from)
  BY PollFacts
<1> HIDE DEF r
<1> QED BY <1>1, <1>3, <1>4, RequestReplaced

LEMMA RejectKeeps == ASSUME IndInv, NEW s \in Slots, Reject(s) PROVE IndInv'
<1>1. /\ requests' = [requests EXCEPT ![s] = Free]
      /\ UNCHANGED <<chain, cursor, startLedger, timer, first, delivered>>
  BY DEF Reject
<1>2. startLedger' \in 0 .. ledger /\ Len(log) \in Nat /\ ledger \in Nat
  BY <1>1 DEF IndInv, WatcherTypeOK
<1>3. Free.upTo <= Len(log) /\ Free.latest <= ledger /\ Free.from <= Len(log)
  BY <1>2, FreeFacts
<1>4. Free \in Request /\ Free.kind = "none"
  BY FreeFacts
<1> QED BY <1>1, <1>2, <1>3, <1>4, RequestReplaced

LEMMA StopKeeps == IndInv /\ Stop => IndInv'
<1> SUFFICES ASSUME IndInv, Stop PROVE IndInv'
  OBVIOUS
<1>1. /\ timer' = FALSE
      /\ UNCHANGED <<ledger, log, cursor, startLedger, requests, first, delivered>>
  BY DEF Stop, chain
<1>2. WatcherTypeOK /\ PagesFollowCursor
  BY DEF IndInv
<1>3. WatcherTypeOK'
  BY <1>1, <1>2 DEF WatcherTypeOK
<1>4. PagesFollowCursor'
  <2>1. /\ \A s \in Slots : Read(requests[s].from)' = Read(requests[s].from)
        /\ \A q : Read(q)' = Read(q)
        /\ Read(cursor)' = Read(cursor)
    BY <1>1 DEF Read
  <2> QED BY <1>1, <1>2, <2>1 DEF PagesFollowCursor
<1> QED BY <1>3, <1>4 DEF IndInv

-----------------------------------------------------------------------------
\* A page that arrives: what precedes it is read, and the rest is in it.
LEMMA PageIsRead ==
    ASSUME IndInv, NEW s \in Slots, ReceivePage(s)
    PROVE  /\ requests[s].from \in Nat /\ requests[s].upTo \in 0 .. Len(log)
           /\ requests[s].from <= requests[s].upTo
           /\ first' \in Nat /\ first' <= requests[s].from
           /\ \A n \in Nat : n <= requests[s].upTo => Read(n)'
           /\ cursor # NoCursor => first' = first
<1>1. WatcherTypeOK /\ PagesFollowCursor
  BY DEF IndInv
<1> DEFINE r == requests[s]
<1>2. /\ r.kind \in {"first", "tick"} /\ r.served
      /\ delivered' = delivered \cup {p \in r.from + 1 .. r.upTo : Typed(log[p].event)}
      /\ first' = IF cursor = NoCursor THEN r.from ELSE first
      /\ log' = log
  BY DEF ReceivePage, chain
<1>3. /\ r \in Request
      /\ r.from \in Nat /\ r.upTo \in 0 .. Len(log) /\ r.from <= r.upTo
  BY <1>1, <1>2 DEF WatcherTypeOK, PagesFollowCursor, Request
<1>4. first' \in Nat /\ first' <= r.from /\ (cursor # NoCursor => first' = first)
  BY <1>1, <1>2, <1>3 DEF WatcherTypeOK, PagesFollowCursor
<1>5. ASSUME NEW n \in Nat, n <= r.upTo, NEW p \in first' + 1 .. n, Typed(log[p].event)
      PROVE  p \in delivered'
  <2>1. p \in Int /\ p >= first' + 1 /\ p <= r.upTo
    BY <1>3, <1>4, <1>5
  <2>2. CASE p <= r.from
    <3>1. cursor # NoCursor /\ first' = first
      BY <1>2, <1>4, <2>1, <2>2, <1>3
    <3>2. Read(r.from)
      BY <1>1, <1>2, <3>1 DEF PagesFollowCursor
    <3>3. p \in first + 1 .. r.from
      BY <1>3, <1>4, <2>1, <2>2, <3>1
    <3> QED BY <1>2, <1>5, <3>2, <3>3 DEF Read
  <2>3. CASE ~ (p <= r.from)
    <3>1. p \in r.from + 1 .. r.upTo
      BY <1>3, <2>1, <2>3
    <3> QED BY <1>2, <1>5, <3>1
  <2> QED BY <2>2, <2>3
<1>6. \A n \in Nat : n <= r.upTo => Read(n)'
  BY <1>2, <1>5 DEF Read
<1> QED BY <1>3, <1>4, <1>6

LEMMA ReceivePageKeeps == ASSUME IndInv, NEW s \in Slots, ReceivePage(s) PROVE IndInv'
<1>1. WatcherTypeOK /\ PagesFollowCursor
  BY DEF IndInv
<1> DEFINE r == requests[s]
<1>2. /\ r.kind \in {"first", "tick"}
      /\ cursor' = r.upTo /\ startLedger' = r.latest
      /\ delivered' = delivered \cup {p \in r.from + 1 .. r.upTo : Typed(log[p].event)}
      /\ timer' = (timer \/ r.kind = "first")
      /\ requests' = [requests EXCEPT ![s] = Free]
      /\ ledger' = ledger /\ log' = log
  BY DEF ReceivePage, chain
<1>3. /\ r.from \in Nat /\ r.upTo \in 0 .. Len(log) /\ r.from <= r.upTo
      /\ first' \in Nat /\ first' <= r.from
      /\ \A n \in Nat : n <= r.upTo => Read(n)'
      /\ cursor # NoCursor => first' = first
  BY PageIsRead
<1>4. r.latest \in Nat /\ r.latest <= ledger /\ Len(log) \in Nat /\ ledger \in Nat \ {0}
  BY <1>1 DEF WatcherTypeOK, PagesFollowCursor, Request
<1>5. /\ requests' \in [Slots -> Request] /\ requests'[s] = Free
      /\ \A t \in Slots \ {s} : requests'[t] = requests[t]
  BY <1>1, <1>2, FreeFacts DEF WatcherTypeOK
<1>6. WatcherTypeOK'
  <2>1. \A t \in Slots : requests'[t].upTo <= Len(log')
    BY <1>1, <1>2, <1>4, <1>5, FreeFacts DEF WatcherTypeOK
  <2>2. delivered' \subseteq DOMAIN log'
    BY <1>1, <1>2, <1>3, <1>4 DEF WatcherTypeOK
  <2>3. cursor' \in {NoCursor} \cup 0 .. Len(log') /\ startLedger' \in 0 .. ledger'
    BY <1>2, <1>3, <1>4
  <2>4. timer' \in BOOLEAN
    BY <1>1, <1>2 DEF WatcherTypeOK
  <2> QED BY <1>1, <1>2, <1>3, <1>5, <2>1, <2>2, <2>3, <2>4 DEF WatcherTypeOK
<1>7. cursor' # NoCursor /\ cursor' \in Nat
  BY <1>2, <1>3, <1>4 DEF NoCursor
<1>8. first' <= cursor' /\ Read(cursor)'
  <2>1. PICK n \in Nat : n = r.upTo
    BY <1>3, <1>4
  <2>2. Read(n)'
    BY <1>3, <1>4, <2>1
  <2>3. cursor' = n
    BY <1>2, <2>1
  <2>4. Read(cursor)'
    BY <2>2, <2>3 DEF Read
  <2> QED BY <1>2, <1>3, <1>4, <2>4
<1>9. ASSUME NEW n \in Int, cursor # NoCursor, Read(n) PROVE Read(n)'
  BY <1>2, <1>3, <1>9 DEF Read
<1>10. ASSUME NEW q \in delivered' PROVE Read(q)'
  <2>1. CASE q \in delivered
    <3>1. cursor # NoCursor /\ Read(q) /\ q \in Int
      BY <1>1, <2>1 DEF WatcherTypeOK, PagesFollowCursor
    <3> QED BY <1>9, <3>1
  <2>2. CASE q \in r.from + 1 .. r.upTo
    <3>1. q \in Nat /\ q <= r.upTo
      BY <1>3, <1>4, <2>2
    <3> QED BY <1>3, <3>1
  <2> QED BY <1>2, <1>10, <2>1, <2>2
<1>11. ASSUME NEW t \in Slots
       PROVE  /\ requests'[t].latest <= ledger' /\ requests'[t].from <= Len(log')
              /\ requests'[t].kind \in {"first", "tick"} /\ requests'[t].served =>
                    requests'[t].from <= requests'[t].upTo
  BY <1>1, <1>2, <1>4, <1>5, FreeFacts DEF PagesFollowCursor
<1>12. ASSUME NEW t \in Slots, requests'[t].kind \in {"first", "tick"}
       PROVE  first' <= requests'[t].from /\ Read(requests[t].from)'
  <2>1. t # s /\ requests'[t] = requests[t]
    BY <1>5, <1>12, FreeFacts
  <2>2. cursor # NoCursor
    BY <1>1, <1>2, <1>12, <2>1 DEF PagesFollowCursor
  <2>3. first <= requests[t].from /\ Read(requests[t].from)
    BY <1>1, <1>12, <2>1, <2>2 DEF PagesFollowCursor
  <2>4. PICK n \in Nat : n = requests[t].from
    BY <1>1 DEF WatcherTypeOK, Request
  <2>5. Read(n)'
    BY <1>9, <2>2, <2>3, <2>4
  <2> QED BY <1>3, <2>1, <2>2, <2>3, <2>4, <2>5 DEF Read
<1>13. ASSUME NEW t \in Slots, NEW u \in Slots,
              requests'[t].kind \in {"latest", "first"},
              requests'[u].kind \in {"latest", "first"}
       PROVE  t = u
  BY <1>1, <1>5, <1>13, FreeFacts DEF PagesFollowCursor
<1>14. PagesFollowCursor'
  BY <1>7, <1>8, <1>10, <1>11, <1>12, <1>13 DEF PagesFollowCursor
<1> QED BY <1>6, <1>14 DEF IndInv

-----------------------------------------------------------------------------
LEMMA StutterKeeps == IndInv /\ UNCHANGED watcherVars => IndInv'
<1> SUFFICES ASSUME IndInv, UNCHANGED watcherVars PROVE IndInv'
  OBVIOUS
<1>1. UNCHANGED <<ledger, log, cursor, startLedger, timer, requests, first, delivered>>
  BY DEF watcherVars, chain, watcher
<1>2. WatcherTypeOK'
  BY <1>1 DEF IndInv, WatcherTypeOK
<1>3. /\ \A s \in Slots : Read(requests[s].from)' = Read(requests[s].from)
      /\ \A q : Read(q)' = Read(q)
      /\ Read(cursor)' = Read(cursor)
  BY <1>1 DEF Read
<1>4. PagesFollowCursor'
  BY <1>1, <1>3 DEF IndInv, PagesFollowCursor
<1> QED BY <1>2, <1>4 DEF IndInv

LEMMA StepKeeps == IndInv /\ [WatcherNext]_watcherVars => IndInv'
<1> SUFFICES ASSUME IndInv, [WatcherNext]_watcherVars PROVE IndInv'
  OBVIOUS
<1>1. CASE CloseLedger
  BY <1>1, CloseLedgerKeeps
<1>2. CASE Start
  BY <1>2, StartKeeps
<1>3. CASE Tick
  BY <1>3, TickKeeps
<1>4. CASE Stop
  BY <1>4, StopKeeps
<1>5. ASSUME NEW s \in Slots, Serve(s) \/ StartAtLatest(s) \/ ReceivePage(s) \/ Reject(s)
      PROVE  IndInv'
  BY <1>5, ServeKeeps, StartAtLatestKeeps, ReceivePageKeeps, RejectKeeps
<1>6. CASE UNCHANGED watcherVars
  BY <1>6, StutterKeeps
<1> QED BY <1>1, <1>2, <1>3, <1>4, <1>5, <1>6 DEF WatcherNext

LEMMA Invariance == WatcherSpec => []IndInv
BY InitEstablishes, StepKeeps, PTL DEF WatcherSpec

\* The watcher's fields, its calls and the log keep their types, and no page ends
\* behind the log, whatever the RPC and the callers of start() and stop() do.
THEOREM WatcherTypes == WatcherSpec => []WatcherTypeOK
<1>1. IndInv => WatcherTypeOK
  BY DEF IndInv
<1> QED BY <1>1, Invariance, PTL

\* No milestone or dispute event between the start of the watch and the cursor of
\* poll() is passed over, for any page limit and any number of overlapping polls.
THEOREM NothingIsSkipped == WatcherSpec => []NothingSkipped
<1>1. IndInv => NothingSkipped
  BY DEF IndInv, PagesFollowCursor, NothingSkipped, Read
<1> QED BY <1>1, Invariance, PTL

\* An event that reaches the handlers for the first time comes after all those that
\* they have seen, in whatever order the pages of overlapping polls arrive.
THEOREM EventsComeInOrder == WatcherSpec => FirstSeenInOrder
<1> DEFINE Ordered == \A p \in delivered' \ delivered, q \in delivered : q < p
<1>1. ASSUME IndInv, [WatcherNext]_watcherVars PROVE [Ordered]_watcherVars
  <2>1. CASE delivered' = delivered
    BY <2>1
  <2>2. CASE \E s \in Slots : ReceivePage(s)
    <3>1. PICK s \in Slots : ReceivePage(s)
      BY <2>2
    <3>2. ASSUME NEW p \in delivered' \ delivered, NEW q \in delivered PROVE q < p
      <4>1. cursor # NoCursor /\ Read(q) /\ q \in Nat
        BY <1>1, <3>2 DEF IndInv, WatcherTypeOK, PagesFollowCursor
      <4>2. p \in requests[s].from + 1 .. requests[s].upTo /\ Typed(log[p].event)
        BY <3>1, <3>2 DEF ReceivePage
      <4>3. /\ requests[s].from \in Nat /\ requests[s].upTo \in Nat
            /\ first <= requests[s].from /\ first \in Nat
        BY <1>1, <3>1, <4>1, PageIsRead DEF IndInv, WatcherTypeOK
      <4>4. ~ (p \in first + 1 .. q)
        BY <3>2, <4>1, <4>2 DEF Read
      <4> QED BY <4>1, <4>2, <4>3, <4>4
    <3> QED BY <3>2
  <2> QED
    BY <1>1, <2>1, <2>2
       DEF WatcherNext, CloseLedger, Start, Tick, Stop, Serve, StartAtLatest, Reject,
           watcherVars, watcher
<1>2. WatcherSpec => [][Ordered]_watcherVars
  BY <1>1, Invariance, PTL DEF WatcherSpec
<1> QED BY <1>2 DEF FirstSeenInOrder

-----------------------------------------------------------------------------
(* The indexer.                                                              *)

\* The entries of the timeline.
NoteSet ==
    [topic: {"ProofSubmitted"} \cup {Label(e.topic) : e \in Published},
     milestone: Nat, event: Nat]
RowFields == {"state", "milestones", "locked"}

IndexTypeOK ==
    /\ DOMAIN row = RowFields
    /\ timeline \in Seq(NoteSet)
    /\ up \in BOOLEAN /\ overlapped \in BOOLEAN /\ booted \in Nat

LEMMA NatMinimum ==
    ASSUME NEW T, T \subseteq Nat, T # {}
    PROVE  \E x \in T : \A y \in T : x <= y
<1> DEFINE R == {p \in Nat \X Nat : p[1] < p[2]}
<1>1. IsWellFoundedOn(R, Nat)
  BY NatLessThanWellFounded, Zenon DEF OpToRel
<1> HIDE DEF R
<1>2. PICK x \in T : \A y \in T : ~ (<<y, x>> \in R)
  BY <1>1, WFMin
<1>3. \A y \in T : <<y, x>> \in R <=> y < x
  BY SMT DEF R
<1>4. ASSUME NEW y \in T PROVE x <= y
  <2>1. x \in Nat /\ y \in Nat
    OBVIOUS
  <2>2. ~ (y < x)
    BY <1>2, <1>3
  <2> QED BY <2>1, <2>2
<1> QED BY <1>4

\* Induction over a page, for a property given as the set of the positions that have it.
LEMMA PageInduction ==
    ASSUME NEW P, NEW m \in Nat, NEW n \in Nat, m \in P,
           \A k \in m .. (n - 1) : k \in P => k + 1 \in P
    PROVE  m .. n \subseteq P
<1> DEFINE Bad == {k \in m .. n : k \notin P}
<1> SUFFICES ASSUME Bad # {} PROVE FALSE
  OBVIOUS
<1>1. PICK k \in Bad : \A j \in Bad : k <= j
  <2> HIDE DEF Bad
  <2>1. Bad \subseteq Nat
    BY DEF Bad
  <2> QED BY <2>1, NatMinimum
<1>2. k # m /\ k - 1 \in m .. (n - 1) /\ k - 1 \notin Bad
  BY <1>1
<1>3. k - 1 \in P
  BY <1>2
<1>4. (k - 1) + 1 \in P
  BY <1>2, <1>3
<1> QED BY <1>1, <1>4

-----------------------------------------------------------------------------
(* An event is applied.                                                      *)

\* An entry that is appended, and a row that changed accordingly, still tell the same.
LEMMA TellsAppended ==
    ASSUME NEW old, NEW new, NEW entries \in Seq(NoteSet), NEW e \in NoteSet,
           Tells(old, entries),
           e.milestone # 0 =>
               /\ e.milestone \in DOMAIN new.milestones
               /\ new.milestones[e.milestone] =
                     IF e.topic = "MilestoneReleased" THEN "Released" ELSE "UnderReview",
           \A id \in DOMAIN old.milestones : id # e.milestone =>
               /\ id \in DOMAIN new.milestones
               /\ new.milestones[id] =
                     IF e.topic = "DisputeRaised" /\ old.milestones[id] # "Released"
                     THEN "Disputed" ELSE old.milestones[id]
    PROVE  Tells(new, Append(entries, e))
<1> DEFINE n == Len(entries)
           longer == Append(entries, e)
<1>1. /\ n \in Nat /\ Len(longer) = n + 1 /\ DOMAIN longer = 1 .. n + 1
      /\ DOMAIN entries = 1 .. n
      /\ longer[n + 1] = e /\ \A i \in 1 .. n : longer[i] = entries[i]
  OBVIOUS
<1> HIDE DEF n, longer
<1> SUFFICES ASSUME NEW i \in DOMAIN longer,
                    longer[i].milestone # 0,
                    \A j \in i + 1 .. Len(longer) : longer[j].milestone # longer[i].milestone
             PROVE  /\ longer[i].milestone \in DOMAIN new.milestones
                    /\ new.milestones[longer[i].milestone] = Told(longer, i)
  BY DEF Tells, longer
<1>2. CASE i = n + 1
  <2>1. i + 1 .. Len(longer) = {}
    BY <1>1, <1>2
  <2>2. Told(longer, i) = IF e.topic = "MilestoneReleased" THEN "Released" ELSE "UnderReview"
    BY <1>1, <1>2, <2>1 DEF Told
  <2> QED BY <1>1, <1>2, <2>2
<1>3. CASE i # n + 1
  <2> DEFINE id == entries[i].milestone
  <2>1. i \in 1 .. n /\ longer[i] = entries[i]
    BY <1>1, <1>3
  <2>2. \A j \in i + 1 .. n : j \in i + 1 .. Len(longer) /\ longer[j] = entries[j]
    BY <1>1, <2>1
  <2>3. \A j \in i + 1 .. n : entries[j].milestone # id
    BY <2>1, <2>2
  <2>4. n + 1 \in i + 1 .. Len(longer) /\ longer[n + 1] = e
    BY <1>1, <2>1
  <2>5. id # e.milestone /\ id # 0
    BY <2>1, <2>4
  <2>6. id \in DOMAIN old.milestones /\ old.milestones[id] = Told(entries, i)
    BY <1>1, <2>1, <2>3, <2>5 DEF Tells, n
  <2>7. (\E j \in i + 1 .. Len(longer) : longer[j].topic = "DisputeRaised")
          <=> (e.topic = "DisputeRaised"
                 \/ \E j \in i + 1 .. n : entries[j].topic = "DisputeRaised")
    <3>1. \A j \in i + 1 .. Len(longer) : j = n + 1 \/ j \in i + 1 .. n
      BY <1>1, <2>1
    <3> QED BY <2>2, <2>4, <3>1
  <2>8. Told(longer, i) =
          IF e.topic = "DisputeRaised" /\ Told(entries, i) # "Released"
          THEN "Disputed" ELSE Told(entries, i)
    BY <2>1, <2>7 DEF Told, n
  <2> QED BY <2>1, <2>5, <2>6, <2>8
<1> QED BY <1>2, <1>3

LEMMA Upserted ==
    ASSUME NEW milestones, NEW id, NEW status
    PROVE  /\ id \in DOMAIN UpsertMilestone(milestones, id, status)
           /\ UpsertMilestone(milestones, id, status)[id] = status
           /\ \A i \in DOMAIN milestones : i # id =>
                 /\ i \in DOMAIN UpsertMilestone(milestones, id, status)
                 /\ UpsertMilestone(milestones, id, status)[i] = milestones[i]
BY DEF UpsertMilestone

\* applyEvent, on any row, keeps it a row that tells what the timeline tells.
LEMMA EventTells ==
    ASSUME NEW old, DOMAIN old = RowFields, NEW entries \in Seq(NoteSet), NEW e \in NoteSet,
           e.topic \in {"ProofSubmitted", "MilestoneReleased", "DisputeRaised",
                        "DisputeResolved"},
           e.topic \in {"DisputeRaised", "DisputeResolved"} => e.milestone = 0,
           Tells(old, entries)
    PROVE  /\ DOMAIN ApplyEvent(old, e) = RowFields
           /\ Tells(ApplyEvent(old, e), Append(entries, e))
<1> DEFINE r == IF old = NoRow THEN NewRow ELSE old
           released == UpsertMilestone(r.milestones, e.milestone, "Released")
           new == ApplyEvent(old, e)
<1>1. DOMAIN r = RowFields /\ r.milestones = old.milestones
  BY DEF NewRow, NoRow, RowFields
<1>2. CASE e.topic = "ProofSubmitted"
  <2>1. new = [r EXCEPT !.milestones = UpsertMilestone(@, e.milestone, "UnderReview")]
    BY <1>2 DEF ApplyEvent
  <2>2. DOMAIN new = RowFields
        /\ new.milestones = UpsertMilestone(old.milestones, e.milestone, "UnderReview")
    <3> HIDE DEF new, r
    <3> QED BY <1>1, <2>1 DEF RowFields
  <2> HIDE DEF new, r
  <2>3. Tells(new, Append(entries, e))
    BY <1>2, <2>2, Upserted, TellsAppended
  <2> QED BY <2>2, <2>3 DEF new
<1>3. CASE e.topic = "MilestoneReleased"
  <2>1. new = [state |-> IF \A i \in DOMAIN released : released[i] = "Released"
                         THEN "Completed" ELSE r.state,
               milestones |-> released,
               locked |-> LockedAfter(r.locked)]
    BY <1>3 DEF ApplyEvent
  <2>2. DOMAIN new = RowFields
        /\ new.milestones = UpsertMilestone(old.milestones, e.milestone, "Released")
    <3> HIDE DEF new, r
    <3> QED BY <1>1, <2>1 DEF RowFields
  <2> HIDE DEF new, r
  <2>3. Tells(new, Append(entries, e))
    BY <1>3, <2>2, Upserted, TellsAppended
  <2> QED BY <2>2, <2>3 DEF new
<1>4. CASE e.topic = "DisputeRaised"
  <2>1. new = [r EXCEPT !.state = "Disputed", !.milestones = MarkDisputed(@)]
    BY <1>4 DEF ApplyEvent
  <2>2. DOMAIN new = RowFields /\ new.milestones = MarkDisputed(old.milestones)
    <3> HIDE DEF new, r
    <3> QED BY <1>1, <2>1 DEF RowFields
  <2> HIDE DEF new, r
  <2>3. \A id \in DOMAIN old.milestones :
           /\ id \in DOMAIN new.milestones
           /\ new.milestones[id] = IF old.milestones[id] # "Released" THEN "Disputed"
                                   ELSE old.milestones[id]
    BY <2>2 DEF MarkDisputed
  <2>4. Tells(new, Append(entries, e))
    BY <1>4, <2>3, TellsAppended
  <2> QED BY <2>2, <2>4 DEF new
<1>5. CASE e.topic = "DisputeResolved"
  <2>1. new = [r EXCEPT !.state = "Completed", !.locked = 0]
    BY <1>5 DEF ApplyEvent
  <2>2. DOMAIN new = RowFields /\ new.milestones = old.milestones
    <3> HIDE DEF new, r
    <3> QED BY <1>1, <2>1 DEF RowFields
  <2> HIDE DEF new, r
  <2>3. Tells(new, Append(entries, e))
    BY <1>5, <2>2, TellsAppended
  <2> QED BY <2>2, <2>3 DEF new
<1> QED BY <1>2, <1>3, <1>4, <1>5

\* An event of the log, as an entry.
LEMMA EntryFacts ==
    ASSUME log \in Seq([ledger: Nat, event: Published]), NEW p \in 1 .. Len(log)
    PROVE  /\ Entry(p) \in NoteSet /\ Entry(p).event = p
           /\ Typed(log[p].event) =>
                 Entry(p).topic \in {"ProofSubmitted", "MilestoneReleased", "DisputeRaised",
                                     "DisputeResolved"}
           /\ Entry(p).topic \in {"DisputeRaised", "DisputeResolved"} => Entry(p).milestone = 0
<1>1. log[p].event \in Published /\ p \in Nat
  <2>1. log[p] \in [ledger: Nat, event: Published]
    BY ElementOfSeq
  <2> QED BY <2>1
<1> DEFINE e == log[p].event
<1>2. /\ e.milestone \in Nat
      /\ Label(e.topic) \in {"DisputeRaised", "DisputeResolved"} => e.milestone = 0
  BY <1>1, IndexerAssumption
<1>3. Label(e.topic) \in {Label(d.topic) : d \in Published}
  BY <1>1
<1> QED BY <1>1, <1>2, <1>3 DEF Entry, NoteSet, Typed

-----------------------------------------------------------------------------
(* A page is applied.                                                        *)

Tables == [row |-> row, timeline |-> timeline]

\* f is what the page from .. upTo makes of the tables: what IndexAfter computes.
Run(f, from, upTo) ==
    f = [p \in from .. upTo |->
            IF p = from THEN Tables
            ELSE IF Typed(log[p].event) THEN Applied(f[p - 1], p)
            ELSE f[p - 1]]

LEMMA RunExists ==
    ASSUME NEW from \in Nat, NEW upTo \in Nat, from <= upTo
    PROVE  \E f : Run(f, from, upTo)
<1> DEFINE Bad == {m \in Nat : from <= m /\ ~ \E f : Run(f, from, m)}
<1> SUFFICES ASSUME Bad # {} PROVE FALSE
  OBVIOUS
<1>1. PICK m \in Bad : \A j \in Bad : m <= j
  <2> HIDE DEF Bad
  <2>1. Bad \subseteq Nat
    BY DEF Bad
  <2> QED BY <2>1, NatMinimum
<1>2. CASE m = from
  <2> DEFINE f == [p \in from .. from |-> Tables]
  <2>1. f = [p \in from .. from |->
                IF p = from THEN Tables
                ELSE IF Typed(log[p].event) THEN Applied(f[p - 1], p)
                ELSE f[p - 1]]
    BY DEF Tables
  <2> QED BY <1>2, <2>1 DEF Run
<1>3. CASE m # from
  <2>1. m - 1 \in Nat /\ from <= m - 1 /\ m - 1 \notin Bad
    BY <1>1, <1>3
  <2>2. PICK f : Run(f, from, m - 1)
    BY <2>1
  <2> DEFINE last == IF Typed(log[m].event) THEN Applied(f[m - 1], m) ELSE f[m - 1]
             g == [p \in from .. m |-> IF p = m THEN last ELSE f[p]]
             Step(h, p) == IF p = from THEN Tables
                           ELSE IF Typed(log[p].event) THEN Applied(h[p - 1], p)
                           ELSE h[p - 1]
  <2>3. ASSUME NEW p \in from .. m
        PROVE  g[p] = Step(g, p)
    <3>1. CASE p = m
      <4>1. g[p] = last /\ g[p - 1] = f[m - 1]
        BY <1>3, <2>1, <3>1
      <4> HIDE DEF g
      <4> QED BY <1>3, <3>1, <4>1
    <3>2. CASE p # m
      <4>1. p \in from .. (m - 1)
        BY <3>2
      <4>2. f[p] = Step(f, p)
        BY <2>2, <4>1 DEF Run
      <4>3. p # from => g[p - 1] = f[p - 1]
        BY <3>2
      <4>4. g[p] = f[p]
        BY <3>2
      <4> HIDE DEF g
      <4> QED BY <4>2, <4>3, <4>4
    <3> QED BY <3>1, <3>2
  <2>4. g = [p \in from .. m |-> Step(g, p)]
    <3> HIDE DEF Step
    <3>1. g = [p \in from .. m |-> g[p]]
      OBVIOUS
    <3> HIDE DEF g
    <3> QED BY <2>3, <3>1
  <2> HIDE DEF g
  <2>5. Run(g, from, m)
    BY <2>4 DEF Run
  <2> QED BY <1>1, <2>5
<1> QED BY <1>2, <1>3

LEMMA IndexAfterIsRun ==
    ASSUME NEW from \in Nat, NEW upTo \in Nat, from <= upTo
    PROVE  \E f : Run(f, from, upTo) /\ IndexAfter(from, upTo) = f[upTo]
<1> DEFINE f == CHOOSE f : Run(f, from, upTo)
<1>1. Run(f, from, upTo)
  BY RunExists
<1>2. IndexAfter(from, upTo) = f[upTo]
  BY DEF IndexAfter, Run, Tables
<1> QED BY <1>1, <1>2

LEMMA RunStep ==
    ASSUME NEW from \in Nat, NEW upTo \in Nat, from <= upTo, NEW f, Run(f, from, upTo)
    PROVE  /\ f[from] = Tables
           /\ \A k \in from .. (upTo - 1) :
                 f[k + 1] = IF Typed(log[k + 1].event) THEN Applied(f[k], k + 1) ELSE f[k]
<1>1. ASSUME NEW p \in from .. upTo
      PROVE  f[p] = IF p = from THEN Tables
                    ELSE IF Typed(log[p].event) THEN Applied(f[p - 1], p)
                    ELSE f[p - 1]
  BY DEF Run
<1>2. ASSUME NEW k \in from .. (upTo - 1)
      PROVE  f[k + 1] = IF Typed(log[k + 1].event) THEN Applied(f[k], k + 1) ELSE f[k]
  <2>1. k + 1 \in from .. upTo /\ k + 1 # from /\ (k + 1) - 1 = k
    OBVIOUS
  <2> QED BY <1>1, <2>1
<1>3. f[from] = Tables
  BY <1>1
<1> QED BY <1>2, <1>3

\* The entries are those of the timeline, followed by one for each event of interest
\* between from and p, in the order of the log.
Logged(entries, from, p) ==
    LET new == Len(timeline) + 1 .. Len(entries)
    IN  /\ Len(timeline) <= Len(entries)
        /\ \A i \in 1 .. Len(timeline) : entries[i] = timeline[i]
        /\ \A i \in new :
              /\ entries[i].event \in from + 1 .. p /\ Typed(log[entries[i].event].event)
              /\ entries[i] = Entry(entries[i].event)
        /\ \A q \in from + 1 .. p :
              Typed(log[q].event) => \E i \in new : entries[i].event = q
        /\ \A i, j \in new : i < j => entries[i].event < entries[j].event

LEMMA LoggedAppended ==
    ASSUME timeline \in Seq(NoteSet), NEW from \in Nat, NEW p \in Nat, from <= p,
           NEW entries \in Seq(NoteSet), Logged(entries, from, p),
           Entry(p + 1) \in NoteSet, Entry(p + 1).event = p + 1
    PROVE  /\ ~ Typed(log[p + 1].event) => Logged(entries, from, p + 1)
           /\ Typed(log[p + 1].event) => Logged(Append(entries, Entry(p + 1)), from, p + 1)
<1> DEFINE n == Len(timeline)
           m == Len(entries)
           e == Entry(p + 1)
<1>1. n \in Nat /\ m \in Nat /\ n <= m
  BY DEF Logged
<1>2. ASSUME NEW q \in from + 1 .. p + 1 PROVE q = p + 1 \/ q \in from + 1 .. p
  OBVIOUS
<1>3. ASSUME NEW q \in from + 1 .. p PROVE q \in from + 1 .. p + 1 /\ q < p + 1
  OBVIOUS
<1>4. ASSUME ~ Typed(log[p + 1].event) PROVE Logged(entries, from, p + 1)
  BY <1>2, <1>3, <1>4 DEF Logged
<1>5. ASSUME Typed(log[p + 1].event) PROVE Logged(Append(entries, e), from, p + 1)
  <2> DEFINE longer == Append(entries, e)
  <2>1. /\ Len(longer) = m + 1 /\ longer[m + 1] = e
        /\ \A i \in 1 .. m : longer[i] = entries[i]
    OBVIOUS
  <2> HIDE DEF longer
  <2>2. \A i \in n + 1 .. m + 1 : i = m + 1 \/ (i \in n + 1 .. m /\ i \in 1 .. m)
    BY <1>1
  <2>3. \A i \in n + 1 .. m : i \in n + 1 .. m + 1 /\ i \in 1 .. m
    BY <1>1
  <2>4. m + 1 \in n + 1 .. m + 1 /\ p + 1 \in from + 1 .. p + 1
    BY <1>1
  <2>5. n <= m + 1 /\ \A i \in 1 .. n : longer[i] = timeline[i]
    <3>1. \A i \in 1 .. n : i \in 1 .. m /\ entries[i] = timeline[i]
      BY <1>1 DEF Logged
    <3> QED BY <1>1, <2>1, <3>1
  <2>6. ASSUME NEW i \in n + 1 .. m + 1
        PROVE  /\ longer[i].event \in from + 1 .. p + 1 /\ Typed(log[longer[i].event].event)
               /\ longer[i] = Entry(longer[i].event)
    <3>1. CASE i = m + 1
      BY <1>5, <2>1, <2>4, <3>1
    <3>2. CASE i \in n + 1 .. m /\ i \in 1 .. m
      <4>1. /\ entries[i].event \in from + 1 .. p /\ Typed(log[entries[i].event].event)
            /\ entries[i] = Entry(entries[i].event)
        BY <3>2 DEF Logged
      <4> QED BY <1>3, <2>1, <3>2, <4>1
    <3> QED BY <2>2, <3>1, <3>2
  <2>7. ASSUME NEW q \in from + 1 .. p + 1, Typed(log[q].event)
        PROVE  \E i \in n + 1 .. m + 1 : longer[i].event = q
    <3>1. CASE q = p + 1
      BY <2>1, <2>4, <3>1
    <3>2. CASE q \in from + 1 .. p
      <4>1. PICK i \in n + 1 .. m : entries[i].event = q
        BY <2>7, <3>2 DEF Logged
      <4> QED BY <2>1, <2>3, <4>1
    <3> QED BY <1>2, <3>1, <3>2
  <2>8. ASSUME NEW i \in n + 1 .. m + 1, NEW j \in n + 1 .. m + 1, i < j
        PROVE  longer[i].event < longer[j].event
    <3>1. i \in n + 1 .. m /\ i \in 1 .. m
      BY <1>1, <2>8
    <3>2. entries[i].event \in from + 1 .. p /\ longer[i] = entries[i]
      BY <2>1, <3>1 DEF Logged
    <3>3. CASE j = m + 1
      BY <1>3, <2>1, <3>2, <3>3
    <3>4. CASE j \in n + 1 .. m /\ j \in 1 .. m
      <4>1. entries[i].event < entries[j].event
        BY <2>8, <3>1, <3>4 DEF Logged
      <4> QED BY <2>1, <3>2, <3>4, <4>1
    <3> QED BY <2>2, <3>3, <3>4
  <2> QED BY <2>1, <2>5, <2>6, <2>7, <2>8 DEF Logged, longer
<1> QED BY <1>4, <1>5

\* poll() and applyEvent over a whole page.
LEMMA PageApplied ==
    ASSUME IndexTypeOK, RowTellsTimeline, log \in Seq([ledger: Nat, event: Published]),
           NEW from \in 0 .. Len(log), NEW upTo \in 0 .. Len(log), from <= upTo
    PROVE  /\ DOMAIN IndexAfter(from, upTo).row = RowFields
           /\ IndexAfter(from, upTo).timeline \in Seq(NoteSet)
           /\ Tells(IndexAfter(from, upTo).row, IndexAfter(from, upTo).timeline)
           /\ Logged(IndexAfter(from, upTo).timeline, from, upTo)
<1>1. /\ Len(log) \in Nat /\ from \in Nat /\ upTo \in Nat
      /\ \A k \in from .. (upTo - 1) : k \in Nat /\ from <= k /\ k + 1 \in 1 .. Len(log)
  OBVIOUS
<1>2. PICK f : Run(f, from, upTo) /\ IndexAfter(from, upTo) = f[upTo]
  BY <1>1, IndexAfterIsRun
<1>3. /\ f[from] = Tables
      /\ \A k \in from .. (upTo - 1) :
            f[k + 1] = IF Typed(log[k + 1].event) THEN Applied(f[k], k + 1) ELSE f[k]
  BY <1>1, <1>2, RunStep
<1> DEFINE Good(k) == /\ DOMAIN f[k].row = RowFields
                      /\ f[k].timeline \in Seq(NoteSet)
                      /\ Tells(f[k].row, f[k].timeline)
                      /\ Logged(f[k].timeline, from, k)
           P == {k \in from .. upTo : Good(k)}
<1>4. from \in P
  <2>1. f[from].row = row /\ f[from].timeline = timeline
    BY <1>3 DEF Tables
  <2>2. Len(timeline) \in Nat
    BY DEF IndexTypeOK
  <2>3. Logged(timeline, from, from)
    BY <1>1, <2>2 DEF Logged
  <2>4. from \in from .. upTo
    BY <1>1
  <2> QED BY <2>1, <2>3, <2>4 DEF IndexTypeOK, RowTellsTimeline, RowFields
<1>5. ASSUME NEW k \in from .. (upTo - 1), k \in P PROVE k + 1 \in P
  <2>1. Good(k) /\ k + 1 \in from .. upTo /\ k \in Nat /\ from <= k
    BY <1>1, <1>5
  <2> DEFINE e == Entry(k + 1)
  <2>2. /\ e \in NoteSet /\ e.event = k + 1
        /\ Typed(log[k + 1].event) =>
              e.topic \in {"ProofSubmitted", "MilestoneReleased", "DisputeRaised",
                           "DisputeResolved"}
        /\ e.topic \in {"DisputeRaised", "DisputeResolved"} => e.milestone = 0
    BY <1>1, <1>5, EntryFacts
  <2> HIDE DEF e
  <2>3. CASE ~ Typed(log[k + 1].event)
    <3>1. f[k + 1] = f[k]
      BY <1>3, <2>3
    <3>2. Logged(f[k].timeline, from, k + 1)
      BY <1>1, <2>1, <2>2, <2>3, LoggedAppended DEF e, IndexTypeOK
    <3> QED BY <2>1, <3>1, <3>2
  <2>4. CASE Typed(log[k + 1].event)
    <3>1. /\ f[k + 1].row = ApplyEvent(f[k].row, e)
          /\ f[k + 1].timeline = Append(f[k].timeline, e)
      <4>1. f[k + 1] = Applied(f[k], k + 1)
        BY <1>3, <2>4
      <4> QED BY <4>1 DEF Applied, e
    <3>2. Logged(Append(f[k].timeline, e), from, k + 1)
      BY <1>1, <2>1, <2>2, <2>4, LoggedAppended DEF e, IndexTypeOK
    <3>3. /\ DOMAIN ApplyEvent(f[k].row, e) = RowFields
          /\ Tells(ApplyEvent(f[k].row, e), Append(f[k].timeline, e))
      BY <2>1, <2>2, <2>4, EventTells
    <3>4. Append(f[k].timeline, e) \in Seq(NoteSet)
      BY <2>1, <2>2, AppendProperties
    <3> QED BY <2>1, <3>1, <3>2, <3>3, <3>4
  <2> QED BY <2>3, <2>4
<1>6. from .. upTo \subseteq P
  <2> HIDE DEF P
  <2> QED BY <1>1, <1>4, <1>5, PageInduction
<1>7. upTo \in from .. upTo
  BY <1>1
<1> QED BY <1>2, <1>6, <1>7

-----------------------------------------------------------------------------
(* The server's invariant.                                                   *)

OwnIsLog ==
    /\ {timeline[i].event : i \in OwnEntries} = {p \in first + 1 .. cursor : Typed(log[p].event)}
    /\ \A i \in OwnEntries : timeline[i] = Entry(timeline[i].event)
    /\ \A i, j \in OwnEntries : i < j => timeline[i].event < timeline[j].event

\* TimelineIsLog is not inductive: a page continues what was read only if it was asked
\* for at the cursor, which holds as long as at most one call is pending; and a process
\* begins with nothing read and nothing pending.
ProcessInv ==
    /\ ~ up => cursor = NoCursor /\ \A s \in Slots : requests[s] = Free
    /\ cursor # NoCursor => \A s \in Slots : requests[s].kind \notin {"latest", "first"}
    /\ up => booted <= Len(timeline)
    /\ up /\ ~ overlapped =>
          /\ \A s, t \in Slots :
                requests[s].kind # "none" /\ requests[t].kind # "none" => s = t
          /\ \A s \in Slots : requests[s].kind = "tick" => requests[s].from = cursor
          /\ cursor = NoCursor => OwnEntries = {}
          /\ cursor # NoCursor => OwnIsLog

ServerInv == IndInv /\ IndexTypeOK /\ RowTellsTimeline /\ ProcessInv

LEMMA ServerInit == IndexerInit => ServerInv
<1> SUFFICES ASSUME IndexerInit PROVE ServerInv
  OBVIOUS
<1>1. IndInv
  BY InitEstablishes DEF IndexerInit
<1>2. up = FALSE /\ row = NoRow /\ timeline = <<>> /\ booted = 0 /\ overlapped = FALSE
  BY DEF IndexerInit
<1>3. cursor = NoCursor /\ requests = [s \in Slots |-> Free]
  BY DEF IndexerInit, WatcherInit
<1>4. IndexTypeOK
  <2>1. DOMAIN row = RowFields
    BY <1>2 DEF NoRow, RowFields
  <2>2. timeline \in Seq(NoteSet) /\ booted \in Nat
    BY <1>2
  <2>3. up \in BOOLEAN /\ overlapped \in BOOLEAN
    BY <1>2
  <2> QED BY <2>1, <2>2, <2>3 DEF IndexTypeOK
<1>5. RowTellsTimeline
  BY <1>2 DEF RowTellsTimeline, Tells
<1>6. ProcessInv
  BY <1>2, <1>3 DEF ProcessInv
<1> QED BY <1>1, <1>4, <1>5, <1>6 DEF ServerInv

\* What the timeline holds of the log is still so after the log has grown.
LEMMA OwnKept ==
    ASSUME IndInv, cursor # NoCursor, OwnIsLog, UNCHANGED <<timeline, booted, first, cursor>>,
           \A p \in 1 .. Len(log) : log'[p] = log[p]
    PROVE  OwnIsLog'
<1>1. first \in Nat /\ cursor \in 0 .. Len(log) /\ Len(log) \in Nat
  BY DEF IndInv, WatcherTypeOK
<1>2. \A p \in first + 1 .. cursor : p \in 1 .. Len(log) /\ log'[p] = log[p]
  BY <1>1
<1>3. OwnEntries' = OwnEntries
  BY DEF OwnEntries
<1>4. {p \in first + 1 .. cursor : Typed(log'[p].event)}
        = {p \in first + 1 .. cursor : Typed(log[p].event)}
  BY <1>2
<1>5. ASSUME NEW i \in OwnEntries PROVE timeline[i] = Entry(timeline[i].event)'
  <2>1. timeline[i].event \in first + 1 .. cursor /\ timeline[i] = Entry(timeline[i].event)
    BY DEF OwnIsLog
  <2> QED BY <1>2, <2>1 DEF Entry
<1> QED BY <1>3, <1>4, <1>5 DEF OwnIsLog

\* A step of the chain or of a call, which leaves the tables and the cursor alone.
LEMMA TablesKept ==
    ASSUME ServerInv, IndInv', UNCHANGED <<up, row, timeline, booted, cursor, first>>,
           overlapped' \in BOOLEAN, overlapped => overlapped',
           \A p \in 1 .. Len(log) : log'[p] = log[p],
           ~ up => UNCHANGED requests,
           cursor # NoCursor => \A s \in Slots : requests'[s].kind \notin {"latest", "first"},
           up /\ ~ overlapped' =>
               /\ \A s, t \in Slots :
                     requests'[s].kind # "none" /\ requests'[t].kind # "none" => s = t
               /\ \A s \in Slots : requests'[s].kind = "tick" => requests'[s].from = cursor
    PROVE  ServerInv'
<1>1. IndInv /\ IndexTypeOK /\ RowTellsTimeline /\ ProcessInv
  BY DEF ServerInv
<1>2. IndexTypeOK'
  BY <1>1 DEF IndexTypeOK
<1>3. RowTellsTimeline'
  BY <1>1 DEF RowTellsTimeline, Tells, Told
<1>4. OwnEntries' = OwnEntries
  BY DEF OwnEntries
<1>5. cursor # NoCursor /\ OwnIsLog => OwnIsLog'
  BY <1>1, OwnKept
<1>6. ProcessInv'
  BY <1>1, <1>4, <1>5 DEF ProcessInv
<1> QED BY <1>2, <1>3, <1>6 DEF ServerInv

LEMMA ChainMovesServer == ServerInv /\ ChainMoves => ServerInv'
<1> SUFFICES ASSUME ServerInv, ChainMoves PROVE ServerInv'
  OBVIOUS
<1>1. IndInv /\ CloseLedger /\ UNCHANGED <<up, row, timeline, booted, overlapped>>
  BY DEF ServerInv, ChainMoves, server
<1>2. IndInv'
  BY <1>1, CloseLedgerKeeps
<1>3. UNCHANGED <<cursor, first, requests>>
  BY <1>1 DEF CloseLedger, watcher
<1>4. \A p \in 1 .. Len(log) : log'[p] = log[p]
  <2>1. PICK n \in 0 .. PerLedger : \E events \in [1..n -> Published] :
            log' = log \o [i \in 1..n |-> [ledger |-> ledger + 1, event |-> events[i]]]
    BY <1>1 DEF CloseLedger
  <2>2. PICK events \in [1..n -> Published] :
            log' = log \o [i \in 1..n |-> [ledger |-> ledger + 1, event |-> events[i]]]
    BY <2>1
  <2> DEFINE new == [i \in 1..n |-> [ledger |-> ledger + 1, event |-> events[i]]]
  <2>3. n \in Nat /\ ledger \in Nat /\ log \in Seq([ledger: Nat, event: Published])
    BY <1>1, WatcherAssumption DEF IndInv, WatcherTypeOK
  <2>4. new \in [1..n -> [ledger: Nat, event: Published]]
    BY <2>3
  <2>5. new \in Seq([ledger: Nat, event: Published])
    BY <2>3, <2>4
  <2> HIDE DEF new
  <2>6. log' = log \o new
    BY <2>2 DEF new
  <2> QED BY <2>3, <2>5, <2>6
<1> QED BY <1>1, <1>2, <1>3, <1>4, TablesKept DEF ServerInv, ProcessInv, IndexTypeOK

\* The process starts: nothing was pending, and nothing of its own is in the timeline.
LEMMA BootServer == ServerInv /\ Boot => ServerInv'
<1> SUFFICES ASSUME ServerInv, Boot PROVE ServerInv'
  OBVIOUS
<1>1. IndInv /\ IndexTypeOK /\ RowTellsTimeline /\ ProcessInv
  BY DEF ServerInv
<1>2. /\ ~ up /\ up' = TRUE /\ Start /\ booted' = Len(timeline) /\ overlapped' = FALSE
      /\ UNCHANGED <<row, timeline>>
  BY DEF Boot, index
<1>3. IndInv'
  BY <1>1, <1>2, StartKeeps
<1>4. IndexTypeOK'
  <2>1. DOMAIN row' = RowFields /\ timeline' \in Seq(NoteSet) /\ booted' \in Nat
    BY <1>1, <1>2 DEF IndexTypeOK
  <2>2. up' \in BOOLEAN /\ overlapped' \in BOOLEAN
    BY <1>2
  <2> QED BY <2>1, <2>2 DEF IndexTypeOK
<1>5. RowTellsTimeline'
  BY <1>1, <1>2 DEF RowTellsTimeline, Tells, Told
<1>6. cursor' = NoCursor
  BY <1>1, <1>2 DEF Start, ProcessInv
<1>7. PICK s \in Slots : /\ requests'[s].kind \in {"latest", "first"}
                         /\ \A t \in Slots \ {s} : requests'[t].kind = "none"
  <2>1. PICK s \in Slots :
            requests' = [requests EXCEPT ![s] =
                IF startLedger = 0 THEN GetLatestLedger ELSE GetEvents("first", startLedger)]
    BY <1>2 DEF Start
  <2>2. GetLatestLedger.kind = "latest" /\ GetEvents("first", startLedger).kind = "first"
    BY DEF GetLatestLedger, GetEvents, Call
  <2>3. requests \in [Slots -> Request] /\ \A t \in Slots : requests[t].kind = "none"
    BY <1>1, <1>2, FreeFacts DEF IndInv, WatcherTypeOK, ProcessInv
  <2> QED BY <2>1, <2>2, <2>3
<1>8. OwnEntries' = {}
  <2>1. Len(timeline) \in Nat
    BY <1>1 DEF IndexTypeOK
  <2> QED BY <1>2, <2>1 DEF OwnEntries
<1>9. \A t, u \in Slots : requests'[t].kind # "none" /\ requests'[u].kind # "none" => t = u
  BY <1>7
<1>10. \A t \in Slots : requests'[t].kind # "tick"
  BY <1>7
<1>11. booted' <= Len(timeline')
  BY <1>1, <1>2 DEF IndexTypeOK
<1>12. ProcessInv'
  BY <1>2, <1>6, <1>8, <1>9, <1>10, <1>11 DEF ProcessInv
<1> QED BY <1>3, <1>4, <1>5, <1>12 DEF ServerInv

LEMMA PollServer == ServerInv /\ Poll => ServerInv'
<1> SUFFICES ASSUME ServerInv, Poll PROVE ServerInv'
  OBVIOUS
<1>1. IndInv /\ IndexTypeOK /\ RowTellsTimeline /\ ProcessInv
  BY DEF ServerInv
<1>2. /\ up /\ Tick /\ UNCHANGED <<up, row, timeline, booted>>
      /\ overlapped' = (overlapped \/ \E s \in Slots : requests[s] # Free)
  BY DEF Poll, index
<1>3. IndInv'
  BY <1>1, <1>2, TickKeeps
<1>4. cursor # NoCursor /\ UNCHANGED <<log, cursor, first>>
  BY <1>1, <1>2 DEF Tick, chain, IndInv, PagesFollowCursor
<1>5. PICK s \in Slots : requests' = [requests EXCEPT ![s] = GetEvents("tick", startLedger)]
  BY <1>2 DEF Tick
<1>6. /\ GetEvents("tick", startLedger).kind = "tick"
      /\ GetEvents("tick", startLedger).from = cursor
  BY <1>4 DEF GetEvents, Call
<1>7. /\ requests'[s].kind = "tick" /\ requests'[s].from = cursor
      /\ \A t \in Slots \ {s} : requests'[t] = requests[t]
  BY <1>1, <1>5, <1>6 DEF IndInv, WatcherTypeOK
<1>8. \A t \in Slots : requests'[t].kind \notin {"latest", "first"}
  BY <1>1, <1>4, <1>7 DEF ProcessInv
<1>9. ~ overlapped' => \A t \in Slots \ {s} : requests'[t].kind = "none"
  BY <1>2, <1>7, FreeFacts
<1>10. overlapped' \in BOOLEAN /\ (overlapped => overlapped')
  BY <1>1, <1>2 DEF IndexTypeOK
<1> QED BY <1>2, <1>3, <1>4, <1>7, <1>8, <1>9, <1>10, TablesKept

LEMMA ServeServer == ASSUME ServerInv, NEW s \in Slots, up, Serve(s), UNCHANGED server
                     PROVE  ServerInv'
<1>1. IndInv /\ IndexTypeOK /\ RowTellsTimeline /\ ProcessInv
  BY DEF ServerInv
<1>2. IndInv'
  BY <1>1, ServeKeeps
<1>3. /\ UNCHANGED <<up, row, timeline, booted, overlapped, log, cursor, first>>
  BY DEF server, Serve, chain
<1>4. requests \in [Slots -> Request]
  BY <1>1 DEF IndInv, WatcherTypeOK
<1>5. \A t \in Slots : /\ requests'[t].kind = requests[t].kind
                       /\ requests'[t].from = requests[t].from
  BY <1>4 DEF Serve, Request
<1> QED BY <1>1, <1>2, <1>3, <1>5, TablesKept DEF ProcessInv, IndexTypeOK

LEMMA StartAtLatestServer ==
    ASSUME ServerInv, NEW s \in Slots, up, StartAtLatest(s), UNCHANGED server
    PROVE  ServerInv'
<1>1. IndInv /\ IndexTypeOK /\ RowTellsTimeline /\ ProcessInv
  BY DEF ServerInv
<1>2. IndInv'
  BY <1>1, StartAtLatestKeeps
<1>3. /\ UNCHANGED <<up, row, timeline, booted, overlapped, log, cursor, first>>
      /\ requests[s].kind = "latest"
      /\ requests' = [requests EXCEPT ![s] = GetEvents("first", startLedger')]
  BY DEF server, StartAtLatest, chain
<1>4. GetEvents("first", startLedger').kind = "first"
  BY DEF GetEvents, Call
<1>5. /\ requests'[s].kind = "first"
      /\ \A t \in Slots \ {s} : requests'[t] = requests[t]
  BY <1>1, <1>3, <1>4 DEF IndInv, WatcherTypeOK
<1>6. cursor = NoCursor
  BY <1>1, <1>3 DEF ProcessInv
<1> QED BY <1>1, <1>2, <1>3, <1>5, <1>6, TablesKept DEF ProcessInv, IndexTypeOK

LEMMA StartFailsServer == ASSUME ServerInv, NEW s \in Slots, StartFails(s) PROVE ServerInv'
<1>1. IndInv /\ IndexTypeOK /\ RowTellsTimeline /\ ProcessInv
  BY DEF ServerInv
<1>2. up /\ Reject(s) /\ UNCHANGED server
  BY DEF StartFails
<1>3. IndInv'
  BY <1>1, <1>2, RejectKeeps
<1>4. /\ UNCHANGED <<up, row, timeline, booted, overlapped, log, cursor, first>>
      /\ requests' = [requests EXCEPT ![s] = Free]
  BY <1>2 DEF server, Reject, chain
<1>5. /\ requests'[s].kind = "none"
      /\ \A t \in Slots \ {s} : requests'[t] = requests[t]
  BY <1>1, <1>4, FreeFacts DEF IndInv, WatcherTypeOK
<1> QED BY <1>1, <1>2, <1>3, <1>4, <1>5, TablesKept DEF ProcessInv, IndexTypeOK

\* The process exits: the calls go with it, and the tables stay or are gone.
LEMMA ExitKeeps == IndInv /\ Exit => IndInv'
<1> SUFFICES ASSUME IndInv, Exit PROVE IndInv'
  OBVIOUS
<1>1. /\ cursor' = NoCursor /\ startLedger' = FixedStart /\ timer' = FALSE
      /\ requests' = [s \in Slots |-> Free]
      /\ first' = 0 /\ delivered' = {} /\ ledger' = ledger /\ log' = log
  BY DEF Exit, chain
<1>2. \A s \in Slots : requests'[s] = Free
  BY <1>1
<1>3. ledger \in Nat \ {0} /\ log \in Seq([ledger: Nat, event: Published]) /\ Len(log) \in Nat
  BY DEF IndInv, WatcherTypeOK
<1>4. requests' \in [Slots -> Request]
  BY <1>1, FreeFacts
<1>5. startLedger' \in 0 .. ledger'
  BY <1>1, <1>3, WatcherAssumption
<1>6. WatcherTypeOK'
  <2>1. \A s \in Slots : requests'[s].upTo <= Len(log')
    BY <1>1, <1>2, <1>3, FreeFacts
  <2>2. timer' \in BOOLEAN
    BY <1>1
  <2> QED BY <1>1, <1>3, <1>4, <1>5, <2>1, <2>2 DEF WatcherTypeOK
<1>7. PagesFollowCursor'
  BY <1>1, <1>2, <1>3, FreeFacts DEF PagesFollowCursor
<1> QED BY <1>6, <1>7 DEF IndInv

LEMMA ExitServer == ServerInv /\ Exit => ServerInv'
<1> SUFFICES ASSUME ServerInv, Exit PROVE ServerInv'
  OBVIOUS
<1>1. IndInv /\ IndexTypeOK /\ RowTellsTimeline /\ ProcessInv
  BY DEF ServerInv
<1>2. IndInv'
  BY <1>1, ExitKeeps
<1>3. /\ up' = FALSE /\ cursor' = NoCursor /\ requests' = [s \in Slots |-> Free]
      /\ UNCHANGED <<booted, overlapped>>
  BY DEF Exit
<1>4. IndexTypeOK' /\ RowTellsTimeline'
  <2>1. up' \in BOOLEAN
    BY <1>3
  <2>2. CASE UNCHANGED <<row, timeline>>
    BY <1>1, <1>3, <2>1, <2>2 DEF IndexTypeOK, RowTellsTimeline, Tells, Told
  <2>3. CASE row' = NoRow /\ timeline' = <<>>
    <3>1. DOMAIN row' = RowFields /\ timeline' \in Seq(NoteSet)
      BY <2>3 DEF NoRow, RowFields
    <3>2. RowTellsTimeline'
      BY <2>3 DEF RowTellsTimeline, Tells
    <3> QED BY <1>1, <1>3, <2>1, <3>1, <3>2 DEF IndexTypeOK
  <2> QED BY <2>2, <2>3 DEF Exit, index
<1>5. ProcessInv'
  BY <1>3 DEF ProcessInv
<1> QED BY <1>2, <1>4, <1>5 DEF ServerInv

\* A webhook records a proof: its entry is about a milestone, and of no event of the log.
LEMMA WebhookServer == ServerInv /\ Webhook => ServerInv'
<1> SUFFICES ASSUME ServerInv, Webhook PROVE ServerInv'
  OBVIOUS
<1>1. IndInv /\ IndexTypeOK /\ RowTellsTimeline /\ ProcessInv
  BY DEF ServerInv
<1>2. PICK d \in Published : d.milestone # 0 /\ RecordProof(d.milestone)
  BY DEF Webhook
<1> DEFINE id == d.milestone
           e == ProofEntry(id)
           r == IF row = NoRow THEN DemoRow ELSE row
<1>3. /\ row' = [r EXCEPT !.milestones = UpsertMilestone(@, id, "UnderReview")]
      /\ timeline' = Append(timeline, e)
      /\ UNCHANGED <<watcherVars, up, booted, overlapped>>
  BY <1>2 DEF RecordProof
<1>4. /\ UNCHANGED <<ledger, log, cursor, startLedger, timer, requests, first, delivered>>
      /\ UNCHANGED <<up, booted, overlapped>>
  BY <1>3 DEF watcherVars, chain, watcher
<1>5. e \in NoteSet /\ e.milestone = id /\ e.topic = "ProofSubmitted" /\ e.event = 0
  <2>1. id \in Nat
    BY IndexerAssumption
  <2> QED BY <2>1 DEF ProofEntry, NoteSet
<1>6. DOMAIN r = RowFields /\ Tells(r, timeline)
  <2>1. CASE row = NoRow
    <3>1. r = DemoRow /\ DOMAIN row.milestones = {}
      BY <2>1 DEF NoRow
    <3>2. Tells(DemoRow, timeline)
      BY <1>1, <3>1 DEF RowTellsTimeline, Tells
    <3> QED BY <3>1, <3>2 DEF DemoRow, RowFields
  <2>2. CASE row # NoRow
    BY <1>1, <2>2 DEF RowTellsTimeline, IndexTypeOK
  <2> QED BY <2>1, <2>2
<1> HIDE DEF e, r
<1>7. DOMAIN row' = RowFields /\ row'.milestones = UpsertMilestone(r.milestones, id, "UnderReview")
  BY <1>3, <1>6 DEF RowFields
<1>8. Tells(row', Append(timeline, e))
  BY <1>1, <1>5, <1>6, <1>7, Upserted, TellsAppended DEF IndexTypeOK
<1>9. RowTellsTimeline'
  BY <1>3, <1>8 DEF RowTellsTimeline, Tells, Told
<1>10. IndexTypeOK'
  <2>1. timeline' \in Seq(NoteSet)
    BY <1>1, <1>3, <1>5, AppendProperties DEF IndexTypeOK
  <2> QED BY <1>1, <1>4, <1>7, <2>1 DEF IndexTypeOK
<1>11. IndInv'
  BY <1>1, <1>3, StutterKeeps
<1>12. /\ Len(timeline) \in Nat /\ Len(timeline') = Len(timeline) + 1
       /\ timeline'[Len(timeline) + 1] = e
       /\ \A i \in 1 .. Len(timeline) : timeline'[i] = timeline[i]
  BY <1>1, <1>3, <1>5, AppendProperties DEF IndexTypeOK
<1>13. OwnEntries' = OwnEntries /\ \A i \in OwnEntries : timeline'[i] = timeline[i]
  <2>1. booted \in Nat
    BY <1>1 DEF IndexTypeOK
  <2>2. \A i \in booted + 1 .. Len(timeline) : i \in 1 .. Len(timeline)
                                             /\ i \in booted + 1 .. Len(timeline')
    BY <1>12, <2>1
  <2>3. \A i \in booted + 1 .. Len(timeline') :
            i = Len(timeline) + 1 \/ i \in booted + 1 .. Len(timeline)
    BY <1>12, <2>1
  <2> QED BY <1>4, <1>5, <1>12, <2>2, <2>3 DEF OwnEntries
<1>14. OwnIsLog => OwnIsLog'
  <2>1. \A i \in OwnEntries : Entry(timeline[i].event)' = Entry(timeline[i].event)
    BY <1>4, <1>13 DEF Entry
  <2> QED BY <1>4, <1>13, <2>1 DEF OwnIsLog
<1>15. booted <= Len(timeline) => booted <= Len(timeline')
  BY <1>1, <1>12 DEF IndexTypeOK
<1>16. ProcessInv'
  BY <1>1, <1>4, <1>13, <1>14, <1>15 DEF ProcessInv
<1> QED BY <1>9, <1>10, <1>11, <1>16 DEF ServerInv

\* A page continues what the process has read: its entries follow those of its past.
LEMMA PageContinues ==
    ASSUME timeline \in Seq(NoteSet), booted \in Nat, booted <= Len(timeline),
           NEW start \in Nat, NEW from \in Nat, NEW upTo \in Nat, start <= from, from <= upTo,
           {timeline[i].event : i \in OwnEntries} =
              {p \in start + 1 .. from : Typed(log[p].event)},
           \A i \in OwnEntries : timeline[i] = Entry(timeline[i].event),
           \A i, j \in OwnEntries : i < j => timeline[i].event < timeline[j].event,
           timeline' \in Seq(NoteSet), Logged(timeline', from, upTo),
           UNCHANGED <<booted, log>>, first' = start, cursor' = upTo
    PROVE  OwnIsLog'
<1> DEFINE n == Len(timeline)
           m == Len(timeline')
           Old == OwnEntries
           New == n + 1 .. m
           t == timeline'
<1>1. n \in Nat /\ m \in Nat /\ n <= m
  BY DEF Logged
<1>2. /\ \A i \in 1 .. n : t[i] = timeline[i]
      /\ \A i \in New : /\ t[i].event \in from + 1 .. upTo /\ Typed(log[t[i].event].event)
                        /\ t[i] = Entry(t[i].event)
      /\ \A q \in from + 1 .. upTo : Typed(log[q].event) => \E i \in New : t[i].event = q
      /\ \A i, j \in New : i < j => t[i].event < t[j].event
  BY DEF Logged
<1>3. \A i \in Old : i \in 1 .. n /\ t[i] = timeline[i]
  BY <1>1, <1>2 DEF OwnEntries
<1>4. OwnEntries' = Old \cup New
  <2>1. OwnEntries' = {i \in booted + 1 .. m : t[i].event # 0}
    BY DEF OwnEntries
  <2>2. \A i \in New : t[i].event # 0
    BY <1>2
  <2>3. \A i \in booted + 1 .. m : i \in New \/ (i \in booted + 1 .. n /\ i \in 1 .. n)
    BY <1>1
  <2>4. \A i \in New : i \in booted + 1 .. m
    BY <1>1
  <2>5. \A i \in booted + 1 .. n : i \in 1 .. n /\ i \in booted + 1 .. m
    BY <1>1
  <2>6. Old = {i \in booted + 1 .. n : timeline[i].event # 0}
    BY DEF OwnEntries
  <2> HIDE DEF New, Old, n, m, t
  <2> QED BY <1>2, <2>1, <2>2, <2>3, <2>4, <2>5, <2>6
<1>5. \A i \in Old : t[i].event \in start + 1 .. from /\ Typed(log[t[i].event].event)
  BY <1>3
<1>6. {t[i].event : i \in Old \cup New} = {p \in start + 1 .. upTo : Typed(log[p].event)}
  <2>1. ASSUME NEW i \in Old \cup New
        PROVE  t[i].event \in {p \in start + 1 .. upTo : Typed(log[p].event)}
    <3>1. CASE i \in Old
      BY <1>5, <3>1
    <3>2. CASE i \in New
      BY <1>2, <3>2
    <3> QED BY <3>1, <3>2
  <2>2. ASSUME NEW p \in start + 1 .. upTo, Typed(log[p].event)
        PROVE  \E i \in Old \cup New : t[i].event = p
    <3>1. CASE p \in start + 1 .. from
      <4>1. PICK i \in Old : timeline[i].event = p
        BY <2>2, <3>1
      <4> QED BY <1>3, <4>1
    <3>2. CASE p \in from + 1 .. upTo
      BY <1>2, <2>2, <3>2
    <3> QED BY <3>1, <3>2
  <2> HIDE DEF Old, New, t
  <2> QED BY <2>1, <2>2
<1>7. ASSUME NEW i \in Old \cup New PROVE t[i] = Entry(t[i].event)
  BY <1>2, <1>3
<1>8. ASSUME NEW i \in Old \cup New, NEW j \in Old \cup New, i < j
      PROVE  t[i].event < t[j].event
  <2>1. CASE i \in New /\ j \in New
    BY <1>2, <1>8, <2>1
  <2>2. CASE i \in Old /\ j \in Old
    BY <1>3, <1>8, <2>2
  <2>3. CASE i \in Old /\ j \in New
    <3>1. t[i].event \in start + 1 .. from /\ t[j].event \in from + 1 .. upTo
      BY <1>2, <1>5, <2>3
    <3> QED BY <3>1
  <2>4. CASE i \in New /\ j \in Old
    BY <1>1, <1>3, <1>8, <2>4
  <2> QED BY <2>1, <2>2, <2>3, <2>4
<1>9. \A x : Entry(x)' = Entry(x)
  BY DEF Entry
<1>10. ASSUME NEW i \in Old \cup New PROVE timeline'[i] = Entry(timeline[i].event)'
  BY <1>7, <1>10 DEF Entry
<1> HIDE DEF Old, New
<1> QED BY <1>4, <1>6, <1>8, <1>10 DEF OwnIsLog

LEMMA IndexServer == ASSUME ServerInv, NEW s \in Slots, Index(s) PROVE ServerInv'
<1>1. IndInv /\ IndexTypeOK /\ RowTellsTimeline /\ ProcessInv
  BY DEF ServerInv
<1> DEFINE from == requests[s].from
           upTo == requests[s].upTo
           after == IndexAfter(from, upTo)
<1>2. /\ up /\ ReceivePage(s) /\ row' = after.row /\ timeline' = after.timeline
      /\ UNCHANGED <<up, booted, overlapped>>
  BY DEF Index
<1>3. /\ requests[s].kind \in {"first", "tick"} /\ cursor' = upTo /\ log' = log
      /\ first' = (IF cursor = NoCursor THEN from ELSE first)
      /\ requests' = [requests EXCEPT ![s] = Free]
  BY <1>2 DEF ReceivePage, chain
<1>4. IndInv'
  BY <1>1, <1>2, ReceivePageKeeps
<1>5. /\ from \in Nat /\ upTo \in 0 .. Len(log) /\ from <= upTo
      /\ first' \in Nat /\ first' <= from
  BY <1>1, <1>2, PageIsRead
<1>6. log \in Seq([ledger: Nat, event: Published]) /\ Len(log) \in Nat
  BY <1>1 DEF IndInv, WatcherTypeOK
<1>7. from \in 0 .. Len(log)
  BY <1>5, <1>6
<1>8. /\ DOMAIN after.row = RowFields /\ after.timeline \in Seq(NoteSet)
      /\ Tells(after.row, after.timeline) /\ Logged(after.timeline, from, upTo)
  BY <1>1, <1>5, <1>6, <1>7, PageApplied
<1>9. /\ requests'[s].kind = "none"
      /\ \A t \in Slots \ {s} : requests'[t] = requests[t]
  BY <1>1, <1>3, FreeFacts DEF IndInv, WatcherTypeOK
<1> HIDE DEF after
<1>10. IndexTypeOK'
  BY <1>1, <1>2, <1>8 DEF IndexTypeOK
<1>11. RowTellsTimeline'
  BY <1>2, <1>8 DEF RowTellsTimeline, Tells, Told
<1>12. booted <= Len(timeline) /\ booted' <= Len(timeline')
  BY <1>1, <1>2, <1>8 DEF ProcessInv, IndexTypeOK, Logged
<1>13. cursor' # NoCursor
  BY <1>3, <1>5 DEF NoCursor
<1>14. ASSUME NEW t \in Slots PROVE requests'[t].kind \notin {"latest", "first"}
  <2>1. CASE t = s
    BY <1>9, <2>1
  <2>2. CASE t # s
    <3>1. CASE cursor = NoCursor
      <4>1. requests[s].kind = "first"
        BY <1>1, <1>3, <3>1 DEF IndInv, PagesFollowCursor
      <4>2. requests[t].kind \notin {"latest", "first"}
        BY <1>1, <2>2, <4>1 DEF IndInv, PagesFollowCursor
      <4> QED BY <1>9, <2>2, <4>2
    <3>2. CASE cursor # NoCursor
      BY <1>1, <1>9, <2>2, <3>2 DEF ProcessInv
    <3> QED BY <3>1, <3>2
  <2> QED BY <2>1, <2>2
<1>15. ASSUME ~ overlapped
       PROVE  OwnIsLog' /\ \A t \in Slots : requests'[t].kind = "none"
  <2>1. \A t \in Slots : requests'[t].kind = "none"
    BY <1>1, <1>2, <1>3, <1>9, <1>15 DEF ProcessInv
  <2>2. /\ {timeline[i].event : i \in OwnEntries} =
              {p \in first' + 1 .. from : Typed(log[p].event)}
        /\ \A i \in OwnEntries : timeline[i] = Entry(timeline[i].event)
        /\ \A i, j \in OwnEntries : i < j => timeline[i].event < timeline[j].event
    <3>1. CASE cursor = NoCursor
      <4>1. OwnEntries = {}
        BY <1>1, <1>2, <1>15, <3>1 DEF ProcessInv
      <4>2. first' + 1 .. from = {}
        BY <1>3, <1>5, <3>1
      <4> QED BY <4>1, <4>2
    <3>2. CASE cursor # NoCursor
      <4>1. requests[s].kind = "tick"
        BY <1>1, <1>3, <3>2 DEF ProcessInv
      <4>2. from = cursor /\ first' = first /\ OwnIsLog
        BY <1>1, <1>2, <1>3, <1>15, <3>2, <4>1 DEF ProcessInv
      <4> QED BY <4>2 DEF OwnIsLog
    <3> QED BY <3>1, <3>2
  <2>3. OwnIsLog'
    <3>1. PICK start \in Nat : start = first'
      BY <1>5
    <3>2. PICK u \in Nat : u = upTo
      BY <1>5, <1>6
    <3>3. PICK f \in Nat : f = from
      BY <1>5
    <3>4. Logged(timeline', f, u) /\ timeline' \in Seq(NoteSet)
      BY <1>2, <1>8, <3>2, <3>3
    <3>5. start <= f /\ f <= u
      BY <1>5, <3>1, <3>2, <3>3
    <3>6. UNCHANGED <<booted, log>> /\ first' = start /\ cursor' = u
      BY <1>2, <1>3, <3>1, <3>2
    <3>7. timeline \in Seq(NoteSet) /\ booted \in Nat
      BY <1>1 DEF IndexTypeOK
    <3> HIDE DEF from, upTo
    <3> QED BY <1>12, <2>2, <3>1, <3>3, <3>4, <3>5, <3>6, <3>7, PageContinues
  <2> QED BY <2>1, <2>3
<1>16. ProcessInv'
  BY <1>2, <1>12, <1>13, <1>14, <1>15 DEF ProcessInv
<1> QED BY <1>4, <1>10, <1>11, <1>16 DEF ServerInv

LEMMA ServerStutters == ServerInv /\ UNCHANGED vars => ServerInv'
<1> SUFFICES ASSUME ServerInv, UNCHANGED vars PROVE ServerInv'
  OBVIOUS
<1>1. UNCHANGED watcherVars /\ UNCHANGED <<up, row, timeline, booted, overlapped>>
  BY DEF vars, server
<1>2. UNCHANGED <<ledger, log, cursor, startLedger, timer, requests, first, delivered>>
  BY <1>1 DEF watcherVars, chain, watcher
<1>3. IndInv'
  BY <1>1, StutterKeeps DEF ServerInv
<1> QED BY <1>1, <1>2, <1>3, TablesKept DEF ServerInv, ProcessInv, IndexTypeOK

LEMMA ServerStep == ServerInv /\ [IndexerNext]_vars => ServerInv'
<1> SUFFICES ASSUME ServerInv, [IndexerNext]_vars PROVE ServerInv'
  OBVIOUS
<1>1. CASE ChainMoves
  BY <1>1, ChainMovesServer
<1>2. CASE Boot
  BY <1>2, BootServer
<1>3. CASE Poll
  BY <1>3, PollServer
<1>4. CASE Exit
  BY <1>4, ExitServer
<1>5. ASSUME NEW s \in Slots, up /\ (Serve(s) \/ StartAtLatest(s)) /\ UNCHANGED server
      PROVE  ServerInv'
  BY <1>5, ServeServer, StartAtLatestServer
<1>6. ASSUME NEW s \in Slots, Index(s) \/ StartFails(s) \/ PollFails(s)
      PROVE  ServerInv'
  BY <1>6, IndexServer, StartFailsServer, ExitServer DEF PollFails
<1>7. CASE Webhook
  BY <1>7, WebhookServer
<1>8. CASE UNCHANGED vars
  BY <1>8, ServerStutters
<1> QED BY <1>1, <1>2, <1>3, <1>4, <1>5, <1>6, <1>7, <1>8 DEF IndexerNext

LEMMA ServerInvariance == IndexerSpec => []ServerInv
BY ServerInit, ServerStep, PTL DEF IndexerSpec

\* Whatever the pages, the webhooks and the restarts, the row of the escrow gives to
\* each milestone the status that the timeline tells.
THEOREM RowsTellTimelines == IndexerSpec => []RowTellsTimeline
<1>1. ServerInv => RowTellsTimeline
  BY DEF ServerInv
<1> QED BY <1>1, ServerInvariance, PTL

\* A process whose polls never overlapped has recorded each event between the start of
\* its watch and its cursor once, and in the order of the chain, for pages of any size.
THEOREM TimelinesAreLogs == IndexerSpec => []TimelineIsLog
<1>1. ServerInv => TimelineIsLog
  BY DEF ServerInv, ProcessInv, OwnIsLog, TimelineIsLog
<1> QED BY <1>1, ServerInvariance, PTL
=============================================================================
