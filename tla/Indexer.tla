------------------------------ MODULE Indexer -------------------------------
(***************************************************************************)
(* The indexer of apps/server (services/indexer.ts, started by index.ts): a   *)
(* watcher feeds the events of the escrow contract into a row of the escrows  *)
(* table and the timeline, into which webhooks record proofs as well.       *)
(*                                                                         *)
(* The rows of other escrows are written by webhooks alone and left out.  A   *)
(* handler runs without interruption, and SQLite is synchronous; the process *)
(* exits between handlers, on the rejection that nobody handles when a poll  *)
(* of the interval fails, and is started again.                             *)
(***************************************************************************)
EXTENDS EventWatcher

CONSTANTS
    Persistent,     \* INDEXER_DB_PATH is a file; it is ":memory:" by default
    Amount,         \* what a release pays, in the units of the demo escrow
    MaxTimeline     \* bound: entries of the timeline

ASSUME IndexerAssumption ==
    /\ Persistent \in BOOLEAN
    /\ Amount \in Nat \ {0} /\ MaxTimeline \in Nat
    /\ \A e \in Published :
          /\ e.milestone \in Nat
          /\ Label(e.topic) \in {"DisputeRaised", "DisputeResolved"} => e.milestone = 0

VARIABLES
    up,             \* the process runs
    row,            \* the escrow's row
    timeline,       \* the escrow's entries of the timeline, oldest first
    booted,         \* history: the length of the timeline when the process began
    overlapped      \* history: a poll began before the previous one ended

index == <<row, timeline>>
server == <<up, row, timeline, booted, overlapped>>
vars == <<watcherVars, server>>

----------------------------------------------------------------------------
(* The row.                                                                 *)

NoRow == [state |-> "none", milestones |-> <<>>, locked |-> 0]
NewRow == [state |-> "Active", milestones |-> <<>>, locked |-> 0]

\* seedEscrow(): a webhook's row starts as a copy of the demo escrow.
DemoRow ==
    [state |-> "Active",
     milestones |-> <<"Released", "UnderReview", "Pending">>,
     locked |-> 2 * Amount]

UpsertMilestone(milestones, id, status) ==
    [i \in DOMAIN milestones \cup {id} |-> IF i = id THEN status ELSE milestones[i]]

\* Mutant: a dispute marks every milestone.
MarkDisputed_All(milestones) == [i \in DOMAIN milestones |-> "Disputed"]

MarkDisputed(milestones) ==
    [i \in DOMAIN milestones |->
        IF milestones[i] = "Released" THEN "Released" ELSE "Disputed"]

LockedAfter(locked) == IF locked > Amount THEN locked - Amount ELSE 0

\* applyEvent: what an event does to the row.
ApplyEvent(old, e) ==
    LET r == IF old = NoRow THEN NewRow ELSE old
        released == UpsertMilestone(r.milestones, e.milestone, "Released")
    IN  CASE e.topic = "ProofSubmitted" ->
                [r EXCEPT !.milestones = UpsertMilestone(@, e.milestone, "UnderReview")]
          [] e.topic = "MilestoneReleased" ->
                [state |-> IF \A i \in DOMAIN released : released[i] = "Released"
                           THEN "Completed" ELSE r.state,
                 milestones |-> released,
                 locked |-> LockedAfter(r.locked)]
          [] e.topic = "DisputeRaised" ->
                [r EXCEPT !.state = "Disputed", !.milestones = MarkDisputed(@)]
          [] e.topic = "DisputeResolved" ->
                [r EXCEPT !.state = "Completed", !.locked = 0]

\* An event of the log as an entry of the timeline.
Entry(p) ==
    [topic |-> Label(log[p].event.topic), milestone |-> log[p].event.milestone, event |-> p]

\* applyEvent: an event changes the row, and is appended to the timeline.
Applied(tables, p) ==
    [row |-> ApplyEvent(tables.row, Entry(p)),
     timeline |-> Append(tables.timeline, Entry(p))]

\* poll() hands the events of its page to the handler, one after the other.
IndexAfter(from, upTo) ==
    LET after[p \in from .. upTo] ==
            IF p = from THEN [row |-> row, timeline |-> timeline]
            ELSE IF Typed(log[p].event) THEN Applied(after[p - 1], p)
            ELSE after[p - 1]
    IN  after[upTo]

----------------------------------------------------------------------------
(* The process.                                                             *)

\* The process starts: its watcher is new, and startIndexer starts it.
Boot ==
    /\ ~ up
    /\ up' = TRUE
    /\ Start
    /\ booted' = Len(timeline)
    /\ overlapped' = FALSE
    /\ UNCHANGED index

\* The watcher's timer fires.
Poll ==
    /\ up /\ Tick
    /\ overlapped' = (overlapped \/ \E s \in Slots : requests[s] # Free)
    /\ UNCHANGED <<up, index, booted>>

\* A page arrives, and applyEvent runs for each of its events.
Index(s) ==
    /\ up /\ ReceivePage(s)
    /\ LET after == IndexAfter(requests[s].from, requests[s].upTo)
       IN  /\ Len(after.timeline) <= MaxTimeline
           /\ row' = after.row /\ timeline' = after.timeline
    /\ UNCHANGED <<up, booted, overlapped>>

\* The first calls fail: index.ts logs it, and the watcher never starts.
StartFails(s) ==
    /\ up /\ requests[s].kind \in {"latest", "first"}
    /\ Reject(s)
    /\ UNCHANGED server

\* The process exits; what the watcher knew is lost, and the rows with it unless
\* they are in a file.
Exit ==
    /\ up
    /\ up' = FALSE
    /\ cursor' = NoCursor /\ startLedger' = FixedStart /\ timer' = FALSE
    /\ requests' = [s \in Slots |-> Free]
    /\ first' = 0 /\ delivered' = {}
    /\ IF Persistent THEN UNCHANGED index ELSE row' = NoRow /\ timeline' = <<>>
    /\ UNCHANGED <<chain, booted, overlapped>>

\* A poll of the interval fails: nobody handles its rejection.
PollFails(s) ==
    /\ requests[s].kind = "tick"
    /\ Exit

\* The entry of a proof that a webhook records: no event of the log.
ProofEntry(id) == [topic |-> "ProofSubmitted", milestone |-> id, event |-> 0]

\* A webhook about a merged pull request: recordProof, whatever the milestone's state.
RecordProof(id) ==
    /\ up
    /\ Len(timeline) < MaxTimeline
    /\ LET r == IF row = NoRow THEN DemoRow ELSE row
       IN  row' = [r EXCEPT !.milestones = UpsertMilestone(@, id, "UnderReview")]
    /\ timeline' = Append(timeline, ProofEntry(id))
    /\ UNCHANGED <<watcherVars, up, booted, overlapped>>

\* GitHub delivers a merged pull request, for the first time or again, whose metadata
\* name a milestone of the watched escrow.
Webhook == \E e \in Published : e.milestone # 0 /\ RecordProof(e.milestone)

\* What the contract can publish: a milestone is released once and takes no proof
\* after it, and a settlement ends a dispute and the escrow.
Lawful(events) ==
    \A i, j \in DOMAIN events :
        LET a == events[i].event
            b == events[j].event
        IN  i < j =>
                /\ Label(a.topic) # "DisputeResolved"
                /\ Label(a.topic) = "MilestoneReleased" => a.milestone # b.milestone

ChainMoves ==
    /\ CloseLedger
    /\ Lawful(log')
    /\ UNCHANGED server

IndexerInit ==
    /\ WatcherInit
    /\ up = FALSE
    /\ row = NoRow /\ timeline = <<>>
    /\ booted = 0 /\ overlapped = FALSE

IndexerNext ==
    \/ ChainMoves
    \/ Boot \/ Poll \/ Exit
    \/ \E s \in Slots :
          \/ up /\ (Serve(s) \/ StartAtLatest(s)) /\ UNCHANGED server
          \/ Index(s) \/ StartFails(s) \/ PollFails(s)
    \/ Webhook

IndexerSpec == IndexerInit /\ [][IndexerNext]_vars

----------------------------------------------------------------------------
(* Properties.                                                              *)

\* What the last entry about a milestone, the i-th, and the disputes after it say of
\* its status.
Told(entries, i) ==
    IF entries[i].topic = "MilestoneReleased" THEN "Released"
    ELSE IF \E j \in i + 1 .. Len(entries) : entries[j].topic = "DisputeRaised" THEN "Disputed"
    ELSE "UnderReview"

Tells(r, entries) ==
    \A i \in DOMAIN entries :
        LET id == entries[i].milestone
        IN  id # 0 /\ (\A j \in i + 1 .. Len(entries) : entries[j].milestone # id) =>
               id \in DOMAIN r.milestones /\ r.milestones[id] = Told(entries, i)

\* The row and the timeline are two tables written one after the other, by pages in
\* any order, by webhooks and by processes that follow each other: for every
\* milestone they tell the same story (applyEvent, recordProof).
RowTellsTimeline == Tells(row, timeline)

\* As long as no poll began before the previous one had ended, the timeline of this
\* process holds each event that it has read exactly once and in the order of the
\* chain, whatever the pages, failures and webhooks (poll(), applyEvent).
OwnEntries == {i \in booted + 1 .. Len(timeline) : timeline[i].event # 0}

TimelineIsLog ==
    up /\ cursor # NoCursor /\ ~ overlapped =>
        /\ {timeline[i].event : i \in OwnEntries} =
              {p \in first + 1 .. cursor : Typed(log[p].event)}
        /\ \A i \in OwnEntries : timeline[i] = Entry(timeline[i].event)
        /\ \A i, j \in OwnEntries : i < j => timeline[i].event < timeline[j].event
=============================================================================
