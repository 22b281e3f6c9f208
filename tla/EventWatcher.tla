---------------------------- MODULE EventWatcher ----------------------------
(***************************************************************************)
(* ContractEventWatcher of packages/sdk/src/events.ts: it polls the RPC for   *)
(* the events of one contract and hands the milestone and dispute events    *)
(* among them to its handlers.                                              *)
(*                                                                         *)
(* The RPC is external: a log of events, each in the ledger that closed it. *)
(* A call to it is a request, which the RPC answers at one moment and whose  *)
(* answer arrives at a later one, or fails.  setInterval does not wait for  *)
(* the previous poll, so polls overlap and their answers arrive in any      *)
(* order.  Between its awaits the code runs without interruption: one action. *)
(***************************************************************************)
EXTENDS Integers, Sequences, FiniteSets

CONSTANTS
    Published,      \* the events the contract publishes: records with a topic
    FixedStart,     \* options.startLedger, 0 when it is not given
    PageLimit,      \* the limit of a page: 100 in the code
    Slots,          \* bound: as many calls to the RPC are pending at once
    PerLedger,      \* bound: events in a ledger
    MaxLedger,      \* bound: ledgers that close
    MaxEvents       \* bound: events of the contract

ASSUME WatcherAssumption ==
    /\ \A e \in Published : e.topic \in STRING
    /\ FixedStart \in {0, 1}
    /\ PageLimit \in Nat \ {0}
    /\ PerLedger \in Nat /\ MaxLedger \in Nat /\ MaxEvents \in Nat

VARIABLES
    ledger,         \* the last closed ledger
    log,            \* the contract's events in the order of the chain
    cursor,         \* this.cursor: the events up to this one are read
    startLedger,    \* this.startLedger, 0 when undefined
    timer,          \* this.timer is set: the interval runs
    requests,       \* the pending calls to the RPC
    first,          \* history: the watch began after this event of the log
    delivered       \* history: the events that were handed to the handlers

chain == <<ledger, log>>
watcher == <<cursor, startLedger, timer, requests, first, delivered>>
watcherVars == <<chain, watcher>>

NoCursor == -1

----------------------------------------------------------------------------
(* Decoding.                                                                *)

TOPIC_LABELS ==
    [init |-> "EscrowInitialized", EscrowInitialized |-> "EscrowInitialized",
     deposit |-> "FundsDeposited", FundsDeposited |-> "FundsDeposited",
     proof |-> "ProofSubmitted", ProofSubmitted |-> "ProofSubmitted",
     release |-> "MilestoneReleased", MilestoneReleased |-> "MilestoneReleased",
     dispute |-> "DisputeRaised", DisputeRaised |-> "DisputeRaised",
     DisputeResolved |-> "DisputeResolved"]

Label(topic) == IF topic \in DOMAIN TOPIC_LABELS THEN TOPIC_LABELS[topic] ELSE topic

\* What parseAstraFlowEvent turns into an event; the others become null.
Typed(event) ==
    Label(event.topic) \in
        {"ProofSubmitted", "MilestoneReleased", "DisputeRaised", "DisputeResolved"}

----------------------------------------------------------------------------
(* The chain and the RPC.                                                   *)

\* A ledger closes, with any events of the contract.
CloseLedger ==
    /\ ledger < MaxLedger
    /\ \E n \in 0..PerLedger : \E events \in [1..n -> Published] :
          /\ Len(log) + n <= MaxEvents
          /\ log' = log \o [i \in 1..n |-> [ledger |-> ledger + 1, event |-> events[i]]]
    /\ ledger' = ledger + 1
    /\ UNCHANGED watcher

\* The number of events before a ledger.
Before(l) == Cardinality({i \in DOMAIN log : log[i].ledger < l})

\* A call that the RPC has not answered, and the place of one.
Call(kind, from) ==
    [kind |-> kind, from |-> from, served |-> FALSE, upTo |-> 0, latest |-> 0]
Free == Call("none", 0)

\* The end of the page that follows a cursor.
PageEnd(from) == IF from + PageLimit < Len(log) THEN from + PageLimit ELSE Len(log)

\* The RPC answers with its last ledger and the page that follows the cursor or
\* the start ledger; the page's cursor is its end.
Serve(s) ==
    LET r == requests[s]
    IN  /\ r.kind # "none" /\ ~ r.served
        /\ requests' = [requests EXCEPT ![s] =
              [r EXCEPT !.served = TRUE, !.upTo = PageEnd(r.from), !.latest = ledger]]
        /\ UNCHANGED <<chain, cursor, startLedger, timer, first, delivered>>

----------------------------------------------------------------------------
(* The watcher.                                                             *)

\* The bugs that the properties must find: the start ledger, which follows the chain,
\* preferred to the cursor; a page that repeats, or passes over, the event at the
\* cursor; a start that waits for the next ledger.
GetEvents_FromStartLedger(kind, start) == Call(kind, Before(start))
GetEvents_InclusiveCursor(kind, start) ==
    Call(kind, IF cursor = NoCursor THEN Before(start)
               ELSE IF cursor = 0 THEN 0 ELSE cursor - 1)
GetEvents_PastCursor(kind, start) ==
    Call(kind, IF cursor = NoCursor THEN Before(start)
               ELSE IF cursor = Len(log) THEN cursor ELSE cursor + 1)
RecentLedger_Next(latest) == latest + 1

\* getLatestLedger or getEvents is called.
GetLatestLedger == Call("latest", 0)
GetEvents(kind, start) == Call(kind, IF cursor # NoCursor THEN cursor ELSE Before(start))

\* Where a watch without a start ledger begins.
RecentLedger(latest) == IF latest - 1 > 1 THEN latest - 1 ELSE 1

\* A start() that has not returned.
Starting == \E s \in Slots : requests[s].kind \in {"latest", "first"}

\* Callers await start() before they call it again.
Start ==
    /\ ~ timer /\ ~ Starting
    /\ \E s \in Slots :
          /\ requests[s] = Free
          /\ requests' = [requests EXCEPT ![s] =
                IF startLedger = 0 THEN GetLatestLedger ELSE GetEvents("first", startLedger)]
    /\ UNCHANGED <<chain, cursor, startLedger, timer, first, delivered>>

\* start() goes on after getLatestLedger.
StartAtLatest(s) ==
    LET r == requests[s]
    IN  /\ r.kind = "latest" /\ r.served
        /\ startLedger' = RecentLedger(r.latest)
        /\ requests' = [requests EXCEPT ![s] = GetEvents("first", startLedger')]
        /\ UNCHANGED <<chain, cursor, timer, first, delivered>>

\* The interval fires, whether the previous poll has ended or not.
Tick ==
    /\ timer
    /\ \E s \in Slots :
          /\ requests[s] = Free
          /\ requests' = [requests EXCEPT ![s] = GetEvents("tick", startLedger)]
    /\ UNCHANGED <<chain, cursor, startLedger, timer, first, delivered>>

\* poll() goes on with its page; after the first one, start() sets the interval.
ReceivePage(s) ==
    LET r == requests[s]
    IN  /\ r.kind \in {"first", "tick"} /\ r.served
        /\ cursor' = r.upTo
        /\ startLedger' = r.latest
        /\ delivered' = delivered \cup {p \in r.from + 1 .. r.upTo : Typed(log[p].event)}
        /\ first' = IF cursor = NoCursor THEN r.from ELSE first
        /\ timer' = (timer \/ r.kind = "first")
        /\ requests' = [requests EXCEPT ![s] = Free]
        /\ UNCHANGED chain

\* A call fails: start() or the interval's poll rejects.
Reject(s) ==
    /\ requests[s] # Free
    /\ requests' = [requests EXCEPT ![s] = Free]
    /\ UNCHANGED <<chain, cursor, startLedger, timer, first, delivered>>

\* stop() clears the interval, not the polls that are under way.
Stop ==
    /\ timer
    /\ timer' = FALSE
    /\ UNCHANGED <<chain, cursor, startLedger, requests, first, delivered>>

----------------------------------------------------------------------------
WatcherInit ==
    /\ ledger = 1 /\ log = <<>>
    /\ cursor = NoCursor /\ startLedger = FixedStart /\ timer = FALSE
    /\ requests = [s \in Slots |-> Free]
    /\ first = 0 /\ delivered = {}

WatcherNext ==
    \/ CloseLedger
    \/ Start \/ Tick \/ Stop
    \/ \E s \in Slots : Serve(s) \/ StartAtLatest(s) \/ ReceivePage(s) \/ Reject(s)

WatcherSpec == WatcherInit /\ [][WatcherNext]_watcherVars

\* The interval keeps firing, and the calls to the RPC do not fail for ever: among
\* the calls that are repeated some are answered, and some answers arrive.
FairWatcherSpec ==
    /\ WatcherSpec
    /\ WF_watcherVars(Tick)
    /\ \A s \in Slots : SF_watcherVars(Serve(s)) /\ SF_watcherVars(ReceivePage(s))

----------------------------------------------------------------------------
(* Properties.                                                              *)

Request ==
    [kind: {"none", "latest", "first", "tick"}, from: Nat, served: BOOLEAN, upTo: Nat, latest: Nat]

\* Types of the watcher's fields, of its requests and of the log; a page never
\* ends behind the log it was read from.
WatcherTypeOK ==
    /\ ledger \in Nat \ {0}
    /\ log \in Seq([ledger: Nat, event: Published])
    /\ cursor \in {NoCursor} \cup 0..Len(log)
    /\ startLedger \in 0..ledger
    /\ timer \in BOOLEAN
    /\ requests \in [Slots -> Request]
    /\ \A s \in Slots : requests[s].upTo <= Len(log)
    /\ first \in Nat /\ delivered \subseteq DOMAIN log

\* However polls overlap, answers are late, calls fail and the watch is stopped
\* and started again, no milestone or dispute event between the start of the watch
\* and the cursor was passed over (the cursor of poll(), events.ts 198-213).
NothingSkipped ==
    cursor # NoCursor =>
        \A p \in first + 1 .. cursor : Typed(log[p].event) => p \in delivered

\* A handler sees an event for the first time after every event before it: late
\* answers repeat events but never bring a new one forward.
FirstSeenInOrder ==
    [][\A p \in delivered' \ delivered, q \in delivered : q < p]_watcherVars

\* An event that is published while the watch is on reaches the handlers unless
\* the watch is stopped: late answers that move the cursor back cannot keep it
\* from advancing for ever.
EventsArrive ==
    \A p \in 1..MaxEvents :
        (timer /\ p \in first + 1 .. Len(log) /\ Typed(log[p].event))
            ~> (p \in delivered \/ ~ timer)

\* The events of the contract that are about milestones and disputes, by the
\* names of their structs (contracts/escrow/src/events.rs).
ContractMilestoneAndDispute ==
    {"MilestoneCreated", "MilestoneSubmitted", "MilestoneApproved", "DisputeRaised",
     "DisputeSettled"}

\* events.ts:153: the watcher "Polls Soroban RPC `getEvents` and emits typed
\* milestone / dispute events."  So those of the contract reach the handlers when
\* the cursor passes them.
MilestoneAndDisputeEventsEmitted ==
    cursor # NoCursor =>
        \A p \in first + 1 .. cursor :
            log[p].event.topic \in ContractMilestoneAndDispute => p \in delivered

=============================================================================
