----------------------------- MODULE Submission -----------------------------
(***************************************************************************)
(* From a call of the SDK to a transaction on the ledger, for the requests  *)
(* of one source account: assembleTransaction of packages/sdk/src/client.ts *)
(* (read the account, build, simulate), SignatureAggregator.submit of       *)
(* multisig.ts with the classification of errors.ts, and the retries of     *)
(* retry.ts around it.                                                      *)
(*                                                                         *)
(* Nothing under packages/ puts the three together: the program that uses   *)
(* the SDK does, and wraps submit in withExponentialBackoff.  It and the    *)
(* network are external.  The network takes one transaction of an account   *)
(* at a time, in the order of its sequence numbers, and before its time     *)
(* bound; calls and answers are lost.  A step of a caller covers its call   *)
(* and the answer: between the two it changes nothing that others read.     *)
(***************************************************************************)
EXTENDS Naturals

CONSTANTS
    Requests,       \* the requests of the account
    Timeout,        \* setTimeout(60), in units of the clock
    Retries,        \* RetryOptions.retries
    MaxTime,        \* bound: the clock
    MaxSequence     \* bound: the sequence number of the account

ASSUME SubmissionAssumption ==
    /\ Timeout \in Nat /\ Retries \in Nat /\ MaxTime \in Nat /\ MaxSequence \in Nat

VARIABLES
    call,           \* what each request is doing
    envelope,       \* its transaction
    sequence,       \* network: the sequence number of the account
    pool,           \* network: the transactions waiting for a ledger
    now,            \* the clock
    included,       \* history: how often each request is on the ledger
    unanswered      \* history: the requests with a call that got no answer

submissionVars == <<call, envelope, sequence, pool, now, included, unanswered>>
networkVars == <<sequence, now, included>>

Steps == {"idle", "simulate", "send", "sleep", "done"}
Outcomes == {"none", "hash", "SIMULATION_FAILED", "TX_FAILED", "AUTH_EXPIRED"}

\* The transaction of a request with the sequence number after `seq`.
Built(r, seq) == [request |-> r, sequence |-> seq + 1, expires |-> now + Timeout]
NoEnvelope(r) == [request |-> r, sequence |-> 0, expires |-> 0]

----------------------------------------------------------------------------
(* The network.                                                             *)

\* What sendTransaction may answer.
Statuses(e) ==
    IF e \in pool THEN {"DUPLICATE"}
    ELSE {"ERROR", "TRY_AGAIN_LATER"}
         \cup {s \in {"PENDING"} : pool = {} /\ e.sequence = sequence + 1 /\ now <= e.expires}

\* A ledger takes a transaction, whether its invocation succeeds or not.
Include ==
    /\ sequence < MaxSequence
    /\ \E e \in pool :
        /\ e.sequence = sequence + 1 /\ now <= e.expires
        /\ pool' = pool \ {e}
        /\ sequence' = e.sequence
        /\ included' = [included EXCEPT ![e.request] = @ + 1]
    /\ UNCHANGED <<call, envelope, now, unanswered>>

\* A transaction leaves the pool without a ledger.
Drop ==
    /\ \E e \in pool : pool' = pool \ {e}
    /\ UNCHANGED <<call, envelope, networkVars, unanswered>>

\* The account's owner uses it elsewhere.
UseElsewhere ==
    /\ sequence < MaxSequence
    /\ sequence' = sequence + 1
    /\ UNCHANGED <<call, envelope, pool, now, included, unanswered>>

Tick ==
    /\ now < MaxTime
    /\ now' = now + 1
    /\ UNCHANGED <<call, envelope, pool, sequence, included, unanswered>>

----------------------------------------------------------------------------
(* A request.                                                               *)

\* getAccount has answered, and the transaction is built on what it said.
Assemble(r) ==
    /\ call[r].step = "idle" /\ sequence < MaxSequence
    /\ call' = [call EXCEPT ![r].step = "simulate"]
    /\ envelope' = [envelope EXCEPT ![r] = Built(r, sequence)]
    /\ UNCHANGED <<pool, networkVars, unanswered>>

\* simulateTransaction has answered; what it assembles is then signed.
Simulate(r) ==
    /\ call[r].step = "simulate"
    /\ \/ call' = [call EXCEPT ![r].step = "send"]
       \/ call' = [call EXCEPT ![r].step = "done", ![r].told = "SIMULATION_FAILED"]
    /\ UNCHANGED <<envelope, pool, networkVars, unanswered>>

Return(r) == call' = [call EXCEPT ![r].step = "done", ![r].told = "hash"]

\* Mutant: the last attempt is retried as well.
Throw_LastToo(r, code, transient) ==
    \/ /\ transient
       /\ call' = [call EXCEPT ![r].step = "sleep"]
    \/ /\ ~ transient
       /\ call' = [call EXCEPT ![r].step = "done", ![r].told = code]

\* submit throws inside withExponentialBackoff: another attempt, or the error.
Throw(r, code, transient) ==
    \/ /\ transient /\ call[r].attempt < Retries
       /\ call' = [call EXCEPT ![r].step = "sleep", ![r].attempt = @ + 1]
    \/ /\ ~ transient \/ call[r].attempt = Retries
       /\ call' = [call EXCEPT ![r].step = "done", ![r].told = code]

\* What parseDiagnostics may see in an ERROR, and whether isTransientError then retries: a
\* stale sequence number, if its text names it, is always retried; any other text is when
\* it happens to hold one of the transient patterns.
Diagnosed(r) ==
    [code : {"TX_FAILED"}, transient : BOOLEAN]
    \cup {d \in [code : {"AUTH_EXPIRED"}, transient : {TRUE}] : envelope[r].sequence # sequence + 1}

\* Mutant: only a transaction that the network knows already counts as sent.
Classified_Known(r, status) ==
    \/ status = "DUPLICATE" /\ Return(r)
    \/ status # "DUPLICATE" /\ \E d \in Diagnosed(r) : Throw(r, d.code, d.transient)

\* classifySendResult: every status but ERROR is a success.
Classified(r, status) ==
    \/ status # "ERROR" /\ Return(r)
    \/ status = "ERROR" /\ \E d \in Diagnosed(r) : Throw(r, d.code, d.transient)

\* sendTransaction reaches the network, and the answer the caller; or either is lost,
\* and submit makes an AuthExpiredError of whatever the transport throws.
Submit(r) ==
    /\ call[r].step = "send"
    /\ \E status \in Statuses(envelope[r]) :
        /\ pool' = IF status = "PENDING" THEN pool \cup {envelope[r]} ELSE pool
        /\ \/ Classified(r, status) /\ UNCHANGED unanswered
           \/ /\ \E transient \in BOOLEAN : Throw(r, "AUTH_EXPIRED", transient)
              /\ unanswered' = unanswered \cup {r}
    /\ UNCHANGED <<envelope, networkVars>>

\* Mutant: the operation that is retried begins with the account again.
Wake_Rebuilt(r) ==
    /\ call[r].step = "sleep"
    /\ call' = [call EXCEPT ![r].step = "send"]
    /\ envelope' = [envelope EXCEPT ![r] = Built(r, sequence)]
    /\ UNCHANGED <<pool, networkVars, unanswered>>

\* The delay is over: the same envelope is sent again.
Wake(r) ==
    /\ call[r].step = "sleep"
    /\ call' = [call EXCEPT ![r].step = "send"]
    /\ UNCHANGED <<envelope, pool, networkVars, unanswered>>

SubmissionInit ==
    /\ call = [r \in Requests |-> [step |-> "idle", attempt |-> 0, told |-> "none"]]
    /\ envelope = [r \in Requests |-> NoEnvelope(r)]
    /\ sequence = 0 /\ pool = {} /\ now = 0
    /\ included = [r \in Requests |-> 0]
    /\ unanswered = {}

GoesOn(r) == Simulate(r) \/ Submit(r) \/ Wake(r)

SubmissionNext ==
    \/ \E r \in Requests : Assemble(r) \/ GoesOn(r)
    \/ Include \/ Drop \/ UseElsewhere \/ Tick

SubmissionSpec == SubmissionInit /\ [][SubmissionNext]_submissionVars

----------------------------------------------------------------------------
(* Properties.                                                              *)

\* The state of the requests and of the network has its type.
SubmissionTypeOK ==
    /\ call \in [Requests -> [step : Steps, attempt : 0 .. Retries, told : Outcomes]]
    /\ \A r \in Requests : (call[r].step = "done") = (call[r].told # "none")
    /\ envelope \in [Requests -> [request : Requests, sequence : Nat, expires : Nat]]
    /\ sequence \in Nat /\ now \in Nat
    /\ pool \subseteq [request : Requests, sequence : Nat, expires : Nat]
    /\ included \in [Requests -> Nat]
    /\ unanswered \subseteq Requests

\* However often submit is retried after answers that were lost or not understood, no
\* request is on the ledger twice: each attempt sends the same sequence number.
NoDoubleInclusion == \A r \in Requests : included[r] <= 1

\* A request that was told TX_FAILED and whose calls were all answered is not on the
\* ledger, and not on its way there.  (After a lost answer it may be.)
FailureIsFinal ==
    \A r \in Requests :
        call[r].told = "TX_FAILED" /\ r \notin unanswered =>
            included[r] = 0 /\ envelope[r] \notin pool

\* A request that is assembled ends, whatever the RPC answers.
RequestsEnd == \A r \in Requests : call[r].step = "simulate" ~> call[r].step = "done"
=============================================================================
