-------------------------- MODULE SdkAndAppsProofs --------------------------
(***************************************************************************)
(* Theorems about the parts of the SDK, the server and the web client that  *)
(* share no state: for any requests, keys, rows, milestones and accounts,   *)
(* each as a theorem of its own part, and their types for all of them.      *)
(***************************************************************************)
EXTENDS MCSdkAndApps, TLAPS, FiniteSetTheorems, SequenceTheorems, WellFoundedInduction

-----------------------------------------------------------------------------
(* Submission: the requests of one account, any number of retries.          *)

Call == [step : Steps, attempt : 0 .. Retries, told : Outcomes]

\* The pool holds transactions of requests that have been sent, each as it was built:
\* a request that is retried does not build another.
PoolIsSent ==
    \A e \in pool :
        /\ e = envelope[e.request]
        /\ call[e.request].step \notin {"idle", "simulate"}

\* What is on the ledger has used up its sequence number, and was sent.
LedgerIsSent ==
    \A r \in Requests :
        /\ included[r] <= 1
        /\ included[r] = 1 =>
              /\ envelope[r].sequence <= sequence
              /\ call[r].step \notin {"idle", "simulate"}

\* As long as all its calls were answered, a request that was not told a hash has
\* never been taken by the network.
NotTaken ==
    \A r \in Requests :
        r \notin unanswered /\ call[r].told # "hash" =>
            included[r] = 0 /\ envelope[r] \notin pool

EnvelopesAreOwn == \A r \in Requests : envelope[r].request = r

SubmissionInv ==
    /\ SubmissionTypeOK /\ EnvelopesAreOwn
    /\ PoolIsSent /\ LedgerIsSent /\ NotTaken

-----------------------------------------------------------------------------
(* The steps of a request.                                                  *)

\* A request that goes on changes its own call and nothing else of the calls; it is
\* neither idle nor before its simulation unless it was there already.
OwnCall(r, c) ==
    /\ c \in Call
    /\ (c.step = "done") = (c.told # "none")
    /\ c.step \notin {"idle", "simulate"}
    /\ call' = [call EXCEPT ![r] = c]

LEMMA CallFacts ==
    ASSUME SubmissionTypeOK, NEW r \in Requests
    PROVE  /\ call[r] \in Call
           /\ call[r].step \in Steps /\ call[r].attempt \in 0 .. Retries
           /\ call[r].told \in Outcomes
           /\ call[r].step # "done" => call[r].told = "none"
BY DEF SubmissionTypeOK, Call

LEMMA CallChange ==
    ASSUME SubmissionTypeOK, NEW r \in Requests,
           NEW at \in Steps \ {"idle", "simulate"}, NEW told \in Outcomes,
           (at = "done") = (told # "none"),
           call' = [call EXCEPT ![r].step = at, ![r].told = told]
    PROVE  \E c \in Call : OwnCall(r, c) /\ c.told = told
<1> DEFINE c == [call[r] EXCEPT !.step = at, !.told = told]
<1>1. call[r] \in Call BY CallFacts
<1>2. c \in Call /\ c.step = at /\ c.told = told
  BY <1>1 DEF Call
<1>3. call' = [call EXCEPT ![r] = c]
  BY DEF SubmissionTypeOK
<1> HIDE DEF c
<1> QED BY <1>2, <1>3 DEF OwnCall

LEMMA ReturnStep ==
    ASSUME SubmissionTypeOK, NEW r \in Requests, Return(r)
    PROVE  \E c \in Call : OwnCall(r, c) /\ c.told = "hash"
BY CallChange, Zenon DEF Return, Outcomes, Steps

LEMMA ThrowStep ==
    ASSUME SubmissionTypeOK, SubmissionAssumption, NEW r \in Requests,
           NEW code \in Outcomes \ {"none", "hash"}, NEW transient, Throw(r, code, transient),
           call[r].step = "send"
    PROVE  \E c \in Call : OwnCall(r, c) /\ c.told # "hash"
<1>1. CASE /\ call[r].attempt < Retries
           /\ call' = [call EXCEPT ![r].step = "sleep", ![r].attempt = @ + 1]
  <2> DEFINE c == [step |-> "sleep", attempt |-> call[r].attempt + 1, told |-> "none"]
  <2>1. c \in Call
    BY <1>1, CallFacts DEF Call, Steps, Outcomes, SubmissionAssumption
  <2>2. call' = [call EXCEPT ![r] = c]
    BY <1>1, CallFacts DEF SubmissionTypeOK, Call
  <2> QED BY <2>1, <2>2 DEF OwnCall
<1>2. CASE call' = [call EXCEPT ![r].step = "done", ![r].told = code]
  BY <1>2, CallChange DEF Steps
<1> QED BY <1>1, <1>2 DEF Throw

\* What a call of submit leaves behind: a transaction that is newly in the pool is next
\* in the account's order, and its request is told a hash or not answered.
LEMMA SubmitStep ==
    ASSUME SubmissionInv, SubmissionAssumption, NEW r \in Requests, Submit(r)
    PROVE  /\ pool' \in {pool, pool \cup {envelope[r]}}
           /\ \E c \in Call :
                 /\ OwnCall(r, c)
                 /\ \/ unanswered' = unanswered \cup {r}
                    \/ unanswered' = unanswered /\ (c.told = "hash" \/ pool' = pool)
<1> PICK status \in Statuses(envelope[r]) :
        /\ pool' = IF status = "PENDING" THEN pool \cup {envelope[r]} ELSE pool
        /\ \/ Classified(r, status) /\ UNCHANGED unanswered
           \/ /\ \E transient \in BOOLEAN : Throw(r, "AUTH_EXPIRED", transient)
              /\ unanswered' = unanswered \cup {r}
  BY DEF Submit
<1>1. SubmissionTypeOK /\ call[r].step = "send"
  BY DEF SubmissionInv, Submit
<1>2. CASE Return(r) /\ UNCHANGED unanswered
  BY <1>1, <1>2, ReturnStep
<1>3. CASE /\ status = "ERROR" /\ UNCHANGED unanswered
           /\ \E d \in Diagnosed(r) : Throw(r, d.code, d.transient)
  <2>1. pool' = pool BY <1>3
  <2>2. PICK d \in Diagnosed(r) : Throw(r, d.code, d.transient)
    BY <1>3
  <2>3. d.code \in {"TX_FAILED", "AUTH_EXPIRED"}
    BY <2>2 DEF Diagnosed
  <2>4. \E c \in Call : OwnCall(r, c)
    BY <1>1, <2>2, <2>3, ThrowStep DEF Outcomes
  <2> QED BY <1>3, <2>1, <2>4
<1>4. CASE /\ \E transient \in BOOLEAN : Throw(r, "AUTH_EXPIRED", transient)
           /\ unanswered' = unanswered \cup {r}
  <2>1. PICK transient \in BOOLEAN : Throw(r, "AUTH_EXPIRED", transient)
    BY <1>4
  <2> QED BY <1>1, <1>4, <2>1, ThrowStep DEF Outcomes
<1> QED BY <1>2, <1>3, <1>4 DEF Classified

-----------------------------------------------------------------------------
(* Every action keeps the invariant.                                        *)

LEMMA SubmissionInitInv == SubmissionInit => SubmissionInv
BY SubmissionAssumption
DEF SubmissionInit, SubmissionInv, SubmissionTypeOK, EnvelopesAreOwn, PoolIsSent, LedgerIsSent,
    NotTaken, NoEnvelope, Steps, Outcomes, SubmissionAssumption

LEMMA AssembleInv ==
    ASSUME SubmissionInv, SubmissionAssumption, NEW r \in Requests, Assemble(r)
    PROVE  SubmissionInv'
<1> USE DEF SubmissionInv
<1> DEFINE e == Built(r, sequence)
           c == [step |-> "simulate", attempt |-> call[r].attempt, told |-> call[r].told]
<1>1. c \in Call BY CallFacts DEF Call, Steps
<1>2. /\ call' = [call EXCEPT ![r] = c]
      /\ envelope' = [envelope EXCEPT ![r] = e]
  <2>1. c = [call[r] EXCEPT !.step = "simulate"]
    BY CallFacts DEF Call
  <2> QED BY <2>1 DEF Assemble, SubmissionTypeOK
<1>3. e \in [request : Requests, sequence : Nat, expires : Nat] /\ e.request = r
  BY SubmissionAssumption DEF Built, SubmissionTypeOK, SubmissionAssumption
<1>4. \A x \in pool : x.request # r
  BY DEF Assemble, PoolIsSent
<1>5. included[r] = 0 /\ call[r].step = "idle" /\ call[r].told = "none"
  <2>1. call[r].step = "idle" BY DEF Assemble
  <2>2. included[r] \in Nat BY DEF SubmissionTypeOK
  <2>3. included[r] = 0 BY <2>1, <2>2 DEF LedgerIsSent
  <2> QED BY <2>1, <2>3, CallFacts
<1>6. UNCHANGED <<pool, sequence, now, included, unanswered>>
  BY DEF Assemble, networkVars
<1>7. SubmissionTypeOK'
  BY <1>1, <1>2, <1>3, <1>5, <1>6 DEF SubmissionTypeOK, Call
<1>8. EnvelopesAreOwn'
  BY <1>2, <1>3 DEF EnvelopesAreOwn, SubmissionTypeOK
<1>9. PoolIsSent'
  BY <1>2, <1>4, <1>6 DEF PoolIsSent, SubmissionTypeOK
<1>10. LedgerIsSent'
  BY <1>2, <1>5, <1>6 DEF LedgerIsSent, SubmissionTypeOK
<1>11. NotTaken'
  BY <1>2, <1>3, <1>4, <1>5, <1>6 DEF NotTaken, SubmissionTypeOK
<1> QED BY <1>7, <1>8, <1>9, <1>10, <1>11

\* A request that goes on without touching the network.
LEMMA QuietInv ==
    ASSUME SubmissionInv, NEW r \in Requests, NEW c \in Call, OwnCall(r, c), call[r].told # "hash",
           UNCHANGED <<envelope, pool, sequence, now, included, unanswered>>
    PROVE  SubmissionInv'
<1> USE DEF SubmissionInv, OwnCall
<1>1. SubmissionTypeOK' BY DEF SubmissionTypeOK, Call
<1>2. EnvelopesAreOwn' BY DEF EnvelopesAreOwn
<1>3. PoolIsSent' BY DEF PoolIsSent, SubmissionTypeOK
<1>4. LedgerIsSent' BY DEF LedgerIsSent, SubmissionTypeOK
<1>5. NotTaken' BY DEF NotTaken, SubmissionTypeOK
<1> QED BY <1>1, <1>2, <1>3, <1>4, <1>5

LEMMA SimulateInv ==
    ASSUME SubmissionInv, SubmissionAssumption, NEW r \in Requests, Simulate(r)
    PROVE  SubmissionInv'
<1> DEFINE sent == [step |-> "send", attempt |-> call[r].attempt, told |-> "none"]
           failed == [step |-> "done", attempt |-> call[r].attempt, told |-> "SIMULATION_FAILED"]
<1>1. SubmissionTypeOK /\ call[r].step = "simulate" BY DEF SubmissionInv, Simulate
<1>2. call[r].told = "none" /\ call[r] \in Call BY <1>1, CallFacts
<1>3. sent \in Call /\ failed \in Call
  BY <1>1, CallFacts DEF Call, Steps, Outcomes
<1>4. call' = [call EXCEPT ![r] = sent] \/ call' = [call EXCEPT ![r] = failed]
  BY <1>1, <1>2 DEF Simulate, SubmissionTypeOK, Call
<1>5. OwnCall(r, sent) \/ OwnCall(r, failed)
  BY <1>3, <1>4 DEF OwnCall
<1> QED BY <1>2, <1>3, <1>5, QuietInv DEF Simulate, networkVars

LEMMA WakeInv ==
    ASSUME SubmissionInv, SubmissionAssumption, NEW r \in Requests, Wake(r)
    PROVE  SubmissionInv'
<1> DEFINE sent == [step |-> "send", attempt |-> call[r].attempt, told |-> "none"]
<1>1. SubmissionTypeOK /\ call[r].step = "sleep" BY DEF SubmissionInv, Wake
<1>2. call[r].told = "none" /\ call[r] \in Call BY <1>1, CallFacts
<1>3. sent \in Call BY <1>1, CallFacts DEF Call, Steps, Outcomes
<1>4. call' = [call EXCEPT ![r] = sent]
  <2>1. sent = [call[r] EXCEPT !.step = "send"]
    BY <1>2 DEF Call
  <2> QED BY <2>1 DEF Wake, SubmissionTypeOK
<1>5. OwnCall(r, sent) BY <1>3, <1>4 DEF OwnCall
<1> QED BY <1>2, <1>3, <1>5, QuietInv DEF Wake, networkVars

LEMMA SubmitInv ==
    ASSUME SubmissionInv, SubmissionAssumption, NEW r \in Requests, Submit(r)
    PROVE  SubmissionInv'
<1> USE DEF SubmissionInv
<1>1. pool' \in {pool, pool \cup {envelope[r]}}
  BY SubmitStep
<1>2. PICK c \in Call :
        /\ OwnCall(r, c)
        /\ \/ unanswered' = unanswered \cup {r}
           \/ unanswered' = unanswered /\ (c.told = "hash" \/ pool' = pool)
  BY SubmitStep
<1>3. UNCHANGED <<envelope, sequence, now, included>>
  BY DEF Submit, networkVars
<1>4. call[r].step = "send" /\ call[r].told = "none"
  BY CallFacts DEF Submit
<1>5. envelope[r] \in [request : Requests, sequence : Nat, expires : Nat]
  BY DEF SubmissionTypeOK
<1>6. SubmissionTypeOK'
  BY <1>1, <1>2, <1>3, <1>5 DEF SubmissionTypeOK, OwnCall, Call
<1>7. EnvelopesAreOwn' BY <1>3 DEF EnvelopesAreOwn
<1>8. PoolIsSent'
  <2> SUFFICES ASSUME NEW e \in pool'
               PROVE  e = envelope[e.request] /\ call'[e.request].step \notin {"idle", "simulate"}
    BY <1>3 DEF PoolIsSent
  <2>1. CASE e \in pool
    BY <1>2, <2>1 DEF PoolIsSent, OwnCall, SubmissionTypeOK
  <2>2. CASE e = envelope[r]
    BY <1>2, <2>2 DEF EnvelopesAreOwn, OwnCall, SubmissionTypeOK
  <2> QED BY <1>1, <2>1, <2>2
<1>9. LedgerIsSent'
  <2> SUFFICES ASSUME NEW q \in Requests
               PROVE  /\ included[q] <= 1
                      /\ included[q] = 1 => /\ envelope[q].sequence <= sequence
                                            /\ call'[q].step \notin {"idle", "simulate"}
    BY <1>3 DEF LedgerIsSent
  <2>1. call'[q].step \in {"idle", "simulate"} => call'[q] = call[q]
    BY <1>2 DEF OwnCall, SubmissionTypeOK
  <2> QED BY <2>1 DEF LedgerIsSent
<1>10. NotTaken'
  <2> SUFFICES ASSUME NEW q \in Requests, q \notin unanswered', call'[q].told # "hash"
               PROVE  included[q] = 0 /\ envelope[q] \notin pool'
    BY <1>3 DEF NotTaken
  <2>1. CASE q = r
    <3>1. q \notin unanswered /\ pool' = pool
      BY <1>2, <2>1 DEF OwnCall, SubmissionTypeOK
    <3> QED BY <1>4, <2>1, <3>1 DEF NotTaken
  <2>2. CASE q # r
    <3>1. q \notin unanswered /\ call[q].told # "hash"
      BY <1>2, <2>2 DEF OwnCall, SubmissionTypeOK
    <3>2. envelope[q] # envelope[r]
      BY <2>2 DEF EnvelopesAreOwn
    <3> QED BY <1>1, <3>1, <3>2 DEF NotTaken
  <2> QED BY <2>1, <2>2
<1> QED BY <1>6, <1>7, <1>8, <1>9, <1>10

\* A transaction of the sequence number that comes next has not been included before.
LEMMA IncludeInv ==
    ASSUME SubmissionInv, Include
    PROVE  SubmissionInv'
<1> USE DEF SubmissionInv
<1> PICK e \in pool :
        /\ e.sequence = sequence + 1 /\ now <= e.expires
        /\ pool' = pool \ {e}
        /\ sequence' = e.sequence
        /\ included' = [included EXCEPT ![e.request] = @ + 1]
  BY DEF Include
<1>1. UNCHANGED <<call, envelope, now, unanswered>> BY DEF Include
<1>2. e \in [request : Requests, sequence : Nat, expires : Nat] /\ e.request \in Requests
  BY DEF SubmissionTypeOK
<1>3. e = envelope[e.request] /\ call[e.request].step \notin {"idle", "simulate"}
  BY DEF PoolIsSent
<1>4. included[e.request] = 0
  <2>1. included[e.request] \in Nat /\ included[e.request] <= 1 /\ sequence \in Nat
    BY <1>2 DEF LedgerIsSent, SubmissionTypeOK
  <2>2. envelope[e.request].sequence = sequence + 1
    BY <1>3
  <2>3. included[e.request] = 1 => envelope[e.request].sequence <= sequence
    BY <1>2 DEF LedgerIsSent
  <2> QED BY <2>1, <2>2, <2>3
<1>5. SubmissionTypeOK' BY <1>1, <1>2 DEF SubmissionTypeOK
<1>6. EnvelopesAreOwn' BY <1>1 DEF EnvelopesAreOwn
<1>7. PoolIsSent' BY <1>1 DEF PoolIsSent
<1>8. LedgerIsSent'
  <2> SUFFICES ASSUME NEW r \in Requests
               PROVE  /\ included'[r] <= 1
                      /\ included'[r] = 1 => /\ envelope[r].sequence <= sequence'
                                             /\ call[r].step \notin {"idle", "simulate"}
    BY <1>1 DEF LedgerIsSent
  <2>1. CASE r = e.request
    BY <1>2, <1>3, <1>4, <2>1 DEF SubmissionTypeOK
  <2>2. CASE r # e.request
    BY <1>2, <2>2 DEF LedgerIsSent, SubmissionTypeOK
  <2> QED BY <2>1, <2>2
<1>9. NotTaken' BY <1>1, <1>2, <1>3 DEF NotTaken, SubmissionTypeOK
<1> QED BY <1>5, <1>6, <1>7, <1>8, <1>9

LEMMA NetworkInv ==
    ASSUME SubmissionInv, Drop \/ UseElsewhere \/ Tick
    PROVE  SubmissionInv'
<1> USE DEF SubmissionInv
<1>1. /\ pool' \subseteq pool /\ UNCHANGED <<call, envelope, included, unanswered>>
      /\ sequence' \in Nat /\ sequence' >= sequence /\ now' \in Nat
  BY DEF Drop, UseElsewhere, Tick, networkVars, SubmissionTypeOK
<1>2. SubmissionTypeOK' BY <1>1 DEF SubmissionTypeOK
<1>3. EnvelopesAreOwn' BY <1>1 DEF EnvelopesAreOwn
<1>4. PoolIsSent' BY <1>1 DEF PoolIsSent
<1>5. LedgerIsSent' BY <1>1 DEF LedgerIsSent, SubmissionTypeOK
<1>6. NotTaken' BY <1>1 DEF NotTaken
<1> QED BY <1>2, <1>3, <1>4, <1>5, <1>6

LEMMA SubmissionNextInv == SubmissionInv /\ [SubmissionNext]_submissionVars => SubmissionInv'
<1> SUFFICES ASSUME SubmissionInv, [SubmissionNext]_submissionVars PROVE SubmissionInv'
  OBVIOUS
<1>1. ASSUME NEW r \in Requests, Assemble(r) PROVE SubmissionInv'
  BY <1>1, AssembleInv, SubmissionAssumption
<1>2. ASSUME NEW r \in Requests, Simulate(r) PROVE SubmissionInv'
  BY <1>2, SimulateInv, SubmissionAssumption
<1>3. ASSUME NEW r \in Requests, Submit(r) PROVE SubmissionInv'
  BY <1>3, SubmitInv, SubmissionAssumption
<1>4. ASSUME NEW r \in Requests, Wake(r) PROVE SubmissionInv'
  BY <1>4, WakeInv, SubmissionAssumption
<1>5. CASE Include BY <1>5, IncludeInv
<1>6. CASE Drop \/ UseElsewhere \/ Tick BY <1>6, NetworkInv
<1>7. CASE UNCHANGED submissionVars
  BY <1>7 DEF SubmissionInv, submissionVars, SubmissionTypeOK, EnvelopesAreOwn, PoolIsSent,
              LedgerIsSent, NotTaken
<1> QED BY <1>1, <1>2, <1>3, <1>4, <1>5, <1>6, <1>7 DEF SubmissionNext, GoesOn

LEMMA SubmissionInvariance == SubmissionSpec => []SubmissionInv
BY SubmissionInitInv, SubmissionNextInv, PTL DEF SubmissionSpec

-----------------------------------------------------------------------------

\* The requests, the pool and the account have their types in every reachable state.
THEOREM SubmissionTypes == SubmissionSpec => []SubmissionTypeOK
<1>1. SubmissionInv => SubmissionTypeOK BY DEF SubmissionInv
<1> QED BY <1>1, SubmissionInvariance, PTL

\* However often submit is retried, and whichever answers are lost, no request is on the
\* ledger twice: retry.ts repeats the call of submit, with the envelope that was signed.
THEOREM NeverIncludedTwice == SubmissionSpec => []NoDoubleInclusion
<1>1. SubmissionInv => NoDoubleInclusion BY DEF SubmissionInv, LedgerIsSent, NoDoubleInclusion
<1> QED BY <1>1, SubmissionInvariance, PTL

\* classifySendResult reports TX_FAILED only for a transaction that is not, and will not
\* be, on the ledger, provided that no answer was lost on the way.
THEOREM FailuresAreFinal == SubmissionSpec => []FailureIsFinal
<1>1. SubmissionInv => FailureIsFinal BY DEF SubmissionInv, NotTaken, FailureIsFinal
<1> QED BY <1>1, SubmissionInvariance, PTL

-----------------------------------------------------------------------------
(* CreateEscrowForm: any accounts, any number of mounts and of validations.  *)

\* Three different accounts.
Distinct(parties) ==
    /\ parties \in [funder : Accounts, recipient : Accounts, arbitrator : Accounts]
    /\ parties.funder # parties.recipient /\ parties.funder # parties.arbitrator
    /\ parties.recipient # parties.arbitrator

\* What a submission has captured was checked when it was clicked; what is assembled is
\* what it has captured.
FormInv ==
    /\ FormTypeOK
    /\ submissions \subseteq [mount : 0 .. MaxMounts,
                              parties : [funder : Accounts, recipient : Accounts,
                                         arbitrator : Accounts]]
    /\ \A s \in submissions : Distinct(s.parties)
    /\ Distinct(assembled) \/ assembled.funder = NoAccount

LEMMA ThreeAccounts ==
    ASSUME NEW a, NEW b, NEW c, a # b, a # c, b # c
    PROVE  Cardinality({a, b, c}) = 3
<1>1. IsFiniteSet({a}) /\ Cardinality({a}) = 1
  BY FS_Singleton
<1>2. IsFiniteSet({a, b}) /\ Cardinality({a, b}) = 2
  <2>1. {a, b} = {a} \cup {b} /\ b \notin {a}
    OBVIOUS
  <2>2. IsFiniteSet({a} \cup {b}) /\ Cardinality({a} \cup {b}) = Cardinality({a}) + 1
    BY <1>1, <2>1, FS_AddElement
  <2> QED BY <1>1, <2>1, <2>2
<1>3. {a, b, c} = {a, b} \cup {c} /\ c \notin {a, b}
  OBVIOUS
<1>4. Cardinality({a, b} \cup {c}) = Cardinality({a, b}) + 1
  BY <1>2, <1>3, FS_AddElement
<1> QED BY <1>2, <1>3, <1>4

LEMMA FormInitInv == FormInit => FormInv
<1> SUFFICES ASSUME FormInit PROVE FormInv
  OBVIOUS
<1>1. FormTypeOK
  <2>1. open \in BOOLEAN /\ mount = 0 /\ step = 0 /\ moves = 0
    BY Zenon DEF FormInit
  <2>2. values \in [recipient : Accounts \cup {NotAnAccount},
                   arbitrator : Accounts \cup {NotAnAccount}, milestonesValid : BOOLEAN]
    BY DEF FormInit, EmptyForm
  <2>3. publicKey = NoAccount /\ submissions = {}
    BY DEF FormInit
  <2>4. 0 \in Nat /\ 0 \in 0 .. MaxMounts /\ 0 \in 0 .. MaxMoves
    BY FormAssumption
  <2> QED BY <2>1, <2>2, <2>3, <2>4, Zenon DEF FormTypeOK
<1>2. assembled.funder = NoAccount /\ submissions = {}
  BY DEF FormInit, Parties
<1> QED BY <1>1, <1>2 DEF FormInv

\* What is validated as a whole names three accounts, whatever sections were passed.
LEMMA SubmittedIsDistinct ==
    ASSUME FormTypeOK, Submittable
    PROVE  Distinct(Parties(publicKey, values))
<1>1. SectionValid(0)
  BY DEF Submittable, Review
<1>2. /\ values.recipient \in Accounts /\ values.arbitrator \in Accounts
      /\ values.recipient # values.arbitrator
  BY <1>1 DEF SectionValid, FormTypeOK
<1>3. /\ publicKey \in Accounts
      /\ publicKey # values.recipient /\ publicKey # values.arbitrator
  BY DEF Submittable, FormTypeOK
<1> QED BY <1>2, <1>3 DEF Distinct, Parties

LEMMA FormStepInv == FormInv /\ [FormNext]_formVars => FormInv'
<1> SUFFICES ASSUME FormInv, [FormNext]_formVars PROVE FormInv'
  OBVIOUS
<1> USE FormAssumption
<1>1. ASSUME UNCHANGED <<submissions, assembled>>, FormTypeOK' PROVE FormInv'
  BY <1>1 DEF FormInv, Distinct
<1>2. CASE OpenModal
  BY <1>1, <1>2 DEF OpenModal, FormInv, FormTypeOK, EmptyForm
<1>3. CASE CloseModal
  BY <1>1, <1>3 DEF CloseModal, FormInv, FormTypeOK
<1>4. CASE EditParties
  BY <1>1, <1>4 DEF EditParties, FormInv, FormTypeOK
<1>5. CASE EditMilestones
  BY <1>1, <1>5 DEF EditMilestones, FormInv, FormTypeOK
<1>6. CASE NextSection \/ Validated \/ Back
  BY <1>1, <1>6 DEF NextSection, Validated, Back, FormInv, FormTypeOK
<1>7. CASE CreateAndDeposit
  <2> DEFINE t == [mount |-> mount, parties |-> Parties(publicKey, values)]
  <2>1. /\ Submittable /\ submissions' = submissions \cup {t}
        /\ \A s \in submissions : s.mount # mount
        /\ UNCHANGED <<open, mount, step, values, moves, publicKey, assembled>>
    BY <1>7 DEF CreateAndDeposit
  <2>2. Distinct(t.parties) /\ t.mount = mount
    BY <2>1, SubmittedIsDistinct DEF FormInv
  <2>3. t \in [mount : 0 .. MaxMounts,
               parties : [funder : Accounts, recipient : Accounts, arbitrator : Accounts]]
    BY <2>2 DEF FormInv, FormTypeOK, Distinct
  <2> HIDE DEF t
  <2>4. FormTypeOK'
    BY <2>1, <2>2 DEF FormInv, FormTypeOK
  <2> QED BY <2>1, <2>2, <2>3, <2>4 DEF FormInv, Distinct
<1>8. CASE Answered
  <2>1. PICK s \in submissions :
            /\ submissions' = submissions \ {s}
            /\ \/ assembled' = [s.parties EXCEPT !.funder = Funder(s)] /\ open' = FALSE
               \/ UNCHANGED <<assembled, open>>
    BY <1>8 DEF Answered
  <2>2. UNCHANGED <<mount, step, values, moves, publicKey>>
    BY <1>8 DEF Answered
  <2>3. Distinct(s.parties)
    BY DEF FormInv
  <2>4. [s.parties EXCEPT !.funder = Funder(s)] = s.parties
    BY <2>3 DEF Distinct, Funder
  <2>5. FormTypeOK'
    BY <2>1, <2>2 DEF FormInv, FormTypeOK
  <2>6. Distinct(assembled') \/ assembled'.funder = NoAccount
    BY <2>1, <2>3, <2>4 DEF FormInv
  <2> QED BY <2>1, <2>5, <2>6 DEF FormInv, Distinct
<1>9. CASE WalletMoves
  BY <1>1, <1>9 DEF WalletMoves, FormInv, FormTypeOK
<1>10. CASE UNCHANGED formVars
  BY <1>1, <1>10 DEF formVars, FormInv, FormTypeOK
<1> QED BY <1>2, <1>3, <1>4, <1>5, <1>6, <1>7, <1>8, <1>9, <1>10 DEF FormNext

LEMMA FormInvariance == FormSpec => []FormInv
BY FormInitInv, FormStepInv, PTL DEF FormSpec

\* Whatever is edited, passed unvalidated, closed and opened again while a submission is
\* under way, and whichever account the wallet is switched to, the initialize that is
\* assembled names three different accounts (CreateEscrowForm.tsx onSubmit).
THEOREM AssembledNamesThree == FormSpec => []AssembledIsDistinct
<1>1. FormInv => AssembledIsDistinct
  BY ThreeAccounts DEF FormInv, AssembledIsDistinct, Distinct
<1> QED BY <1>1, FormInvariance, PTL

-----------------------------------------------------------------------------
(* DisputeBuilder: any actors, hashes and splits. *)

\* A settlement stays whole because a call that is refused has set nothing: the split
\* and the signers are those that the action selected last was asked for with.
DisputeInv == DisputeBuilderTypeOK /\ SettlementIsWhole

LEMMA DisputeInitInv == DisputeInit => DisputeInv
<1> SUFFICES ASSUME DisputeInit PROVE DisputeInv
  OBVIOUS
<1>1. DisputeBuilderTypeOK
  BY DEF DisputeInit, DisputeBuilderTypeOK
<1>2. action \notin {"resolve", "quorum"}
  BY DisputeBuilderAssumption DEF DisputeInit
<1> QED BY <1>1, <1>2 DEF DisputeInv, SettlementIsWhole

LEMMA DisputeStepInv == DisputeInv /\ [DisputeNext]_disputeVars => DisputeInv'
<1> SUFFICES ASSUME DisputeInv, [DisputeNext]_disputeVars PROVE DisputeInv'
  OBVIOUS
<1> USE DEF DisputeInv
<1>1. CASE SelectRaise
  <2>1. DisputeBuilderTypeOK'
    BY <1>1 DEF SelectRaise, DisputeBuilderTypeOK
  <2> QED BY <1>1, <2>1 DEF SelectRaise, SettlementIsWhole
<1>2. ASSUME NEW a \in Actors \cup {Refused}, NEW d \in Digests \cup {Refused},
             AppendEvidence(a, d)
      PROVE  DisputeInv'
  <2>1. DisputeBuilderTypeOK'
    BY <1>2 DEF AppendEvidence, DisputeBuilderTypeOK
  <2> QED BY <1>2, <2>1 DEF AppendEvidence, SettlementIsWhole
<1>3. ASSUME NEW s \in Splits \cup {Refused}, SettleWith(s)
      PROVE  DisputeInv'
  <2>1. DisputeBuilderTypeOK'
    BY <1>3 DEF SettleWith, DisputeBuilderTypeOK
  <2>2. CompiledSettlement' = settlement'
    BY <1>3 DEF SettleWith, CompiledSettlement
  <2> QED BY <2>1, <2>2 DEF SettlementIsWhole
<1>4. ASSUME NEW s \in Splits \cup {Refused}, NEW who \in SignerSets \cup {Refused},
             SettleWithQuorum(s, who)
      PROVE  DisputeInv'
  <2>1. DisputeBuilderTypeOK'
    BY <1>4 DEF SettleWithQuorum, DisputeBuilderTypeOK
  <2>2. CompiledSettlement' = settlement'
    BY <1>4 DEF SettleWithQuorum, CompiledSettlement
  <2> QED BY <2>1, <2>2 DEF SettlementIsWhole
<1>5. CASE UNCHANGED disputeVars
  BY <1>5 DEF disputeVars, DisputeBuilderTypeOK, SettlementIsWhole, CompiledSettlement
<1> QED BY <1>1, <1>2, <1>3, <1>4, <1>5 DEF DisputeNext

LEMMA DisputeInvariance == DisputeBuilderSpec => []DisputeInv
BY DisputeInitInv, DisputeStepInv, PTL DEF DisputeBuilderSpec

\* A settlement that DisputeBuilder compiles is the last one asked for and not refused,
\* however many calls threw in the middle of their assignments (builders/dispute.ts).
THEOREM SettlementsAreWhole == DisputeBuilderSpec => []SettlementIsWhole
<1>1. DisputeInv => SettlementIsWhole
  BY DEF DisputeInv
<1> QED BY <1>1, DisputeInvariance, PTL

-----------------------------------------------------------------------------
(* EscrowBuilder: any addresses and any number of milestones. *)

LEMMA BuilderInitInv == BuilderInit => BuilderTypeOK
<1> SUFFICES ASSUME BuilderInit PROVE BuilderTypeOK
  OBVIOUS
<1>1. drafts = <<>> /\ DOMAIN <<>> = {} /\ Len(<<>>) = 0 /\ <<>> \in Seq(Drafts)
  BY DEF BuilderInit
<1>2. party \in [Fields -> Addresses \cup {Unset}]
  BY DEF BuilderInit
<1> QED BY <1>1, <1>2, BuilderAssumption DEF BuilderTypeOK

LEMMA BuilderStepInv == BuilderTypeOK /\ [BuilderNext]_builderVars => BuilderTypeOK'
<1> SUFFICES ASSUME BuilderTypeOK, [BuilderNext]_builderVars PROVE BuilderTypeOK'
  OBVIOUS
<1>1. ASSUME NEW f \in Fields, NEW a \in Addresses, SetParty(f, a)
      PROVE  BuilderTypeOK'
  BY <1>1 DEF SetParty, BuilderTypeOK
<1>2. ASSUME NEW d \in Drafts, AddMilestone(d)
      PROVE  BuilderTypeOK'
  <2>1. /\ drafts' = Append(drafts, d) /\ d.payout > 0 /\ Len(drafts) < MaxDrafts
        /\ drafts \in Seq(Drafts) /\ party' = party
    BY <1>2 DEF AddMilestone, BuilderTypeOK
  <2>2. /\ drafts' \in Seq(Drafts) /\ Len(drafts') = Len(drafts) + 1
        /\ Len(drafts) \in Nat
    BY <2>1
  <2>3. ASSUME NEW i \in DOMAIN drafts' PROVE drafts'[i].payout > 0
    <3>1. DOMAIN drafts' = 1 .. (Len(drafts) + 1) /\ DOMAIN drafts = 1 .. Len(drafts)
      BY <2>1, <2>2
    <3>2. CASE i = Len(drafts) + 1
      BY <2>1, <3>2
    <3>3. CASE i \in 1 .. Len(drafts)
      BY <2>1, <3>1, <3>3 DEF BuilderTypeOK
    <3> QED BY <2>2, <3>1, <3>2, <3>3
  <2> QED BY <2>1, <2>2, <2>3, BuilderAssumption DEF BuilderTypeOK
<1>3. CASE ClearMilestones
  <2>1. DOMAIN <<>> = {} /\ Len(<<>>) = 0 /\ <<>> \in Seq(Drafts)
    OBVIOUS
  <2> QED BY <1>3, <2>1, BuilderAssumption DEF ClearMilestones, BuilderTypeOK
<1>4. CASE UNCHANGED builderVars
  BY <1>4 DEF builderVars, BuilderTypeOK
<1> QED BY <1>1, <1>2, <1>3, <1>4 DEF BuilderNext

LEMMA BuilderTypes == BuilderSpec => []BuilderTypeOK
BY BuilderInitInv, BuilderStepInv, PTL DEF BuilderSpec

\* Whatever the order of the setters and however many milestones are added and cleared,
\* what EscrowBuilder compiles for a token that is no party is accepted by initialize:
\* validate is not weaker than the contract (builders/escrow.ts compile, lib.rs).
THEOREM CompiledEscrowsAreAccepted == BuilderSpec => []CompiledIsAccepted
<1>1. BuilderTypeOK => CompiledIsAccepted
  <2> SUFFICES ASSUME BuilderTypeOK, Valid,
                      party.token \notin {party.funder, party.recipient, party.arbitrator}
               PROVE  Accepts(party, Compiled)
    BY DEF CompiledIsAccepted
  <2>1. DOMAIN Compiled = DOMAIN drafts /\ drafts # <<>>
    BY DEF Compiled, Valid
  <2>2. ASSUME NEW i \in DOMAIN drafts
        PROVE  /\ Compiled[i].fields = MilestoneFields /\ Compiled[i].id = i
               /\ Compiled[i].payout > 0 /\ Compiled[i].vests # "negative"
    BY DEF Compiled, Valid, BuilderTypeOK
  <2>3. Compiled # <<>>
    <3>1. DOMAIN drafts # {}
      BY <2>1 DEF BuilderTypeOK
    <3>2. DOMAIN <<>> = {}
      OBVIOUS
    <3> QED BY <2>1, <3>1, <3>2
  <2>4. Cardinality({party.funder, party.recipient, party.arbitrator}) = 3
    BY DEF Valid
  <2> HIDE DEF Compiled
  <2> QED BY <2>1, <2>2, <2>3, <2>4 DEF Accepts
<1> QED BY <1>1, BuilderTypes, PTL

-----------------------------------------------------------------------------
(* Dashboard: any milestones, statuses and number of clicks. *)

\* An element is taken out and those behind it move up.
LEMMA RemoveAtFacts ==
    ASSUME NEW S, NEW s \in Seq(S), NEW i \in 1 .. Len(s)
    PROVE  /\ RemoveAt(s, i) \in Seq(S)
           /\ Len(RemoveAt(s, i)) = Len(s) - 1
           /\ \A k \in 1 .. (Len(s) - 1) :
                 RemoveAt(s, i)[k] = IF k < i THEN s[k] ELSE s[k + 1]
<1> DEFINE left == SubSeq(s, 1, i - 1)
           right == SubSeq(s, i + 1, Len(s))
<1>1. Len(s) \in Nat /\ i \in Nat /\ \A k \in 1 .. Len(s) : s[k] \in S
  OBVIOUS
<1>2. left \in Seq(S) /\ Len(left) = i - 1 /\ \A k \in 1 .. (i - 1) : left[k] = s[k]
  BY <1>1
<1>3. right \in Seq(S) /\ Len(right) = Len(s) - i
      /\ \A k \in 1 .. (Len(s) - i) : right[k] = s[i + k]
  BY <1>1
<1>4. RemoveAt(s, i) = left \o right
  BY DEF RemoveAt
<1> HIDE DEF left, right
<1>5. /\ left \o right \in Seq(S)
      /\ Len(left \o right) = Len(left) + Len(right)
      /\ \A k \in 1 .. Len(left) + Len(right) :
            (left \o right)[k] = IF k <= Len(left) THEN left[k] ELSE right[k - Len(left)]
  BY <1>2, <1>3, ConcatProperties
<1>6. ASSUME NEW k \in 1 .. (Len(s) - 1)
      PROVE  (left \o right)[k] = IF k < i THEN s[k] ELSE s[k + 1]
  <2>1. k \in 1 .. Len(left) + Len(right)
    BY <1>1, <1>2, <1>3
  <2>2. CASE k < i
    <3>1. k <= Len(left) /\ k \in 1 .. (i - 1)
      BY <1>1, <1>2, <2>2
    <3> QED BY <1>2, <1>5, <2>1, <2>2, <3>1
  <2>3. CASE ~ (k < i)
    <3>1. ~ (k <= Len(left)) /\ k - Len(left) \in 1 .. (Len(s) - i)
          /\ i + (k - Len(left)) = k + 1
      BY <1>1, <1>2, <2>3
    <3>2. right[k - Len(left)] = s[k + 1]
      BY <1>3, <3>1
    <3> QED BY <1>5, <2>1, <2>3, <3>1, <3>2, Zenon
  <2> QED BY <2>2, <2>3
<1>7. Len(left) + Len(right) = Len(s) - 1
  BY <1>1, <1>2, <1>3
<1> QED BY <1>4, <1>5, <1>6, <1>7

Work == [kind : Kinds, id : Milestones]
Works(kind, id) == {k \in DOMAIN works : works[k].kind = kind /\ works[k].id = id}

\* No status becomes Pending again.  So what is shown as Pending, in the page or in the
\* copy of the dialog, has no approval on its way; and since works elapse in the order of
\* their clicks, a proof on its way comes before every approval of its milestone.
DashboardInv ==
    /\ DashboardTypeOK
    /\ inspecting = Closed \/ inspecting.id \in Milestones
    /\ \A id \in Milestones : milestones[id].status = "Pending" =>
          /\ Works("approve", id) = {}
          /\ inspecting.id = id => inspecting.status = "Pending"
    /\ \A id \in Milestones : inspecting.id = id /\ inspecting.status = "Pending" =>
          /\ Works("approve", id) = {}
          /\ milestones[id].status # "Released"
    /\ \A id \in Milestones : \A k \in Works("submitProof", id) :
          /\ milestones[id].status # "Released"
          /\ \A j \in Works("approve", id) : k < j

\* What is true of the page when a work is begun.
LEMMA WorkBegun ==
    ASSUME DashboardInv, NEW kind \in Kinds, NEW id \in Milestones, WithBusy(kind, id)
    PROVE  /\ works' \in Seq(Work) /\ Len(works') <= MaxWorks
           /\ Len(works) \in Nat
           /\ busyId' \in Milestones
           /\ \A d \in Kinds, m \in Milestones :
                 Works(d, m)' = Works(d, m) \cup (IF d = kind /\ m = id THEN {Len(works) + 1} ELSE {})
           /\ \A d \in Kinds, m \in Milestones : \A k \in Works(d, m) : k \in 1 .. Len(works)
<1> DEFINE w == [kind |-> kind, id |-> id]
           n == Len(works)
<1>1. works \in Seq(Work) /\ n \in Nat /\ w \in Work /\ works' = Append(works, w)
      /\ n < MaxWorks /\ MaxWorks \in Nat /\ busyId' = id
  BY DashboardAssumption DEF DashboardInv, DashboardTypeOK, WithBusy, Work
<1>2. w.kind = kind /\ w.id = id
  OBVIOUS
<1> HIDE DEF w, n
<1>3. works' \in Seq(Work) /\ Len(works') = n + 1 /\ works'[n + 1] = w
      /\ (\A k \in 1 .. n : works'[k] = works[k])
  BY <1>1 DEF n
<1>4. DOMAIN works = 1 .. n /\ DOMAIN works' = 1 .. (n + 1)
  BY <1>1, <1>3 DEF n
<1>5. 1 .. (n + 1) = (1 .. n) \cup {n + 1}
  BY <1>1
<1>6. ASSUME NEW d \in Kinds, NEW m \in Milestones
      PROVE  Works(d, m)' = Works(d, m) \cup (IF d = kind /\ m = id THEN {n + 1} ELSE {})
  BY <1>1, <1>2, <1>3, <1>4, <1>5, <1>6 DEF Works
<1> QED BY <1>1, <1>3, <1>4, <1>6 DEF Works, n

\* The work that elapses is the first one.
LEMMA WorkDone ==
    ASSUME DashboardInv, NEW i \in Due, works' = RemoveAt(works, i)
    PROVE  /\ i = 1 /\ works[1] \in Work
           /\ 1 \in Works(works[1].kind, works[1].id)
           /\ works' \in Seq(Work) /\ Len(works') <= MaxWorks
           /\ \A d \in Kinds, m \in Milestones : \A k \in Works(d, m)' : k + 1 \in Works(d, m)
           /\ \A d \in Kinds, m \in Milestones : \A k \in Works(d, m)' : k \in Nat
<1>1. works \in Seq(Work) /\ Len(works) \in Nat /\ Len(works) <= MaxWorks /\ MaxWorks \in Nat
  BY DashboardAssumption DEF DashboardInv, DashboardTypeOK, Work
<1>2. i = 1 /\ i \in DOMAIN works
  BY DEF Due
<1>3. DOMAIN works = 1 .. Len(works) /\ i \in 1 .. Len(works)
  BY <1>1, <1>2
<1>4. /\ works' \in Seq(Work) /\ Len(works') = Len(works) - 1
      /\ \A k \in 1 .. (Len(works) - 1) : works'[k] = works[k + 1]
  <2>1. /\ RemoveAt(works, i) \in Seq(Work)
        /\ Len(RemoveAt(works, i)) = Len(works) - 1
        /\ \A k \in 1 .. (Len(works) - 1) :
                 RemoveAt(works, i)[k] = IF k < i THEN works[k] ELSE works[k + 1]
    BY <1>1, <1>3, RemoveAtFacts
  <2> QED BY <1>2, <2>1
<1>5. DOMAIN works' = 1 .. (Len(works) - 1)
  BY <1>1, <1>3, <1>4
<1>6. ASSUME NEW d \in Kinds, NEW m \in Milestones, NEW k \in Works(d, m)'
      PROVE  k + 1 \in Works(d, m) /\ k \in Nat
  <2>1. k \in 1 .. (Len(works) - 1) /\ works'[k].kind = d /\ works'[k].id = m
    BY <1>5, <1>6 DEF Works
  <2> QED BY <1>1, <1>3, <1>4, <2>1 DEF Works
<1>7. works[1] \in Work /\ 1 \in Works(works[1].kind, works[1].id)
  BY <1>1, <1>2, <1>3 DEF Works
<1> QED BY <1>1, <1>2, <1>4, <1>6, <1>7

LEMMA UpdatedFacts ==
    ASSUME NEW m \in [status : MilestoneStatuses, proof : BOOLEAN], NEW kind \in Kinds
    PROVE  /\ Updated(m, kind) \in [status : MilestoneStatuses, proof : BOOLEAN]
           /\ Updated(m, kind).status # "Pending"
           /\ Updated(m, kind).status = "Released" => kind = "approve" \/ m.status = "Released"
           /\ m.status = "Released" /\ kind # "submitProof" =>
                 Updated(m, kind).status = "Released"
BY DEF Updated, Kinds, MilestoneStatuses

LEMMA DashboardInitInv == DashboardInit => DashboardInv
<1> SUFFICES ASSUME DashboardInit PROVE DashboardInv
  OBVIOUS
<1>1. works = <<>> /\ Len(works) = 0 /\ works \in Seq(Work) /\ DOMAIN works = {}
  BY DEF DashboardInit
<1>2. \A id \in Milestones : Works("approve", id) = {} /\ Works("submitProof", id) = {}
  BY <1>1 DEF Works
<1>3. inspecting = Closed /\ inspecting.id \notin Milestones
  BY DashboardAssumption DEF DashboardInit, Closed
<1>4. milestones \in [Milestones -> [status : MilestoneStatuses, proof : BOOLEAN]]
  <2>1. ASSUME NEW id \in Milestones
        PROVE  Milestone(Demo[id]) \in [status : MilestoneStatuses, proof : BOOLEAN]
    BY DashboardAssumption DEF Milestone
  <2> QED BY <2>1 DEF DashboardInit
<1>5. inspecting \in [id : Milestones \cup {NoMilestone}, status : MilestoneStatuses, proof : BOOLEAN]
  BY <1>3 DEF Closed, MilestoneStatuses
<1>6. busyId = NoMilestone /\ role \in Roles
  BY DEF DashboardInit, Roles
<1>7. DashboardTypeOK
  BY <1>1, <1>4, <1>5, <1>6, DashboardAssumption DEF DashboardTypeOK, Work
<1> QED BY <1>2, <1>3, <1>7 DEF DashboardInv

\* The four parts of the invariant, for one milestone.
LEMMA DashboardParts ==
    ASSUME DashboardInv, NEW id \in Milestones
    PROVE  /\ milestones[id].status = "Pending" =>
                 /\ Works("approve", id) = {}
                 /\ inspecting.id = id => inspecting.status = "Pending"
           /\ inspecting.id = id /\ inspecting.status = "Pending" =>
                 /\ Works("approve", id) = {}
                 /\ milestones[id].status # "Released"
           /\ \A k \in Works("submitProof", id) :
                 /\ milestones[id].status # "Released"
                 /\ \A j \in Works("approve", id) : k < j
BY DEF DashboardInv

LEMMA BeginInv ==
    ASSUME DashboardInv, NEW kind \in Kinds, NEW id \in Milestones, WithBusy(kind, id),
           UNCHANGED <<milestones, role>>, inspecting' = inspecting \/ inspecting' = Closed,
           kind = "approve" => /\ milestones[id].status # "Pending"
                               /\ inspecting' = Closed,
           kind = "submitProof" => inspecting.id = id /\ inspecting.status = "Pending"
    PROVE  DashboardInv'
<1>1. /\ works' \in Seq(Work) /\ Len(works') <= MaxWorks /\ Len(works) \in Nat
      /\ busyId' \in Milestones
  BY WorkBegun
<1>2. ASSUME NEW m \in Milestones
      PROVE  /\ Works("approve", m)' = Works("approve", m)
                    \cup (IF "approve" = kind /\ m = id THEN {Len(works) + 1} ELSE {})
             /\ Works("submitProof", m)' = Works("submitProof", m)
                    \cup (IF "submitProof" = kind /\ m = id THEN {Len(works) + 1} ELSE {})
             /\ \A k \in Works("submitProof", m) : k \in 1 .. Len(works)
  <2>1. "approve" \in Kinds /\ "submitProof" \in Kinds
    BY DEF Kinds
  <2>2. ASSUME NEW d \in Kinds
        PROVE  /\ Works(d, m)' = Works(d, m)
                    \cup (IF d = kind /\ m = id THEN {Len(works) + 1} ELSE {})
               /\ \A k \in Works(d, m) : k \in 1 .. Len(works)
    BY WorkBegun
  <2> QED BY <2>1, <2>2
<1>3. Closed.id \notin Milestones
  BY DashboardAssumption DEF Closed
<1>4. DashboardTypeOK'
  <2>1. Closed \in [id : Milestones \cup {NoMilestone}, status : MilestoneStatuses, proof : BOOLEAN]
    BY DEF Closed, MilestoneStatuses
  <2> QED BY <1>1, <2>1 DEF DashboardInv, DashboardTypeOK, Work
<1>5. inspecting' = Closed \/ inspecting'.id \in Milestones
  BY DEF DashboardInv
<1>6. ASSUME NEW m \in Milestones
      PROVE  /\ milestones'[m].status = "Pending" =>
                   /\ Works("approve", m)' = {}
                   /\ inspecting'.id = m => inspecting'.status = "Pending"
             /\ inspecting'.id = m /\ inspecting'.status = "Pending" =>
                   /\ Works("approve", m)' = {}
                   /\ milestones'[m].status # "Released"
             /\ \A k \in Works("submitProof", m)' :
                   /\ milestones'[m].status # "Released"
                   /\ \A j \in Works("approve", m)' : k < j
  <2>1. CASE kind = "approve"
    <3>1. /\ Works("approve", m)' = Works("approve", m)
                                       \cup (IF m = id THEN {Len(works) + 1} ELSE {})
          /\ Works("submitProof", m)' = Works("submitProof", m)
          /\ \A k \in Works("submitProof", m) : k \in 1 .. Len(works)
      BY <1>2, <2>1
    <3>2. inspecting'.id \notin Milestones
      BY <1>3, <2>1
    <3>3. milestones'[m].status = "Pending" => Works("approve", m)' = {}
      BY <2>1, <3>1, DashboardParts
    <3>4. ASSUME NEW k \in Works("submitProof", m)', NEW j \in Works("approve", m)'
          PROVE  k < j
      BY <1>1, <3>1, DashboardParts
    <3> QED BY <3>1, <3>2, <3>3, <3>4, DashboardParts
  <2>2. CASE kind = "submitProof"
    <3>1. /\ Works("submitProof", m)' = Works("submitProof", m)
                                       \cup (IF m = id THEN {Len(works) + 1} ELSE {})
          /\ Works("approve", m)' = Works("approve", m)
      BY <1>2, <2>2
    <3>2. m = id => Works("approve", m) = {} /\ milestones[m].status # "Released"
      BY <2>2, DashboardParts
    <3> QED BY <1>3, <3>1, <3>2, DashboardParts
  <2>3. CASE kind = "dispute"
    <3>1. /\ Works("submitProof", m)' = Works("submitProof", m)
          /\ Works("approve", m)' = Works("approve", m)
      BY <1>2, <2>3
    <3> QED BY <1>3, <3>1, DashboardParts
  <2> QED BY <2>1, <2>2, <2>3 DEF Kinds
<1> QED BY <1>4, <1>5, <1>6 DEF DashboardInv

LEMMA ElapseInv ==
    ASSUME DashboardInv, Elapse
    PROVE  /\ DashboardInv'
           /\ \A id \in Milestones :
                 milestones[id].status = "Released" => milestones'[id].status = "Released"
<1>1. PICK i \in Due :
        /\ milestones' = [milestones EXCEPT ![works[i].id] = Updated(@, works[i].kind)]
        /\ busyId' = BusyAfter(works[i])
        /\ inspecting' = IF works[i].kind = "submitProof" THEN Closed ELSE inspecting
        /\ works' = RemoveAt(works, i)
        /\ role' = role
  BY DEF Elapse
<1> DEFINE kind == works[1].kind
           on == works[1].id
<1>2. /\ i = 1 /\ works[1] \in Work /\ 1 \in Works(works[1].kind, works[1].id)
      /\ works' \in Seq(Work) /\ Len(works') <= MaxWorks
      /\ \A d \in Kinds, m \in Milestones :
            \A k \in Works(d, m)' : k + 1 \in Works(d, m) /\ k \in Nat
  BY <1>1, WorkDone
<1>3. kind \in Kinds /\ on \in Milestones /\ 1 \in Works(kind, on)
  BY <1>2 DEF Work
<1>4. /\ milestones \in [Milestones -> [status : MilestoneStatuses, proof : BOOLEAN]]
      /\ milestones' = [milestones EXCEPT ![on] = Updated(milestones[on], kind)]
      /\ inspecting' = IF kind = "submitProof" THEN Closed ELSE inspecting
  BY <1>1, <1>2 DEF DashboardInv, DashboardTypeOK
<1> HIDE DEF kind, on
<1>5. /\ Updated(milestones[on], kind) \in [status : MilestoneStatuses, proof : BOOLEAN]
      /\ Updated(milestones[on], kind).status # "Pending"
      /\ Updated(milestones[on], kind).status = "Released" =>
            kind = "approve" \/ milestones[on].status = "Released"
      /\ milestones[on].status = "Released" /\ kind # "submitProof" =>
            Updated(milestones[on], kind).status = "Released"
  BY <1>3, <1>4, UpdatedFacts
<1>6. ASSUME NEW m \in Milestones
      PROVE  /\ milestones'[m].status = "Pending" => m # on /\ milestones[m].status = "Pending"
             /\ milestones'[m].status = "Released" =>
                   (m = on /\ kind = "approve") \/ milestones[m].status = "Released"
             /\ milestones[m].status = "Released" =>
                   (m = on /\ kind = "submitProof") \/ milestones'[m].status = "Released"
  BY <1>3, <1>4, <1>5
<1>7. Closed.id \notin Milestones
  BY DashboardAssumption DEF Closed
<1>8. "approve" \in Kinds /\ "submitProof" \in Kinds
  BY DEF Kinds
<1>9. DashboardTypeOK'
  <2>1. milestones' \in [Milestones -> [status : MilestoneStatuses, proof : BOOLEAN]]
    BY <1>3, <1>4, <1>5
  <2>2. Closed \in [id : Milestones \cup {NoMilestone}, status : MilestoneStatuses, proof : BOOLEAN]
    BY DEF Closed, MilestoneStatuses
  <2>3. inspecting' \in [id : Milestones \cup {NoMilestone}, status : MilestoneStatuses,
                         proof : BOOLEAN]
    BY <1>4, <2>2 DEF DashboardInv, DashboardTypeOK
  <2> QED BY <1>1, <1>2, <2>1, <2>3 DEF DashboardInv, DashboardTypeOK, Work, BusyAfter
<1>10. inspecting' = Closed \/ inspecting'.id \in Milestones
  BY <1>4 DEF DashboardInv
<1>11. ASSUME NEW m \in Milestones
       PROVE  Works("approve", m) = {} => Works("approve", m)' = {}
  BY <1>2, <1>8
<1>12. ASSUME NEW m \in Milestones
       PROVE  /\ milestones'[m].status = "Pending" =>
                    /\ Works("approve", m)' = {}
                    /\ inspecting'.id = m => inspecting'.status = "Pending"
              /\ inspecting'.id = m /\ inspecting'.status = "Pending" =>
                    /\ Works("approve", m)' = {}
                    /\ milestones'[m].status # "Released"
              /\ \A k \in Works("submitProof", m)' :
                    /\ milestones'[m].status # "Released"
                    /\ \A j \in Works("approve", m)' : k < j
  <2>1. /\ milestones'[m].status = "Pending" =>
              /\ Works("approve", m)' = {}
              /\ inspecting'.id = m => inspecting'.status = "Pending"
    BY <1>4, <1>6, <1>7, <1>11, DashboardParts
  <2>2. inspecting'.id = m /\ inspecting'.status = "Pending" =>
              /\ Works("approve", m)' = {}
              /\ milestones'[m].status # "Released"
    BY <1>3, <1>4, <1>6, <1>7, <1>11, DashboardParts
  <2>3. ASSUME NEW k \in Works("submitProof", m)'
        PROVE  /\ milestones'[m].status # "Released"
               /\ \A j \in Works("approve", m)' : k < j
    <3>1. k + 1 \in Works("submitProof", m) /\ k \in Nat
      BY <1>2, <1>8
    <3>2. milestones[m].status # "Released" /\ \A j \in Works("approve", m) : k + 1 < j
      BY <3>1, DashboardParts
    <3>3. ~ (m = on /\ kind = "approve")
      BY <1>3, <3>1, <3>2
    <3>4. ASSUME NEW j \in Works("approve", m)' PROVE k < j
      <4>1. j + 1 \in Works("approve", m) /\ j \in Nat
        BY <1>2, <1>8
      <4> QED BY <3>1, <3>2, <4>1
    <3> QED BY <1>6, <3>2, <3>3, <3>4
  <2> QED BY <2>1, <2>2, <2>3
<1>13. ASSUME NEW m \in Milestones, milestones[m].status = "Released"
       PROVE  milestones'[m].status = "Released"
  <2>1. ~ (m = on /\ kind = "submitProof")
    BY <1>3, <1>13, DashboardParts
  <2> QED BY <1>6, <1>13, <2>1
<1> QED BY <1>9, <1>10, <1>12, <1>13 DEF DashboardInv

LEMMA DashboardStepInv ==
    DashboardInv /\ [DashboardNext]_dashboardVars =>
        /\ DashboardInv'
        /\ \A id \in Milestones :
              milestones[id].status = "Released" => milestones'[id].status = "Released"
<1> SUFFICES ASSUME DashboardInv, [DashboardNext]_dashboardVars
             PROVE  /\ DashboardInv'
                    /\ \A id \in Milestones : milestones[id].status = "Released" =>
                                                  milestones'[id].status = "Released"
  OBVIOUS
<1>1. CASE Elapse
  BY <1>1, ElapseInv
<1>2. DashboardTypeOK /\ Closed.id \notin Milestones
  BY DashboardAssumption DEF DashboardInv, Closed
<1>3. ASSUME NEW id \in Milestones, Approve(id) \/ Dispute(id)
      PROVE  DashboardInv' /\ UNCHANGED milestones
  BY <1>2, <1>3, BeginInv DEF Approve, Dispute, Approvable, Kinds
<1>4. CASE SubmitProof
  BY <1>2, <1>4, BeginInv DEF SubmitProof, DashboardInv, Kinds
<1>5. CASE ApproveAndRelease
  <2>1. inspecting.id \in Milestones /\ inspecting.status # "Pending"
    BY <1>5 DEF ApproveAndRelease, Approvable, DashboardInv
  <2>2. milestones[inspecting.id].status # "Pending"
    BY <2>1, DashboardParts
  <2> QED BY <1>5, <2>1, <2>2, BeginInv DEF ApproveAndRelease, Kinds
<1>6. ASSUME UNCHANGED <<milestones, works, busyId>>, DashboardTypeOK',
             \/ inspecting' = inspecting \/ inspecting' = Closed
             \/ /\ inspecting'.id \in Milestones
                /\ inspecting'.status = milestones[inspecting'.id].status
      PROVE  DashboardInv'
  <2>1. \A d, m : Works(d, m)' = Works(d, m)
    BY <1>6 DEF Works
  <2> QED BY <1>2, <1>6, <2>1 DEF DashboardInv
<1>7. ASSUME NEW id \in Milestones, Inspect(id)
      PROVE  DashboardInv' /\ UNCHANGED milestones
  <2>1. /\ inspecting' = [id |-> id, status |-> milestones[id].status,
                          proof |-> milestones[id].proof]
        /\ UNCHANGED <<milestones, works, busyId, role>>
    BY <1>7 DEF Inspect
  <2>2. DashboardTypeOK'
    BY <1>2, <2>1 DEF DashboardTypeOK
  <2> QED BY <1>6, <2>1, <2>2
<1>8. CASE CloseDialog
  <2>1. DashboardTypeOK'
    BY <1>2, <1>8 DEF CloseDialog, DashboardTypeOK, Closed, MilestoneStatuses
  <2> QED BY <1>6, <1>8, <2>1 DEF CloseDialog
<1>9. ASSUME NEW r \in Roles, ChooseRole(r)
      PROVE  DashboardInv' /\ UNCHANGED milestones
  <2>1. DashboardTypeOK'
    BY <1>2, <1>9 DEF ChooseRole, DashboardTypeOK
  <2> QED BY <1>6, <1>9, <2>1 DEF ChooseRole
<1>10. CASE UNCHANGED dashboardVars
  <2>1. DashboardTypeOK'
    BY <1>2, <1>10 DEF dashboardVars, DashboardTypeOK
  <2> QED BY <1>6, <1>10, <2>1 DEF dashboardVars
<1> QED BY <1>1, <1>3, <1>4, <1>5, <1>7, <1>8, <1>9, <1>10 DEF DashboardNext

LEMMA DashboardInvariance == DashboardSpec => []DashboardInv
BY DashboardInitInv, DashboardStepInv, PTL DEF DashboardSpec

\* A milestone that the dashboard shows as released stays released, however many delayed
\* clicks are on their way and whatever copy the dialog was opened on
\* (dashboard/page.tsx withBusy, MilestoneTimeline.tsx).
THEOREM ReleasesLast == DashboardSpec => ReleasedStays
<1>1. DashboardInv /\ [DashboardNext]_dashboardVars =>
          [\A id \in Milestones : milestones[id].status = "Released" =>
                                      milestones'[id].status = "Released"]_dashboardVars
  BY DashboardStepInv
<1> QED BY <1>1, DashboardInvariance, PTL DEF DashboardSpec, ReleasedStays
-----------------------------------------------------------------------------
(* EscrowListing: a client that reads the index while rows are written.     *)

Query == [mine : BOOLEAN, states : SUBSET States]

\* What the client has asked for is in the table as long as it is not written, and of
\* that, what lies on the pages behind it has been seen.
BehindIsSeen ==
    reader.page > 0 /\ ~ leftFilter =>
        \A id \in untouched :
            Offset(reader.query, id) < (reader.page - 1) * PageSize => id \in reader.seen

ListingInv ==
    /\ ListingTypeOK
    /\ reader \in [query : Query, page : Nat, seen : SUBSET Escrows]
    /\ untouched \subseteq Selected(reader.query)
    /\ BehindIsSeen /\ UntouchedIsSeen

\* The pages hold all rows, and there are no more pages than rows.
LEMMA PageCountFacts ==
    ASSUME NEW total \in Nat
    PROVE  /\ PageCount(total) \in Nat \ {0}
           /\ total <= PageCount(total) * PageSize
           /\ total > 0 => PageCount(total) <= total
           /\ total = 0 => PageCount(total) = 1
<1>1. PageSize \in Nat /\ PageSize > 0 BY ListingAssumption
<1>2. CASE total = 0
  BY <1>1, <1>2 DEF PageCount
<1>3. CASE total > 0
  <2> DEFINE q == (total + PageSize - 1) \div PageSize
  <2>1. q \in Int /\ q * PageSize <= total + PageSize - 1
    BY <1>1
  <2>2. total + PageSize - 1 < q * PageSize + PageSize
    BY <1>1
  <2>3. PageCount(total) = q BY <1>3 DEF PageCount
  <2> HIDE DEF q
  <2>4. q > 0
    <3>1. q <= 0 => q * PageSize <= 0 BY <1>1, <2>1
    <3> QED BY <1>1, <1>3, <2>1, <2>2, <3>1
  <2>5. q <= total
    <3> SUFFICES ASSUME q >= total + 1 PROVE FALSE BY <2>1
    <3>1. q * PageSize >= (total + 1) * PageSize BY <1>1, <2>1
    <3>2. (total + 1) * PageSize = total * PageSize + PageSize BY <1>1
    <3>3. total * PageSize >= total BY <1>1
    <3>4. total * PageSize \in Nat /\ q * PageSize \in Int BY <1>1, <2>1
    <3> QED BY <1>1, <2>1, <3>1, <3>2, <3>3, <3>4
  <2>6. total <= q * PageSize
    <3>1. q * PageSize \in Int BY <1>1, <2>1
    <3> QED BY <1>1, <2>2, <3>1
  <2> QED BY <1>3, <2>1, <2>3, <2>4, <2>5, <2>6
<1> QED BY <1>2, <1>3

\* The rows before a row of the result are some of the result, and not all of it.
LEMMA OffsetFacts ==
    ASSUME ListingTypeOK, NEW query, NEW id \in Selected(query)
    PROVE  /\ Offset(query, id) \in Nat
           /\ Offset(query, id) < Cardinality(Selected(query))
<1> DEFINE Before == {other \in Selected(query) : updatedAt[other] > updatedAt[id]}
<1>1. IsFiniteSet(Escrows) /\ Selected(query) \subseteq Escrows
  BY ListingAssumption DEF Selected, Rows
<1>2. IsFiniteSet(Selected(query))
  BY <1>1, FS_Subset
<1>3. Before \subseteq Selected(query) /\ Before # Selected(query)
  <2>1. updatedAt[id] \in Nat
    BY DEF ListingTypeOK, Selected, Rows
  <2>2. id \notin Before
    BY <2>1
  <2> QED BY <2>2
<1>4. IsFiniteSet(Before)
  BY <1>2, <1>3, FS_Subset
<1>5. Cardinality(Before) < Cardinality(Selected(query))
  BY <1>2, <1>3, <1>4, FS_Subset, FS_CardinalityType
<1> QED BY <1>4, <1>5, FS_CardinalityType DEF Offset

LEMMA SelectedCount ==
    ASSUME NEW query
    PROVE  /\ Cardinality(Selected(query)) \in Nat
           /\ Cardinality(Selected(query)) <= Cardinality(Escrows)
<1>1. IsFiniteSet(Escrows) /\ Selected(query) \subseteq Escrows
  BY ListingAssumption DEF Selected, Rows
<1> QED BY <1>1, FS_Subset, FS_CardinalityType

\* A row with no more than p pages before it has been seen when the first p pages were.
LEMMA PageSeen ==
    ASSUME ListingTypeOK, NEW query, NEW id \in Selected(query), NEW p \in Nat \ {0},
           Offset(query, id) < p * PageSize
    PROVE  \/ Offset(query, id) < (p - 1) * PageSize
           \/ id \in Page(query, p)
<1> DEFINE o == Offset(query, id)
<1>1. PageSize \in Nat /\ PageSize > 0 BY ListingAssumption
<1>2. o \in Nat BY OffsetFacts
<1>3. o < p * PageSize OBVIOUS
<1> HIDE DEF o
<1>4. SUFFICES ASSUME o >= (p - 1) * PageSize PROVE o \div PageSize = p - 1
  <2>1. (p - 1) * PageSize \in Int BY <1>1
  <2> QED BY <1>2, <1>4, <2>1 DEF Page, o
<1>5. p * PageSize = (p - 1) * PageSize + PageSize BY <1>1
<1> DEFINE m == (p - 1) * PageSize
           r == o - m
<1>6. m \in Int /\ r \in Int /\ 0 <= r /\ r < PageSize
  BY <1>1, <1>2, <1>3, <1>4, <1>5
<1>7. o = (p - 1) * PageSize + r
  BY <1>1, <1>2
<1> HIDE DEF r, m
<1> QED BY <1>1, <1>2, <1>6, <1>7, SMT

LEMMA ListingInitInv == ListingInit => ListingInv
<1> SUFFICES ASSUME ListingInit PROVE ListingInv
  OBVIOUS
<1>1. Cardinality(Escrows) \in Nat
  BY ListingAssumption, FS_CardinalityType
<1>2. ListingTypeOK
  <2>1. Rows = {DemoEscrow} /\ updatedAt \in [Escrows -> 0 .. writes]
    BY ListingAssumption DEF ListingInit, Rows
  <2>2. stateOf \in [Escrows -> States] /\ writes \in 0 .. MaxWrites
    BY ListingAssumption DEF ListingInit
  <2>3. reader.seen = {} /\ reader.page = 0 /\ untouched = {} /\ leftFilter = FALSE
    BY DEF ListingInit
  <2>4. reader.page \in 0 .. Cardinality(Escrows)
    BY <1>1, <2>3
  <2> QED BY <2>1, <2>2, <2>3, <2>4 DEF ListingTypeOK
<1>3. reader \in [query : Query, page : Nat, seen : SUBSET Escrows]
  BY DEF ListingInit, NoQuery, Query
<1> QED BY <1>2, <1>3 DEF ListingInit, ListingInv, BehindIsSeen, UntouchedIsSeen

LEMMA UpsertInv ==
    ASSUME ListingInv, NEW id \in Escrows, NEW s \in States, Upsert(id, s)
    PROVE  ListingInv'
<1>1. ListingTypeOK /\ writes \in Nat /\ updatedAt \in [Escrows -> Nat]
  BY ListingAssumption DEF ListingInv, ListingTypeOK
<1>2. updatedAt' \in [Escrows -> Nat] /\ updatedAt'[id] = writes + 1 /\ stateOf'[id] = s
  BY <1>1 DEF Upsert, ListingTypeOK
<1>3. \A x \in Escrows \ {id} : updatedAt'[x] = updatedAt[x] /\ stateOf'[x] = stateOf[x]
  BY <1>1 DEF Upsert, ListingTypeOK
<1>4. \A x \in Escrows : updatedAt[x] <= writes
  BY <1>1 DEF ListingTypeOK
<1>5. Rows' = Rows \cup {id}
  BY <1>1, <1>2, <1>3 DEF Rows
<1>6. ListingTypeOK'
  <2>1. writes' = writes + 1 /\ writes' \in 0 .. MaxWrites
    BY <1>1, ListingAssumption DEF Upsert, ListingTypeOK
  <2>2. updatedAt' \in [Escrows -> 0 .. writes']
    BY <1>1, <1>2, <1>3, <1>4, <2>1
  <2>3. \A x, y \in Rows' : updatedAt'[x] = updatedAt'[y] => x = y
    <3>1. \A x \in Rows : x # id => updatedAt'[x] < writes + 1
      BY <1>1, <1>3, <1>4 DEF Rows
    <3> QED BY <1>1, <1>2, <1>3, <1>5, <3>1 DEF ListingTypeOK, Rows
  <2>4. stateOf' \in [Escrows -> States]
    BY <1>1 DEF Upsert, ListingTypeOK
  <2>5. reader'.seen \cup untouched' \subseteq Rows'
    BY <1>1, <1>5 DEF Upsert, ListingTypeOK
  <2>6. leftFilter' \in BOOLEAN
    BY <1>1, Zenon DEF Upsert, ListingTypeOK
  <2> QED BY <1>1, <2>1, <2>2, <2>3, <2>4, <2>5, <2>6 DEF Upsert, ListingTypeOK
<1>7. (untouched \subseteq Selected(reader.query))'
  BY <1>3, <1>5 DEF ListingInv, Upsert, Selected
<1>8. SUFFICES ASSUME ~ leftFilter'
               PROVE  BehindIsSeen' /\ UntouchedIsSeen'
  BY <1>6, <1>7 DEF ListingInv, Upsert, BehindIsSeen, UntouchedIsSeen
<1>9. ~ leftFilter /\ (id \in Selected(reader.query) => Matching(reader.query, id, s))
  BY <1>8 DEF Upsert, Selected
<1>10. UntouchedIsSeen'
  BY <1>9 DEF ListingInv, Upsert, UntouchedIsSeen
<1>11. BehindIsSeen'
  <2>1. SUFFICES ASSUME reader.page > 0, NEW x \in untouched \ {id},
                        Offset(reader.query, x)' < (reader.page - 1) * PageSize
                 PROVE  x \in reader.seen
    BY DEF BehindIsSeen, Upsert
  <2> DEFINE Q == reader.query
             B == {y \in Selected(Q) : updatedAt[y] > updatedAt[x]}
             B2 == {y \in Selected(Q)' : updatedAt'[y] > updatedAt'[x]}
  <2>2. x \in Selected(Q) /\ x \in Escrows /\ x # id
    BY DEF ListingInv, Selected, Rows
  <2>3. B \subseteq B2
    <3> SUFFICES ASSUME NEW y \in Selected(Q), updatedAt[y] > updatedAt[x]
                 PROVE  y \in Selected(Q)' /\ updatedAt'[y] > updatedAt'[x]
      OBVIOUS
    <3>1. y \in Escrows /\ y \in Rows BY DEF Selected, Rows
    <3>2. CASE y = id
      <4>1. y \in Selected(Q)'
        BY <1>2, <1>5, <1>9, <3>2 DEF Selected, Upsert
      <4>2. updatedAt'[y] > updatedAt'[x]
        BY <1>1, <1>2, <1>3, <1>4, <2>2, <3>2
      <4> QED BY <4>1, <4>2
    <3>3. CASE y # id
      BY <1>3, <1>5, <2>2, <3>1, <3>3 DEF Selected, Upsert
    <3> QED BY <3>2, <3>3
  <2>4. IsFiniteSet(B2) /\ Selected(Q)' \subseteq Escrows
    <3>1. Selected(Q)' \subseteq Escrows BY DEF Selected, Rows
    <3> QED BY <3>1, FS_Subset, ListingAssumption
  <2>5. Cardinality(B) <= Cardinality(B2) /\ Cardinality(B) \in Nat /\ Cardinality(B2) \in Nat
    BY <2>3, <2>4, FS_Subset, FS_CardinalityType
  <2>6. Offset(reader.query, x) = Cardinality(B)
    BY DEF Offset
  <2>7. Offset(reader.query, x)' = Cardinality(B2)
    BY DEF Offset, Upsert
  <2>8. (reader.page - 1) * PageSize \in Int
    BY ListingAssumption DEF ListingInv
  <2> HIDE DEF B, B2
  <2>9. Offset(reader.query, x) < (reader.page - 1) * PageSize
    BY <2>1, <2>5, <2>6, <2>7, <2>8
  <2> QED BY <1>9, <2>1, <2>9 DEF ListingInv, BehindIsSeen
<1> QED BY <1>10, <1>11

LEMMA BeginReadingInv ==
    ASSUME ListingInv, NEW query \in Query, BeginReading(query)
    PROVE  ListingInv'
<1>1. reader' = [query |-> query, page |-> 1, seen |-> {}] /\ Rows' = Rows
  BY DEF BeginReading, Rows
<1>2. untouched' = Selected(query)' /\ Selected(query)' = Selected(reader.query)'
  BY <1>1 DEF BeginReading, Selected, Rows
<1>3. reader' \in [query : Query, page : Nat, seen : SUBSET Escrows]
  BY <1>1
<1>4. 1 \in 0 .. Cardinality(Escrows)
  <2>1. Cardinality(Escrows) \in Nat /\ Cardinality(Escrows) # 0
    BY ListingAssumption, FS_CardinalityType, FS_EmptySet
  <2> QED BY <2>1
<1>5. ListingTypeOK'
  <2>1. untouched' \subseteq Rows'
    BY <1>2 DEF Selected
  <2>2. leftFilter' \in BOOLEAN /\ writes' \in 0 .. MaxWrites
    BY DEF BeginReading, ListingInv, ListingTypeOK
  <2>3. updatedAt' = updatedAt /\ stateOf' = stateOf /\ writes' = writes
    BY DEF BeginReading
  <2> QED BY <1>1, <1>4, <2>1, <2>2, <2>3 DEF ListingInv, ListingTypeOK
<1>6. BehindIsSeen'
  <2> SUFFICES ASSUME NEW id \in untouched',
                      Offset(reader.query, id)' < (reader'.page - 1) * PageSize
               PROVE  FALSE
    BY DEF BehindIsSeen
  <2>1. (Offset(reader.query, id) \in Nat)'
    <3>1. IsFiniteSet(Selected(query)')
      <4>1. Selected(query)' \subseteq Escrows BY DEF Selected, Rows
      <4> QED BY <4>1, FS_Subset, ListingAssumption
    <3>2. {other \in Selected(query)' : updatedAt'[other] > updatedAt'[id]}
             \subseteq Selected(query)'
      OBVIOUS
    <3> QED BY <1>1, <3>1, <3>2, FS_Subset, FS_CardinalityType DEF Offset
  <2>2. (reader'.page - 1) * PageSize = 0
    BY <1>1, ListingAssumption
  <2> QED BY <2>1, <2>2
<1>7. UntouchedIsSeen'
  BY <1>1 DEF UntouchedIsSeen
<1> QED BY <1>2, <1>3, <1>5, <1>6, <1>7 DEF ListingInv

LEMMA ReadPageInv ==
    ASSUME ListingInv, ReadPage
    PROVE  ListingInv'
<1> DEFINE Q == reader.query
           p == reader.page
           total == Cardinality(Selected(Q))
           more == p < PageCount(total)
<1>1. ListingTypeOK /\ p \in Nat /\ p > 0
  BY DEF ListingInv, ReadPage
<1>2. reader' = [query |-> Q, page |-> IF more THEN p + 1 ELSE 0,
                 seen |-> reader.seen \cup Page(Q, p)]
  BY DEF ListingInv, ReadPage
<1>3. /\ UNCHANGED <<updatedAt, stateOf, untouched, leftFilter, writes>>
      /\ Rows' = Rows
  BY DEF ReadPage, Rows
<1>4. total \in Nat /\ total <= Cardinality(Escrows)
  BY SelectedCount
<1>5. Page(Q, p) \subseteq Rows /\ Rows \subseteq Escrows
  BY DEF Page, Selected, Rows
<1>6. reader'.page \in 0 .. Cardinality(Escrows)
  <2>1. Cardinality(Escrows) \in Nat
    BY ListingAssumption, FS_CardinalityType
  <2>2. CASE more
    <3>1. PageCount(total) \in Nat /\ (total = 0 => PageCount(total) = 1)
          /\ (total > 0 => PageCount(total) <= total)
      BY <1>4, PageCountFacts
    <3>2. p + 1 <= Cardinality(Escrows)
      BY <1>1, <1>4, <2>1, <2>2, <3>1
    <3> QED BY <1>1, <1>2, <2>1, <2>2, <3>2
  <2>3. CASE ~ more
    BY <1>2, <2>1, <2>3
  <2> QED BY <2>2, <2>3
<1>7. reader' \in [query : Query, page : Nat, seen : SUBSET Escrows]
  <2>1. reader.seen \cup Page(Q, p) \subseteq Escrows /\ Q \in Query
    BY <1>5 DEF ListingInv
  <2> QED BY <1>1, <1>2, <2>1
<1>8. ListingTypeOK'
  <2>1. reader'.seen \cup untouched' \subseteq Rows'
    BY <1>1, <1>2, <1>3, <1>5 DEF ListingTypeOK
  <2> QED BY <1>1, <1>3, <1>6, <2>1 DEF ListingTypeOK
<1>9. Selected(reader.query)' = Selected(Q)
  BY <1>2, <1>3 DEF Selected
<1>10. \A id \in untouched : id \in Selected(Q) /\ Offset(reader.query, id)' = Offset(Q, id)
  BY <1>2, <1>3, <1>9 DEF ListingInv, Offset, Selected
<1>11. ASSUME ~ leftFilter, NEW id \in untouched, Offset(Q, id) < p * PageSize
       PROVE  id \in reader'.seen
  <2>1. id \in Selected(Q) BY <1>10
  <2>2. Offset(Q, id) < (p - 1) * PageSize \/ id \in Page(Q, p)
    BY <1>1, <1>11, <2>1, PageSeen
  <2> QED BY <1>1, <1>2, <1>11, <2>2 DEF ListingInv, BehindIsSeen
<1>12. BehindIsSeen'
  <2> SUFFICES ASSUME reader'.page > 0, ~ leftFilter, NEW id \in untouched,
                      Offset(Q, id) < (reader'.page - 1) * PageSize
               PROVE  id \in reader'.seen
    BY <1>3, <1>10 DEF BehindIsSeen
  <2>1. reader'.page - 1 = p BY <1>1, <1>2
  <2> QED BY <1>11, <2>1
<1>13. UntouchedIsSeen'
  <2> SUFFICES ASSUME reader'.page = 0, ~ leftFilter, NEW id \in untouched
               PROVE  id \in reader'.seen
    BY <1>3 DEF UntouchedIsSeen
  <2>1. PageCount(total) <= p /\ PageCount(total) \in Nat /\ total <= PageCount(total) * PageSize
    BY <1>1, <1>2, <1>4, PageCountFacts
  <2>2. Offset(Q, id) \in Nat /\ Offset(Q, id) < total
    BY <1>1, <1>10, OffsetFacts
  <2>3. PageCount(total) * PageSize <= p * PageSize
    BY <1>1, <2>1, ListingAssumption
  <2>4. PageCount(total) * PageSize \in Nat /\ p * PageSize \in Nat
    BY <1>1, <2>1, ListingAssumption
  <2> HIDE DEF total, p, more
  <2>5. Offset(Q, id) < p * PageSize
    BY <1>4, <2>1, <2>2, <2>3, <2>4
  <2> QED BY <1>11, <2>5
<1>14. (untouched \subseteq Selected(reader.query))'
  BY <1>3, <1>9, <1>10
<1> QED BY <1>7, <1>8, <1>12, <1>13, <1>14 DEF ListingInv

LEMMA ListingStepInv == ListingInv /\ [ListingNext]_listingVars => ListingInv'
<1> SUFFICES ASSUME ListingInv, [ListingNext]_listingVars
             PROVE  ListingInv'
  OBVIOUS
<1>1. CASE \E id \in Escrows, s \in States : Upsert(id, s)
  BY <1>1, UpsertInv
<1>2. ASSUME NEW mine \in BOOLEAN, NEW states \in {States} \cup {{s} : s \in States},
             BeginReading([mine |-> mine, states |-> states])
      PROVE  ListingInv'
  <2>1. [mine |-> mine, states |-> states] \in Query BY DEF Query
  <2> QED BY <1>2, <2>1, BeginReadingInv
<1>3. CASE ReadPage
  BY <1>3, ReadPageInv
<1>4. CASE UNCHANGED listingVars
  BY <1>4 DEF listingVars, ListingInv, ListingTypeOK, Rows, Selected, Offset, BehindIsSeen,
              UntouchedIsSeen
<1> QED BY <1>1, <1>2, <1>3, <1>4 DEF ListingNext

LEMMA ListingInvariance == ListingSpec => []ListingInv
<1> QED BY ListingInitInv, ListingStepInv, PTL DEF ListingSpec

\* A client that reads all pages of GET /api/escrows has seen every row that was there and
\* was not written meanwhile, unless a row left the filter.
THEOREM UntouchedRowsAreSeen == ListingSpec => []UntouchedIsSeen
<1>1. ListingInv => UntouchedIsSeen BY DEF ListingInv
<1> QED BY <1>1, ListingInvariance, PTL

-----------------------------------------------------------------------------
(* LruCache: any number of keys, of producers and of entries that fit.      *)

Entry == [place : Nat \ {0}, readAt : Nat, ttl : Ttls, expiresAt : Nat]

\* Each entry has the place of its key's last use, and is kept for its lifetime from the
\* arrival of its value.
CacheInv ==
    /\ CacheTypeOK
    /\ loads \in Seq([key : Keys, readAt : Nat, ttl : Ttls])
    /\ \A i \in DOMAIN loads : clock <= loads[i].readAt + MaxLoad
    /\ entries \in [Cached -> Entry]
    /\ \A key \in Cached :
          /\ entries[key].place = lastUse[key]
          /\ entries[key].expiresAt <= entries[key].readAt + MaxLoad + entries[key].ttl
    /\ \A key, other \in Keys :
          lastUse[key] = lastUse[other] /\ lastUse[key] > 0 => key = other
    /\ ServedIsRecent /\ RecentlyUsedIsKept

\* A set of numbers that is not empty has a least one.
LEMMA LeastOf ==
    ASSUME NEW T, T \subseteq Nat, T # {}
    PROVE  \E x \in T : \A y \in T : x <= y
<1> DEFINE R == {p \in Nat \X Nat : p[1] < p[2]}
<1>1. IsWellFoundedOn(R, Nat)
  BY NatLessThanWellFounded, Zenon DEF OpToRel
<1> HIDE DEF R
<1>2. PICK x \in T : \A y \in T : ~ (<<y, x>> \in R)
  BY <1>1, WFMin
<1>3. \A y \in T : <<y, x>> \in R <=> y < x
  BY SMT DEF R
<1>4. ASSUME NEW y \in T PROVE x <= y
  <2>1. x \in Nat /\ y \in Nat
    OBVIOUS
  <2>2. ~ (y < x)
    BY <1>2, <1>3
  <2> QED BY <2>1, <2>2
<1> QED BY <1>4

\* evict leaves no more than fit: the first of what it leaves has all the others behind it.
LEMMA KeptFits ==
    ASSUME NEW map, IsFiniteSet(DOMAIN map),
           \A k \in DOMAIN map : map[k].place \in Nat,
           \A k, l \in DOMAIN map : map[k].place = map[l].place => k = l
    PROVE  /\ IsFiniteSet(DOMAIN Kept(map))
           /\ Cardinality(DOMAIN Kept(map)) <= MaxEntries
<1> DEFINE K == {k \in Living(map) : Cardinality(Later(map, k)) < MaxEntries}
<1>1. DOMAIN Kept(map) = K
  BY DEF Kept, Restrict
<1>2. K \subseteq DOMAIN map /\ IsFiniteSet(K)
  <2>1. K \subseteq DOMAIN map BY DEF Living
  <2> QED BY <2>1, FS_Subset
<1>3. CASE K = {}
  BY <1>1, <1>3, FS_EmptySet, CacheAssumption
<1>4. CASE K # {}
  <2> DEFINE T == {map[k].place : k \in K}
  <2>1. T \subseteq Nat /\ T # {}
    BY <1>2, <1>4
  <2>2. PICK x \in T : \A y \in T : x <= y
    <3> HIDE DEF T
    <3> QED BY <2>1, LeastOf
  <2>3. PICK m \in K : map[m].place = x
    OBVIOUS
  <2>4. \A k \in K : map[m].place <= map[k].place
    BY <2>2, <2>3
  <2>5. K \ {m} \subseteq Later(map, m)
    <3> SUFFICES ASSUME NEW k \in K, k # m PROVE k \in Later(map, m)
      OBVIOUS
    <3>1. map[k].place # map[m].place /\ map[k].place \in Nat /\ map[m].place \in Nat
      BY <1>2
    <3>2. map[k].place > map[m].place
      BY <2>4, <3>1
    <3> QED BY <3>2 DEF Later
  <2>6. Later(map, m) \subseteq DOMAIN map /\ IsFiniteSet(Later(map, m))
    <3>1. Later(map, m) \subseteq DOMAIN map BY DEF Later, Living
    <3> QED BY <3>1, FS_Subset
  <2> HIDE DEF K
  <2>7. Cardinality(K \ {m}) <= Cardinality(Later(map, m))
    BY <2>5, <2>6, FS_Subset
  <2>8. Cardinality(K \ {m}) = Cardinality(K) - 1
    BY <1>2, <2>3, FS_RemoveElement
  <2>9. Cardinality(Later(map, m)) < MaxEntries
    BY <2>3 DEF K
  <2>10. Cardinality(K) \in Nat /\ Cardinality(K \ {m}) \in Nat
         /\ Cardinality(Later(map, m)) \in Nat
    BY <1>2, <2>5, <2>6, FS_Subset, FS_CardinalityType
  <2> QED BY <1>1, <1>2, <2>7, <2>8, <2>9, <2>10, CacheAssumption
<1> QED BY <1>3, <1>4

LEMMA CacheInitInv == CacheInit => CacheInv
<1> SUFFICES ASSUME CacheInit PROVE CacheInv
  OBVIOUS
<1>1. Cached = {} /\ loads = <<>>
  BY DEF CacheInit, Cached
<1>2. Cardinality(Cached) = 0 /\ Len(loads) = 0
  BY <1>1, FS_EmptySet
<1>3. lastUse = [key \in Keys |-> 0] /\ uses = 0 /\ clock = 0 /\ dropped = {}
  BY DEF CacheInit
<1>4. CacheTypeOK
  BY <1>1, <1>2, <1>3, CacheAssumption DEF CacheTypeOK
<1>5. loads \in Seq([key : Keys, readAt : Nat, ttl : Ttls])
  BY <1>1
<1>6. entries \in [Cached -> Entry]
  BY <1>1 DEF CacheInit, Cached
<1>7. ServedIsRecent /\ RecentlyUsedIsKept
  BY <1>3 DEF CacheInit, ServedIsRecent, RecentlyUsedIsKept
<1> QED BY <1>1, <1>3, <1>4, <1>5, <1>6, <1>7 DEF CacheInv

\* What was used since the last use of a key.
Since(key) == {other \in Keys : lastUse[other] > lastUse[key]}

LEMMA SinceCount ==
    ASSUME NEW key
    PROVE  Cardinality(Since(key)) \in Nat
<1>1. IsFiniteSet(Keys) /\ Since(key) \subseteq Keys
  BY CacheAssumption DEF Since
<1> QED BY <1>1, FS_Subset, FS_CardinalityType

LEMMA UseFacts ==
    ASSUME CacheInv, NEW key \in Keys, Used(key)
    PROVE  /\ lastUse' \in [Keys -> 0 .. uses'] /\ uses' = uses + 1 /\ uses' \in 0 .. MaxUses
           /\ lastUse'[key] = uses + 1
           /\ \A other \in Keys \ {key} : lastUse'[other] = lastUse[other]
           /\ \A k, l \in Keys : lastUse'[k] = lastUse'[l] /\ lastUse'[k] > 0 => k = l
           /\ \A k \in Keys \ {key} :
                 Cardinality(Since(k)) <= Cardinality({l \in Keys : lastUse'[l] > lastUse'[k]})
<1>1. lastUse \in [Keys -> 0 .. uses] /\ uses \in 0 .. MaxUses /\ MaxUses \in Nat
  BY CacheAssumption DEF CacheInv, CacheTypeOK
<1>2. uses' = uses + 1 /\ uses' \in 0 .. MaxUses /\ lastUse'[key] = uses + 1
  BY <1>1 DEF Used
<1>3. \A other \in Keys \ {key} : lastUse'[other] = lastUse[other]
  BY <1>1 DEF Used
<1>4. lastUse' \in [Keys -> 0 .. uses']
  BY <1>1, <1>2 DEF Used
<1>5. \A other \in Keys : lastUse[other] \in Nat /\ lastUse[other] <= uses /\ uses \in Nat
  BY <1>1
<1>6. \A k, l \in Keys : lastUse'[k] = lastUse'[l] /\ lastUse'[k] > 0 => k = l
  <2> SUFFICES ASSUME NEW k \in Keys, NEW l \in Keys, lastUse'[k] = lastUse'[l],
                      lastUse'[k] > 0
               PROVE  k = l
    OBVIOUS
  <2>1. CASE k = key \/ l = key
    BY <1>2, <1>3, <1>5, <2>1
  <2>2. CASE k # key /\ l # key
    BY <1>3, <2>2 DEF CacheInv
  <2> QED BY <2>1, <2>2
<1>7. ASSUME NEW k \in Keys \ {key}
      PROVE  Cardinality(Since(k)) <= Cardinality({l \in Keys : lastUse'[l] > lastUse'[k]})
  <2> DEFINE later == {l \in Keys : lastUse'[l] > lastUse'[k]}
  <2>1. Since(k) \subseteq later
    <3> SUFFICES ASSUME NEW l \in Keys, lastUse[l] > lastUse[k]
                 PROVE  lastUse'[l] > lastUse'[k]
      BY DEF Since
    <3>1. CASE l = key BY <1>2, <1>3, <1>5, <3>1
    <3>2. CASE l # key BY <1>3, <3>2
    <3> QED BY <3>1, <3>2
  <2>2. IsFiniteSet(later)
    BY CacheAssumption, FS_Subset
  <2> QED BY <2>1, <2>2, FS_Subset
<1> QED BY <1>2, <1>3, <1>4, <1>6, <1>7

LEMMA EntryFacts ==
    ASSUME NEW e \in Entry
    PROVE  /\ e.place \in Nat \ {0} /\ e.readAt \in Nat /\ e.ttl \in Nat \ {0}
           /\ e.ttl \in Ttls /\ e.expiresAt \in Nat
BY CacheAssumption DEF Entry

LEMMA CacheTypes ==
    ASSUME CacheInv
    PROVE  /\ clock \in Nat /\ uses \in Nat /\ MaxLoad \in Nat /\ Ttls \subseteq Nat \ {0}
           /\ MaxEntries \in Nat /\ IsFiniteSet(Cached) /\ Cached \subseteq Keys
           /\ Cardinality(Cached) <= MaxEntries
           /\ lastUse \in [Keys -> 0 .. uses]
           /\ Len(loads) \in Nat /\ DOMAIN loads = 1 .. Len(loads)
           /\ \A i \in DOMAIN loads : loads[i] \in [key : Keys, readAt : Nat, ttl : Ttls]
           /\ \A k \in Cached :
                 /\ entries[k] \in Entry /\ entries[k].place = lastUse[k]
                 /\ entries[k].expiresAt <= entries[k].readAt + MaxLoad + entries[k].ttl
<1>1. Cached \subseteq Keys BY DEF CacheInv, CacheTypeOK
<1>2. IsFiniteSet(Cached) BY <1>1, FS_Subset, CacheAssumption
<1>3. clock \in Nat /\ uses \in Nat /\ lastUse \in [Keys -> 0 .. uses]
      /\ Cardinality(Cached) <= MaxEntries
  BY CacheAssumption DEF CacheInv, CacheTypeOK
<1>4. Len(loads) \in Nat /\ DOMAIN loads = 1 .. Len(loads)
      /\ \A i \in DOMAIN loads : loads[i] \in [key : Keys, readAt : Nat, ttl : Ttls]
  <2> DEFINE L == [key : Keys, readAt : Nat, ttl : Ttls]
  <2>1. loads \in Seq(L) BY Zenon DEF CacheInv
  <2> HIDE DEF L
  <2>2. Len(loads) \in Nat /\ DOMAIN loads = 1 .. Len(loads)
        /\ \A i \in 1 .. Len(loads) : loads[i] \in L
    BY <2>1
  <2> QED BY <2>2 DEF L
<1>5. \A k \in Cached :
         /\ entries[k] \in Entry /\ entries[k].place = lastUse[k]
         /\ entries[k].expiresAt <= entries[k].readAt + MaxLoad + entries[k].ttl
  BY DEF CacheInv
<1> QED BY <1>1, <1>2, <1>3, <1>4, <1>5, CacheAssumption

LEMMA HitInv ==
    ASSUME CacheInv, NEW key \in Keys, Hit(key)
    PROVE  CacheInv'
<1> DEFINE e == entries[key]
           f == Refreshed(e)
<1>1. key \in Cached /\ ~ Expired(e) /\ Used(key) /\ e \in Entry
      /\ e.expiresAt <= e.readAt + MaxLoad + e.ttl
  BY CacheTypes DEF Hit
<1>2. /\ f \in Entry /\ f.place = uses + 1 /\ f.readAt = e.readAt /\ f.ttl = e.ttl
      /\ f.expiresAt = e.expiresAt
  <2>1. uses + 1 \in Nat \ {0} BY CacheTypes
  <2>2. f = [place |-> uses + 1, readAt |-> e.readAt, ttl |-> e.ttl, expiresAt |-> e.expiresAt]
    BY <1>1 DEF Refreshed, Entry
  <2> QED BY <1>1, <2>1, <2>2, EntryFacts DEF Entry
<1>3. Cached' = Cached /\ entries' = [k \in Cached |-> IF k = key THEN f ELSE entries[k]]
  BY <1>1 DEF Hit, With, Cached
<1>4. /\ Len(loads) \in Nat /\ loads' = loads /\ clock' = clock /\ dropped' = dropped
  BY CacheTypes DEF Hit
<1> HIDE DEF f
<1>5. ASSUME NEW k \in Cached
      PROVE  entries'[k].place = lastUse'[k] /\ entries'[k].ttl \in Ttls
             /\ entries'[k].place \in 1 .. uses'
  <2>1. CASE k = key
    <3>1. lastUse'[key] = uses + 1 /\ uses' = uses + 1 BY <1>1, UseFacts
    <3> QED BY <1>1, <1>2, <1>3, <2>1, <3>1, CacheTypes, EntryFacts
  <2>2. CASE k # key
    <3>1. k \in Keys /\ entries'[k] = entries[k] /\ entries[k] \in Entry
          /\ entries[k].place = lastUse[k]
      BY <1>3, <2>2, CacheTypes
    <3>2. lastUse'[k] = lastUse[k] /\ lastUse[k] \in 0 .. uses /\ uses' = uses + 1
      BY <1>1, <2>2, <3>1, UseFacts, CacheTypes
    <3>3. entries[k].place \in Nat \ {0} /\ entries[k].ttl \in Ttls
      BY <3>1, EntryFacts
    <3> QED BY <3>1, <3>2, <3>3, CacheTypes
  <2> QED BY <2>1, <2>2
<1>6. CacheTypeOK'
  <2>1. lastUse' \in [Keys -> 0 .. uses'] /\ uses' \in 0 .. MaxUses
    BY <1>1, UseFacts
  <2> QED BY <1>3, <1>4, <1>5, <2>1 DEF CacheInv, CacheTypeOK
<1>7. entries' \in [Cached' -> Entry]
  <2>1. \A k \in Cached : entries'[k] \in Entry
    BY <1>2, <1>3, CacheTypes
  <2> QED BY <1>3, <2>1
<1>8. \A k \in Cached' : entries'[k].expiresAt <= entries'[k].readAt + MaxLoad + entries'[k].ttl
  BY <1>1, <1>2, <1>3, CacheTypes
<1>9. ServedIsRecent'
  <2>1. served'.age = clock - e.readAt /\ served'.ttl = e.ttl
    BY DEF Hit, Served
  <2>2. e.readAt \in Nat /\ e.ttl \in Nat /\ e.expiresAt \in Nat
    BY <1>1, EntryFacts
  <2>3. clock < e.expiresAt /\ clock \in Nat /\ MaxLoad \in Nat
        /\ e.expiresAt <= e.readAt + MaxLoad + e.ttl
    BY <1>1, <2>2, CacheTypes DEF Expired
  <2>4. clock - e.readAt < e.ttl + MaxLoad
    <3> HIDE DEF e
    <3> QED BY <2>2, <2>3
  <2> QED BY <2>1, <2>4 DEF ServedIsRecent
<1>10. RecentlyUsedIsKept'
  <2> SUFFICES ASSUME NEW k \in Keys \ dropped, lastUse'[k] > 0,
                      Cardinality({l \in Keys : lastUse'[l] > lastUse'[k]}) < MaxEntries
               PROVE  k \in Cached
    BY <1>3, <1>4 DEF RecentlyUsedIsKept
  <2>1. CASE k = key BY <1>1, <2>1
  <2>2. CASE k # key
    <3>1. lastUse[k] > 0 BY <1>1, <2>2, UseFacts
    <3>2. Cardinality(Since(k)) <= Cardinality({l \in Keys : lastUse'[l] > lastUse'[k]})
      BY <1>1, <2>2, UseFacts
    <3>3. Cardinality({l \in Keys : lastUse'[l] > lastUse'[k]}) \in Nat
      BY CacheAssumption, FS_Subset, FS_CardinalityType
    <3>4. Cardinality(Since(k)) < MaxEntries
      BY <3>2, <3>3, SinceCount, CacheAssumption
    <3> QED BY <3>1, <3>4 DEF CacheInv, RecentlyUsedIsKept, Since
  <2> QED BY <2>1, <2>2
<1>11. \A k, l \in Keys : lastUse'[k] = lastUse'[l] /\ lastUse'[k] > 0 => k = l
  BY <1>1, UseFacts
<1>12. loads' \in Seq([key : Keys, readAt : Nat, ttl : Ttls])
       /\ \A i \in DOMAIN loads' : clock' <= loads'[i].readAt + MaxLoad
  BY <1>4 DEF CacheInv
<1> QED BY <1>3, <1>5, <1>6, <1>7, <1>8, <1>9, <1>10, <1>11, <1>12 DEF CacheInv

\* Taking entries out of the Map leaves the others as they are.
LEMMA RestrictedInv ==
    ASSUME CacheInv, NEW keys \in SUBSET Keys, entries' = Without(keys),
           dropped' = dropped \cup (keys \cap Cached),
           served' = served, clock' = clock, uses' = uses, lastUse' = lastUse,
           loads' \in Seq([key : Keys, readAt : Nat, ttl : Ttls]), Len(loads') <= MaxLoads,
           \A i \in DOMAIN loads' : clock <= loads'[i].readAt + MaxLoad
    PROVE  CacheInv'
<1>1. Cached' = Cached \ keys /\ \A k \in Cached' : entries'[k] = entries[k]
  BY DEF Without, Restrict, Cached
<1>2. Cardinality(Cached') <= MaxEntries
  <2>1. Cardinality(Cached') <= Cardinality(Cached) /\ Cardinality(Cached') \in Nat
        /\ Cardinality(Cached) \in Nat
    BY <1>1, CacheTypes, FS_Subset, FS_CardinalityType
  <2> QED BY <2>1, CacheTypes
<1>3. CacheTypeOK'
  <2>1. \A k \in Cached' : entries'[k].place \in 1 .. uses /\ entries'[k].ttl \in Ttls
    BY <1>1 DEF CacheInv, CacheTypeOK
  <2> QED BY <1>1, <1>2, <2>1 DEF CacheInv, CacheTypeOK
<1>4. entries' \in [Cached' -> Entry]
  <2>1. entries' = [k \in Cached' |-> entries[k]]
    BY <1>1 DEF Without, Restrict
  <2> QED BY <1>1, <2>1, CacheTypes
<1>5. \A k \in Cached' :
         /\ entries'[k].place = lastUse'[k]
         /\ entries'[k].expiresAt <= entries'[k].readAt + MaxLoad + entries'[k].ttl
  BY <1>1 DEF CacheInv
<1>6. ServedIsRecent' BY DEF CacheInv, ServedIsRecent
<1>7. RecentlyUsedIsKept'
  BY <1>1 DEF CacheInv, RecentlyUsedIsKept
<1>8. \A k, l \in Keys : lastUse'[k] = lastUse'[l] /\ lastUse'[k] > 0 => k = l
  BY DEF CacheInv
<1> QED BY <1>3, <1>4, <1>5, <1>6, <1>7, <1>8 DEF CacheInv

LEMMA MissInv ==
    ASSUME CacheInv, NEW key \in Keys, NEW ttl \in Ttls, Miss(key, ttl)
    PROVE  CacheInv'
<1> DEFINE load == [key |-> key, readAt |-> clock, ttl |-> ttl]
           L == [key : Keys, readAt : Nat, ttl : Ttls]
<1>1. loads' = Append(loads, load) /\ load \in L /\ loads \in Seq(L)
  BY CacheTypes DEF Miss, CacheInv
<1>2. load.readAt = clock OBVIOUS
<1> HIDE DEF load, L
<1>3. /\ loads' \in Seq(L) /\ Len(loads') = Len(loads) + 1
      /\ \A i \in 1 .. Len(loads) : loads'[i] = loads[i]
      /\ loads'[Len(loads) + 1] = load
  BY <1>1, AppendProperties
<1>4. Len(loads') <= MaxLoads
  BY <1>3, CacheTypes, CacheAssumption DEF Miss
<1>5. \A i \in DOMAIN loads' : clock <= loads'[i].readAt + MaxLoad
  <2> SUFFICES ASSUME NEW i \in 1 .. Len(loads) + 1
               PROVE  clock <= loads'[i].readAt + MaxLoad
    BY <1>3
  <2>1. CASE i = Len(loads) + 1
    BY <1>2, <1>3, <2>1, CacheTypes
  <2>2. CASE i # Len(loads) + 1
    <3>1. i \in DOMAIN loads BY <2>2, CacheTypes
    <3> QED BY <1>3, <2>2, <3>1, CacheTypes DEF CacheInv
  <2> QED BY <2>1, <2>2
<1> QED BY <1>3, <1>4, <1>5, RestrictedInv DEF Miss, L

\* A producer that is no longer awaited.
LEMMA RemovedLoad ==
    ASSUME CacheInv, NEW i \in DOMAIN loads, loads' = RemoveAt(loads, i)
    PROVE  /\ loads' \in Seq([key : Keys, readAt : Nat, ttl : Ttls]) /\ Len(loads') <= MaxLoads
           /\ \A j \in DOMAIN loads' : clock <= loads'[j].readAt + MaxLoad
<1> DEFINE L == [key : Keys, readAt : Nat, ttl : Ttls]
<1>1. loads \in Seq(L) /\ i \in 1 .. Len(loads) /\ Len(loads) <= MaxLoads
  BY CacheTypes DEF CacheInv, CacheTypeOK
<1> HIDE DEF L
<1>2. /\ loads' \in Seq(L) /\ Len(loads') = Len(loads) - 1
      /\ \A k \in 1 .. (Len(loads) - 1) :
            loads'[k] = IF k < i THEN loads[k] ELSE loads[k + 1]
  BY <1>1, RemoveAtFacts
<1>3. ASSUME NEW j \in DOMAIN loads'
      PROVE  clock <= loads'[j].readAt + MaxLoad
  <2>1. j \in 1 .. (Len(loads) - 1) /\ j \in DOMAIN loads /\ j + 1 \in DOMAIN loads
    BY <1>2, CacheTypes
  <2>2. loads'[j] = loads[j] \/ loads'[j] = loads[j + 1]
    BY <1>2, <2>1
  <2> QED BY <2>1, <2>2 DEF CacheInv
<1> QED BY <1>1, <1>2, <1>3, CacheTypes, CacheAssumption DEF L

LEMMA DeleteInv ==
    ASSUME CacheInv, NEW keys \in SUBSET Keys, Delete(keys)
    PROVE  CacheInv'
<1>1. loads' \in Seq([key : Keys, readAt : Nat, ttl : Ttls]) /\ Len(loads') <= MaxLoads
      /\ \A i \in DOMAIN loads' : clock <= loads'[i].readAt + MaxLoad
  BY DEF Delete, CacheInv, CacheTypeOK
<1> QED BY <1>1, RestrictedInv DEF Delete

LEMMA LoadFailsInv ==
    ASSUME CacheInv, NEW i \in DOMAIN loads, LoadFails(i)
    PROVE  CacheInv'
<1>1. entries' = Without({}) /\ dropped' = dropped \cup ({} \cap Cached)
  BY DEF LoadFails, Without, Restrict, Cached, CacheInv
<1> QED BY <1>1, RemovedLoad, RestrictedInv DEF LoadFails

LEMMA ClockTicksInv ==
    ASSUME CacheInv, ClockTicks
    PROVE  CacheInv'
<1>1. CacheTypeOK'
  BY CacheAssumption DEF ClockTicks, CacheInv, CacheTypeOK, Cached
<1>2. \A i \in DOMAIN loads' : clock' <= loads'[i].readAt + MaxLoad
  <2> SUFFICES ASSUME NEW i \in DOMAIN loads PROVE clock + 1 <= loads[i].readAt + MaxLoad
    BY DEF ClockTicks
  <2>1. clock < loads[i].readAt + MaxLoad /\ clock \in Nat /\ MaxLoad \in Nat
        /\ loads[i].readAt \in Nat
    BY CacheTypes DEF ClockTicks
  <2> QED BY <2>1
<1>3. ServedIsRecent' /\ RecentlyUsedIsKept'
  BY DEF ClockTicks, CacheInv, ServedIsRecent, RecentlyUsedIsKept, Cached
<1> QED BY <1>1, <1>2, <1>3 DEF ClockTicks, CacheInv, Cached

LEMMA LoadedInv ==
    ASSUME CacheInv, NEW i \in DOMAIN loads, Loaded(i)
    PROVE  CacheInv'
<1> DEFINE load == loads[i]
           e == [place |-> uses + 1, readAt |-> load.readAt, ttl |-> load.ttl,
                 expiresAt |-> clock + load.ttl]
           map == With(load.key, e)
           key == load.key
<1>1. /\ served' = Served(e) /\ entries' = Kept(map) /\ Used(key)
      /\ dropped' = (dropped \ {key}) \cup {k \in DOMAIN map : Expired(map[k])}
      /\ loads' = RemoveAt(loads, i) /\ clock' = clock
  BY Zenon DEF Loaded
<1>2. key \in Keys /\ load.readAt \in Nat /\ load.ttl \in Ttls /\ load.ttl \in Nat \ {0}
      /\ clock <= load.readAt + MaxLoad /\ clock \in Nat /\ uses \in Nat /\ MaxLoad \in Nat
  BY CacheTypes DEF CacheInv
<1>3. /\ e \in Entry /\ e.place = uses + 1 /\ e.readAt = load.readAt /\ e.ttl = load.ttl
      /\ e.expiresAt = clock + load.ttl
  BY <1>2 DEF Entry
<1>4. /\ DOMAIN map = Cached \cup {key} /\ map[key] = e
      /\ \A k \in Cached \ {key} : map[k] = entries[k]
  BY DEF With
<1> HIDE DEF e, map, load, key
<1>5. \A k \in DOMAIN map :
         /\ k \in Keys /\ map[k] \in Entry
         /\ map[k].place = lastUse'[k]
         /\ map[k].expiresAt <= map[k].readAt + MaxLoad + map[k].ttl
  <2> SUFFICES ASSUME NEW k \in DOMAIN map
               PROVE  /\ k \in Keys /\ map[k] \in Entry
                      /\ map[k].place = lastUse'[k]
                      /\ map[k].expiresAt <= map[k].readAt + MaxLoad + map[k].ttl
    OBVIOUS
  <2>1. CASE k = key
    <3>1. clock + load.ttl <= load.readAt + MaxLoad + load.ttl
      BY <1>2
    <3>2. lastUse'[key] = uses + 1
      BY <1>1, <1>2, UseFacts
    <3> QED BY <1>2, <1>3, <1>4, <2>1, <3>1, <3>2
  <2>2. CASE k # key
    <3>1. k \in Cached /\ map[k] = entries[k] /\ k \in Keys
      BY <1>4, <2>2, CacheTypes
    <3>2. lastUse'[k] = lastUse[k]
      BY <1>1, <1>2, <2>2, <3>1, UseFacts
    <3> QED BY <3>1, <3>2, CacheTypes
  <2> QED BY <2>1, <2>2
<1>6. IsFiniteSet(DOMAIN map)
  BY <1>4, CacheTypes, FS_AddElement
<1>7. \A k \in DOMAIN map : map[k].place \in Nat /\ map[k].place > 0
  <2> SUFFICES ASSUME NEW k \in DOMAIN map PROVE map[k].place \in Nat /\ map[k].place > 0
    OBVIOUS
  <2>1. map[k].place \in Nat \ {0} BY <1>5, EntryFacts
  <2> QED BY <2>1
<1>8. \A k, l \in DOMAIN map : map[k].place = map[l].place => k = l
  <2> SUFFICES ASSUME NEW k \in DOMAIN map, NEW l \in DOMAIN map,
                      map[k].place = map[l].place
               PROVE  k = l
    OBVIOUS
  <2>1. k \in Keys /\ l \in Keys /\ lastUse'[k] = lastUse'[l] /\ lastUse'[k] > 0
    BY <1>5, <1>7
  <2> QED BY <1>1, <1>2, <2>1, UseFacts
<1>9. Cached' \subseteq DOMAIN map /\ \A k \in Cached' : entries'[k] = map[k]
  BY <1>1 DEF Kept, Restrict, Living, Cached
<1>10. Cardinality(Cached') <= MaxEntries
  <2>1. Cached' = DOMAIN Kept(map) BY <1>1 DEF Cached
  <2>2. Cardinality(DOMAIN Kept(map)) <= MaxEntries
    BY <1>6, <1>7, <1>8, KeptFits
  <2> QED BY <2>1, <2>2
<1>11. Len(loads') <= MaxLoads
       /\ loads' \in Seq([key : Keys, readAt : Nat, ttl : Ttls])
       /\ \A j \in DOMAIN loads' : clock' <= loads'[j].readAt + MaxLoad
  BY <1>1, RemovedLoad
<1>12. \A k \in Cached' :
          /\ entries'[k].place = lastUse'[k]
          /\ entries'[k].expiresAt <= entries'[k].readAt + MaxLoad + entries'[k].ttl
  BY <1>5, <1>9
<1>13. CacheTypeOK'
  <2>1. lastUse' \in [Keys -> 0 .. uses'] /\ uses' \in 0 .. MaxUses
    BY <1>1, <1>2, UseFacts
  <2>2. \A k \in Cached' : entries'[k].place \in 1 .. uses' /\ entries'[k].ttl \in Ttls
    <3> SUFFICES ASSUME NEW k \in Cached'
                 PROVE  entries'[k].place \in 1 .. uses' /\ entries'[k].ttl \in Ttls
      OBVIOUS
    <3>1. entries'[k] = map[k] /\ map[k] \in Entry /\ k \in Keys
      BY <1>5, <1>9
    <3>2. entries'[k].place \in Nat \ {0} /\ entries'[k].ttl \in Ttls
      BY <3>1, EntryFacts
    <3>3. entries'[k].place \in 0 .. uses'
      BY <1>12, <2>1, <3>1
    <3> QED BY <3>2, <3>3
  <2>3. Cached' \subseteq Keys
    BY <1>5, <1>9
  <2>4. dropped' \subseteq Keys
    BY <1>1, <1>5 DEF CacheInv, CacheTypeOK
  <2>5. clock' \in 0 .. MaxClock
    BY <1>1 DEF CacheInv, CacheTypeOK
  <2> QED BY <1>10, <1>11, <2>1, <2>2, <2>3, <2>4, <2>5 DEF CacheTypeOK
<1>14. entries' \in [Cached' -> Entry]
  <2>1. entries' = [k \in Cached' |-> entries'[k]]
    BY <1>1 DEF Kept, Restrict, Cached
  <2>2. \A k \in Cached' : entries'[k] \in Entry
    BY <1>5, <1>9
  <2> QED BY <2>1, <2>2
<1>15. ServedIsRecent'
  <2>1. served'.age = clock - load.readAt /\ served'.ttl = load.ttl
    BY <1>1, <1>3 DEF Served
  <2>2. clock - load.readAt < load.ttl + MaxLoad
    BY <1>2
  <2> QED BY <2>1, <2>2 DEF ServedIsRecent
<1>16. RecentlyUsedIsKept'
  <2> SUFFICES ASSUME NEW k \in Keys \ dropped', lastUse'[k] > 0,
                      Cardinality({l \in Keys : lastUse'[l] > lastUse'[k]}) < MaxEntries
               PROVE  k \in Cached'
    BY DEF RecentlyUsedIsKept
  <2> DEFINE later == {l \in Keys : lastUse'[l] > lastUse'[k]}
  <2>1. IsFiniteSet(later) /\ Cardinality(later) \in Nat /\ Cardinality(later) < MaxEntries
    BY CacheAssumption, FS_Subset, FS_CardinalityType
  <2>2. k \in DOMAIN map
    <3>1. CASE k = key BY <1>4, <3>1
    <3>2. CASE k # key
      <4>1. lastUse[k] > 0 BY <1>1, <1>2, <3>2, UseFacts
      <4>2. Cardinality(Since(k)) <= Cardinality(later)
        BY <1>1, <1>2, <3>2, UseFacts
      <4>3. Cardinality(Since(k)) < MaxEntries
        BY <2>1, <4>2, SinceCount, CacheAssumption
      <4>4. k \in Keys \ dropped BY <1>1, <3>2
      <4>5. k \in Cached
        BY <4>1, <4>3, <4>4 DEF CacheInv, RecentlyUsedIsKept, Since
      <4> QED BY <1>4, <4>5
    <3> QED BY <3>1, <3>2
  <2>3. k \in Living(map)
    <3>1. ~ Expired(map[k])
      <4> SUFFICES ASSUME Expired(map[k]) PROVE FALSE
        OBVIOUS
      <4> QED BY <1>1, <2>2
    <3> QED BY <2>2, <3>1 DEF Living
  <2>4. Later(map, k) \subseteq later
    <3> SUFFICES ASSUME NEW l \in Later(map, k) PROVE l \in later
      OBVIOUS
    <3>1. l \in DOMAIN map /\ map[l].place > map[k].place
      BY DEF Later, Living
    <3> QED BY <1>5, <2>2, <3>1
  <2>5. Cardinality(Later(map, k)) < MaxEntries
    <3>1. Cardinality(Later(map, k)) <= Cardinality(later)
          /\ Cardinality(Later(map, k)) \in Nat
      BY <2>1, <2>4, FS_Subset, FS_CardinalityType
    <3> QED BY <2>1, <3>1, CacheAssumption
  <2> QED BY <1>1, <2>3, <2>5 DEF Kept, Restrict, Cached
<1>17. \A k, l \in Keys : lastUse'[k] = lastUse'[l] /\ lastUse'[k] > 0 => k = l
  BY <1>1, <1>2, UseFacts
<1> QED BY <1>11, <1>12, <1>13, <1>14, <1>15, <1>16, <1>17 DEF CacheInv

LEMMA CacheStepInv == CacheInv /\ [CacheNext]_cacheVars => CacheInv'
<1> SUFFICES ASSUME CacheInv, [CacheNext]_cacheVars
             PROVE  CacheInv'
  OBVIOUS
<1>1. ASSUME NEW key \in Keys, Hit(key)
      PROVE  CacheInv'
  BY <1>1, HitInv
<1>2. ASSUME NEW key \in Keys, NEW ttl \in Ttls, Miss(key, ttl)
      PROVE  CacheInv'
  BY <1>2, MissInv
<1>3. ASSUME NEW i \in DOMAIN loads, Loaded(i) \/ LoadFails(i)
      PROVE  CacheInv'
  BY <1>3, LoadedInv, LoadFailsInv
<1>4. ASSUME NEW keys \in {{key} : key \in Keys} \cup {Keys}, Delete(keys)
      PROVE  CacheInv'
  <2>1. keys \in SUBSET Keys OBVIOUS
  <2> QED BY <1>4, <2>1, DeleteInv
<1>5. CASE ClockTicks
  BY <1>5, ClockTicksInv
<1>6. CASE UNCHANGED cacheVars
  BY <1>6 DEF cacheVars, CacheInv, CacheTypeOK, Cached, ServedIsRecent, RecentlyUsedIsKept
<1> QED BY <1>1, <1>2, <1>3, <1>4, <1>5, <1>6 DEF CacheNext

LEMMA CacheInvariance == CacheSpec => []CacheInv
<1> QED BY CacheInitInv, CacheStepInv, PTL DEF CacheSpec

\* What wrap and get serve was the state of the contract no longer ago than its lifetime and
\* the time a producer takes.
THEOREM ServedValuesAreRecent == CacheSpec => []ServedIsRecent
<1>1. CacheInv => ServedIsRecent BY DEF CacheInv
<1> QED BY <1>1, CacheInvariance, PTL

\* evict takes the least recently used, whatever was deleted and put back before.
THEOREM RecentlyUsedStay == CacheSpec => []RecentlyUsedIsKept
<1>1. CacheInv => RecentlyUsedIsKept BY DEF CacheInv
<1> QED BY <1>1, CacheInvariance, PTL

-----------------------------------------------------------------------------
(* All parts: one moves, the others stand still.                            *)

PartsInv ==
    /\ SubmissionInv /\ CacheInv /\ BuilderTypeOK /\ DisputeInv
    /\ ListingInv /\ DashboardInv /\ FormInv

LEMMA PartsInitInv == MCInit => PartsInv
BY SubmissionInitInv, CacheInitInv, BuilderInitInv, DisputeInitInv, ListingInitInv,
   DashboardInitInv, FormInitInv DEF MCInit, PartsInv

\* A step of all parts is a step of each, or leaves it as it is.
LEMMA PartsSteps ==
    ASSUME [MCNext]_mcVars
    PROVE  /\ [SubmissionNext]_submissionVars /\ [CacheNext]_cacheVars
           /\ [BuilderNext]_builderVars /\ [DisputeNext]_disputeVars
           /\ [ListingNext]_listingVars /\ [DashboardNext]_dashboardVars
           /\ [FormNext]_formVars
<1>1. CASE SubmissionNext /\ Move("submission")
  BY <1>1, Zenon DEF Move
<1>2. CASE CacheNext /\ Move("cache")
  BY <1>2, Zenon DEF Move
<1>3. CASE BuilderNext /\ Move("builder")
  BY <1>3, Zenon DEF Move
<1>4. CASE DisputeNext /\ Move("dispute")
  BY <1>4, Zenon DEF Move
<1>5. CASE ListingNext /\ Move("listing")
  BY <1>5, Zenon DEF Move
<1>6. CASE DashboardNext /\ Move("dashboard")
  BY <1>6, Zenon DEF Move
<1>7. CASE FormNext /\ Move("form")
  BY <1>7, Zenon DEF Move
<1>8. CASE UNCHANGED mcVars
  BY <1>8, Zenon DEF mcVars
<1> QED BY <1>1, <1>2, <1>3, <1>4, <1>5, <1>6, <1>7, <1>8, Zenon DEF MCNext

LEMMA PartsStepInv == PartsInv /\ [MCNext]_mcVars => PartsInv'
BY PartsSteps, SubmissionNextInv, CacheStepInv, BuilderStepInv, DisputeStepInv,
   ListingStepInv, DashboardStepInv, FormStepInv, Zenon DEF PartsInv

\* The states of the request, the cache, the builders, the list, the dashboard and the form
\* have their types, whichever of them moves.
THEOREM PartsAreTyped == MCSpec => []PartsTypeOK
<1>1. PartsInv => PartsTypeOK
  BY DEF PartsInv, SubmissionInv, CacheInv, DisputeInv, ListingInv, DashboardInv, FormInv,
         PartsTypeOK
<1> QED BY <1>1, PartsInitInv, PartsStepInv, PTL DEF MCSpec
=============================================================================
