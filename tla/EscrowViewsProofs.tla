-------------------------- MODULE EscrowViewsProofs --------------------------
(***************************************************************************)
(* What others make of the contract's records, for every number of          *)
(* milestones, every schedule and every set of inputs: the contract          *)
(* implements the pot of Custody, the SDK's projections tell the truth, and  *)
(* whoever is owed something from the pot can get it.                        *)
(***************************************************************************)
EXTENDS EscrowCustody, EscrowProjections, EscrowBookProofs

-----------------------------------------------------------------------------
(* The invariant of the refinement. *)

\* Before the deposit every payout is positive, and so is every proposed one:
\* what makes the deposit put something into the pot.
Positive ==
    /\ state = "Pending" => \A i \in Ids : milestones[i].payout > 0
    /\ amendment # NoAmendment => amendment.payout > 0

PotInv == BookInv /\ CountInv /\ NeverPaidEarly /\ Positive

LEMMA PositiveStep == TypeOK /\ Positive /\ [Next]_vars => Positive'
<1> SUFFICES ASSUME TypeOK, Positive, [Next]_vars PROVE Positive'
  OBVIOUS
<1>1. CASE UNCHANGED <<amendment, state, milestones>>
  BY <1>1 DEF Positive
<1>2. CASE state' # "Pending" /\ UNCHANGED amendment
  BY <1>2 DEF Positive
<1>3. ASSUME NEW auth \in AuthSets, NEW p \in PartyChoices, NEW s \in Schedules,
             Initialize(auth, p, s)
      PROVE  Positive'
  BY <1>3 DEF Initialize, FreshMilestone, Positive
<1>4. ASSUME NEW auth \in AuthSets, Setup(auth) PROVE Positive'
  BY <1>1, <1>2, <1>3, <1>4 DEF Setup, SetLatePenaltyBps, ConfigureProtocolFee,
     ConfigureArbitrators, DepositFunds, schedule
<1>5. ASSUME NEW auth \in AuthSets, Delivery(auth) PROVE Positive'
  BY <1>2, <1>5 DEF Delivery, SubmitMilestoneProof, ApproveMilestone, StateAfterApproval,
     StreamMilestonePayout, AcceptsStream, StreamableStates, ApplyLatePenalty
<1>6. ASSUME NEW auth \in AuthSets, Dispute(auth) PROVE Positive'
  BY <1>2, <1>6 DEF Dispute, RaiseDispute, AppendDisputeEvidence, ResolveDispute,
     SettleDisputeQuorum, Settle
<1>7. ASSUME NEW auth \in AuthSets, ApproveAmendment(auth) PROVE Positive'
  <2>1. /\ milestones \in [Ids -> Milestone]
        /\ amendment.payout > 0 /\ amendment' = NoAmendment /\ state' = state
    BY <1>7 DEF ApproveAmendment, Positive, TypeOK
  <2>2. CASE state = "Pending"
    <3>1. milestones' = [milestones EXCEPT ![amendment.id].payout = amendment.payout]
      BY <1>7, <2>2 DEF ApproveAmendment, Repriced
    <3> QED BY <2>1, <3>1 DEF Positive, Milestone
  <2> QED BY <2>1, <2>2 DEF Positive
<1>8. ASSUME NEW auth \in AuthSets, Amend(auth) PROVE Positive'
  BY <1>7, <1>8 DEF Amend, RequestMilestoneAmendment, Positive, schedule
<1>9. ASSUME NEW auth \in AuthSets,
             ClaimTimeoutRefund(auth) \/ EmergencyPause(auth) \/ EmergencyUnpause(auth)
      PROVE  Positive'
  BY <1>1, <1>2, <1>9 DEF ClaimTimeoutRefund, EmergencyPause, EmergencyUnpause, schedule
<1>10. CASE CloseLedger
  BY <1>1, <1>10 DEF CloseLedger, schedule
<1>11. CASE UNCHANGED vars
  BY <1>1, <1>11 DEF vars, schedule
<1> QED BY <1>4, <1>5, <1>6, <1>8, <1>9, <1>10, <1>11 DEF Next, Invocation

LEMMA PotInvariance == Spec => []PotInv
<1>1. Init => Positive /\ NeverPaidEarly
  BY DEF Init, FreshMilestone, NeverPaidEarly, Positive
<1>2. Init => BookInv /\ CountInv
  BY BookInit, CountInit
<1>3. BookInv => TypeOK
  BY DEF BookInv, CoreInv
<1> QED BY <1>1, <1>2, <1>3, BookStep, CountStep, EarnedStep, PositiveStep, PTL
        DEF Spec, PotInv

\* The promised part of the pot is a natural number, and nothing of it is
\* promised while nothing is approved.
PromiseBounded ==
    /\ UnstreamedObligation \in Nat
    /\ ~ Funded => UnstreamedObligation = 0
    /\ Locked \in Nat

LEMMA PromisedBounds == PotInv => PromiseBounded
<1> SUFFICES ASSUME PotInv PROVE PromiseBounded
  OBVIOUS
<1> DEFINE z == [i \in Ids |-> 0]
<1>1. TypeOK /\ Solvent
  BY DEF PotInv, BookInv, CoreInv
<1>2. ASSUME NEW i \in 1 .. N
      PROVE  Owed[i] \in Int /\ z[i] \in Int /\ z[i] <= Owed[i] /\ z[i] = 0
  <2>1. i \in Ids /\ milestones[i] \in Milestone
    BY <1>1 DEF TypeOK, Ids
  <2>2. milestones[i].payout \in Nat /\ milestones[i].streamed \in Nat
    BY <2>1 DEF Milestone
  <2>3. milestones[i].isApproved => milestones[i].streamed <= milestones[i].payout
    BY <2>1 DEF PotInv, NeverPaidEarly
  <2> QED BY <2>1, <2>2, <2>3 DEF Owed
<1>3. ~ Funded => \A i \in 1 .. N : Owed[i] = 0
  BY DEF PotInv, BookInv, Owed, Ids
<1> HIDE DEF z
<1>4. SumTo(Owed, N) \in Int /\ SumTo(z, N) <= SumTo(Owed, N) /\ SumTo(z, N) = 0
  BY <1>2, SumInt, SumLeq, SumZero, ConstantsAssumption
<1>5. ~ Funded => SumTo(Owed, N) = 0
  BY <1>3, SumZero, ConstantsAssumption
<1>6. Locked \in Nat
  <2>1. tokens[Contract] \in Nat
    BY <1>1, ConstantsAssumption DEF TypeOK
  <2> QED BY <1>1, <2>1 DEF Solvent
<1> QED BY <1>4, <1>5, <1>6 DEF PromiseBounded, UnstreamedObligation

\* What the milestones can still cost.
Unpaid == [i \in Ids |-> milestones[i].payout - milestones[i].streamed]

\* In a funded escrow that is not wound up, what is locked is what can still be paid.
LEMMA LockedIsUnpaid ==
    ASSUME PotInv, Funded, ~ Settled, state # "Cancelled"
    PROVE  /\ Locked = SumTo(Unpaid, N)
           /\ \A i \in 1 .. N : Unpaid[i] \in Int /\ Owed[i] \in Int /\ Owed[i] <= Unpaid[i]
<1> DEFINE f == [i \in Ids |-> milestones[i].payout]
           g == [i \in Ids |-> milestones[i].streamed]
<1>1. TypeOK
  BY DEF PotInv, BookInv, CoreInv
<1>2. ASSUME NEW i \in 1 .. N
      PROVE  /\ f[i] \in Int /\ g[i] \in Int
             /\ Unpaid[i] \in Int /\ Unpaid[i] = f[i] - g[i]
             /\ Owed[i] \in Int /\ Owed[i] <= Unpaid[i]
  <2>1. i \in Ids /\ milestones[i] \in Milestone
    BY <1>1 DEF TypeOK, Ids
  <2>2. milestones[i].payout \in Nat /\ milestones[i].streamed \in Nat
    BY <2>1 DEF Milestone
  <2>3. ~ milestones[i].isApproved => milestones[i].streamed = 0
    BY <2>1 DEF PotInv, BookInv
  <2>4. Listed(i)
    BY <2>1 DEF PotInv, BookInv, OrderListsAll, Listed
  <2> QED BY <2>1, <2>2, <2>3, <2>4 DEF Owed, Unpaid
<1> HIDE DEF f, g
<1>3. /\ SumTo(Unpaid, N) = SumTo(f, N) - SumTo(g, N)
      /\ SumTo(f, N) \in Int /\ SumTo(g, N) \in Int
  BY <1>2, SumDifference, SumInt, ConstantsAssumption
<1>4. /\ book.deposited = config.total /\ book.released = SumTo(g, N)
      /\ book.refunded = config.total - SumTo(f, N)
  BY DEF PotInv, BookInv, BookMatchesMilestones, StreamedTotal, PayoutTotal, f, g
<1>5. config.total \in Int
  BY <1>1 DEF TypeOK, Config
<1>6. Locked = SumTo(Unpaid, N)
  BY <1>3, <1>4, <1>5 DEF Locked
<1> QED BY <1>2, <1>6

\* Such an escrow covers what is promised, and all of what it holds is promised once
\* every milestone is approved.
PromiseCovered ==
    Funded /\ ~ Settled /\ state # "Cancelled"
      => /\ UnstreamedObligation <= Locked
         /\ Done = Ids => UnstreamedObligation = Locked

LEMMA PotCoversPromises == PotInv => PromiseCovered
<1> SUFFICES ASSUME PotInv, Funded, ~ Settled, state # "Cancelled"
             PROVE  /\ UnstreamedObligation <= Locked
                    /\ Done = Ids => UnstreamedObligation = Locked
  BY DEF PromiseCovered
<1>1. SumTo(Owed, N) <= SumTo(Unpaid, N)
  BY LockedIsUnpaid, SumLeq, ConstantsAssumption
<1>2. Done = Ids => Owed = Unpaid
  <2>1. \A i \in Ids : Listed(i)
    BY DEF PotInv, BookInv, OrderListsAll, Listed
  <2> QED BY <2>1 DEF Owed, Unpaid, Done
<1> QED BY <1>1, <1>2, LockedIsUnpaid DEF UnstreamedObligation

\* The same of the state a step leads to.
LEMMA NextPromises == PotInv' => PromiseBounded' /\ PromiseCovered'
BY PromisedBounds, PotCoversPromises, PTL

-----------------------------------------------------------------------------
(* Every step maps to a step of Custody or leaves its variables alone. *)

Stutters == UNCHANGED <<phase, Locked, promised>>

\* A step that leaves the accounts, the book and the outcome alone stutters.
LEMMA QuietStutter ==
    ASSUME PotInv, PotInv', SameAccounts, UNCHANGED <<state, book, dispute>>
    PROVE  Stutters
<1>1. UnstreamedObligation' = UnstreamedObligation
  BY SameTotals DEF PotInv, BookInv
<1> QED BY <1>1 DEF Stutters, phase, Locked, promised, Settled

\* So does every step between unfunded states: nothing is held or promised.
LEMMA UnfundedStutter ==
    ASSUME PotInv, PotInv', ~ Funded, ~ Funded'
    PROVE  Stutters
<1>1. UnstreamedObligation = 0 /\ UnstreamedObligation' = 0
  BY PromisedBounds, NextPromises DEF PromiseBounded
<1>2. book = EmptyBook /\ book' = EmptyBook /\ ~ Settled /\ ~ Settled'
  BY DEF PotInv, BookInv, BookMatchesMilestones, Funded
<1>3. phase = "Unfunded" /\ phase' = "Unfunded"
  BY DEF phase, Funded
<1> QED BY <1>1, <1>2, <1>3 DEF Stutters, Locked, promised

LEMMA FundStep ==
    ASSUME PotInv, PotInv', NEW auth \in AuthSets, NEW allowance \in Allowances,
           DepositFunds(auth, allowance)
    PROVE  Abstract!Fund
<1>1. /\ state = "Pending" /\ state' = "Active" /\ ~ Funded /\ ~ Settled /\ ~ Settled'
      /\ UNCHANGED <<config, milestones, order>>
      /\ book' = [book EXCEPT !.deposited = config.total]
  BY DEF DepositFunds, schedule, docket, PotInv, BookInv, Funded, Settled
<1>2. book = EmptyBook /\ config.total = PayoutTotal
  BY <1>1 DEF PotInv, BookInv, CoreInv
<1>3. Locked' = PayoutTotal /\ PayoutTotal \in Int
  <2>1. PayoutTotal \in Int
    BY TotalsAreInt DEF PotInv, BookInv, CoreInv
  <2> QED BY <1>1, <1>2, <2>1 DEF EmptyBook, Locked
<1>4. PayoutTotal > 0
  <2> DEFINE f == [i \in Ids |-> milestones[i].payout]
             g == [i \in Ids |-> IF i = 1 THEN 1 ELSE 0]
             z == [i \in Ids |-> 0]
  <2>1. 1 \in 1 .. N /\ N \in Nat
    BY ConstantsAssumption
  <2>2. \A i \in 1 .. N : /\ f[i] \in Int /\ g[i] \in Int /\ z[i] \in Int
                          /\ g[i] <= f[i] /\ z[i] = 0
    <3>1. ASSUME NEW i \in 1 .. N PROVE milestones[i].payout \in Nat /\ milestones[i].payout > 0
      BY <1>1 DEF PotInv, Positive, BookInv, CoreInv, TypeOK, Ids, Milestone
    <3> QED BY <3>1 DEF Ids
  <2>3. g[1] = 1 /\ z[1] = 0 /\ \A i \in 1 .. N : i # 1 => g[i] = z[i]
    BY <2>1 DEF Ids
  <2> HIDE DEF f, g, z
  <2>4. SumTo(z, N) = 0
    BY <2>1, <2>2, SumZero
  <2>5. SumTo(g, N) = SumTo(z, N) + g[1] - z[1]
    BY <2>1, <2>2, <2>3, SumChange
  <2>6. SumTo(g, N) <= SumTo(f, N)
    BY <2>1, <2>2, SumLeq
  <2>7. SumTo(f, N) \in Int
    BY <2>1, <2>2, SumInt
  <2> QED BY <2>3, <2>4, <2>5, <2>6, <2>7 DEF f, PayoutTotal
<1>5. promised' = 0
  <2>1. UnstreamedObligation = 0
    BY <1>1, PromisedBounds DEF PromiseBounded
  <2>2. UnstreamedObligation' = UnstreamedObligation
    BY <1>1, SameTotals DEF PotInv, BookInv, SameAccounts
  <2> QED BY <1>1, <2>1, <2>2 DEF promised
<1>6. phase = "Unfunded" /\ phase' = "Held"
  BY <1>1 DEF phase
<1> QED BY <1>3, <1>4, <1>5, <1>6 DEF Abstract!Fund

LEMMA SetupMaps ==
    ASSUME PotInv, PotInv', NEW auth \in AuthSets, Setup(auth)
    PROVE  Abstract!Next \/ Stutters
<1>1. ASSUME NEW p \in PartyChoices, NEW s \in Schedules, Initialize(auth, p, s)
      PROVE  Stutters
  BY <1>1, UnfundedStutter DEF Initialize, Initialized, Funded
<1>2. ASSUME UNCHANGED <<state, milestones, book, dispute>> PROVE Stutters
  BY <1>2, QuietStutter DEF SameAccounts
<1> QED BY <1>1, <1>2, FundStep DEF Setup, SetLatePenaltyBps, ConfigureProtocolFee,
       ConfigureArbitrators, schedule, custody, docket, Abstract!Next

\* The promise changes by what it changes for one milestone.
LEMMA PromiseChange ==
    ASSUME PotInv, PotInv', NEW i \in Ids,
           \A k \in Ids : k # i => milestones'[k] = milestones[k]
    PROVE  /\ UnstreamedObligation' = UnstreamedObligation + Owed'[i] - Owed[i]
           /\ Owed[i] = IF milestones[i].isApproved
                        THEN milestones[i].payout - milestones[i].streamed ELSE 0
           /\ Owed'[i] = IF milestones'[i].isApproved
                         THEN milestones'[i].payout - milestones'[i].streamed ELSE 0
<1>1. \A k \in Ids : Listed(k) /\ Listed(k)'
  BY DEF PotInv, BookInv, OrderListsAll, Listed
<1>2. /\ milestones \in [Ids -> Milestone] /\ milestones' \in [Ids -> Milestone]
  BY DEF PotInv, BookInv, CoreInv, TypeOK
<1>3. ASSUME NEW k \in 1 .. N
      PROVE  Owed[k] \in Int /\ Owed'[k] \in Int /\ (k # i => Owed'[k] = Owed[k])
  <2>1. k \in Ids /\ milestones[k] \in Milestone /\ milestones'[k] \in Milestone
    BY <1>2 DEF Ids
  <2>2. /\ milestones[k].payout - milestones[k].streamed \in Int
        /\ milestones'[k].payout - milestones'[k].streamed \in Int
    BY <2>1 DEF Milestone
  <2> QED BY <1>1, <2>1, <2>2 DEF Owed
<1>4. i \in 1 .. N /\ N \in Nat
  BY ConstantsAssumption DEF Ids
<1>5. SumTo(Owed', N) = SumTo(Owed, N) + Owed'[i] - Owed[i]
  BY <1>3, <1>4, SumChange
<1> QED BY <1>1, <1>5 DEF UnstreamedObligation, Owed

\* An approval promises the payout or pays it, and closes the pot only when
\* all of the rest is promised.
LEMMA ApproveMaps ==
    ASSUME PotInv, PotInv', NEW auth \in AuthSets, NEW i \in Ids, ApproveMilestone(auth, i)
    PROVE  Abstract!Approve
<1>1. /\ TypeOK /\ Solvent /\ config.recipient \in Address
      /\ milestones \in [Ids -> Milestone] /\ milestones[i] \in Milestone
  BY DEF PotInv, BookInv, CoreInv, TypeOK, Config
<1>2. /\ state \in {"Active", "Disputed"} /\ state' \in {"Active", "Completed"}
      /\ ~ Settled /\ ~ Settled' /\ Funded /\ Funded' /\ ~ milestones[i].isApproved
      /\ milestones[i].streamed = 0
  BY DEF ApproveMilestone, Releaser, Open, StateAfterApproval, PotInv, BookInv, Settled,
     Funded, docket
<1>3. /\ phase \in {"Held", "Frozen"} /\ phase' \in {"Held", "Closed"}
      /\ phase' = "Closed" => state' = "Completed"
  BY <1>2 DEF phase
<1>4. /\ promised = UnstreamedObligation /\ promised' = UnstreamedObligation'
      /\ promised \in Nat /\ promised' \in Nat /\ Locked \in Nat /\ Locked' \in Nat
      /\ promised' <= Locked'
      /\ phase' = "Closed" => Locked' = promised'
  <2>1. state' = "Completed" => Done' = Ids
    BY <1>2 DEF PotInv, CountInv, ApprovedCountIsExact, Done
  <2>2. PromiseBounded /\ PromiseBounded' /\ PromiseCovered'
    BY PromisedBounds, NextPromises
  <2> QED BY <1>2, <1>3, <2>1, <2>2 DEF promised, PromiseBounded, PromiseCovered
<1>5. /\ \A k \in Ids : k # i => milestones'[k] = milestones[k]
      /\ milestones'[i].isApproved /\ milestones'[i].payout = milestones[i].payout
      /\ milestones[i].payout \in Nat
  BY <1>1 DEF ApproveMilestone, MarkApproved, Milestone
<1>6. promised' = promised + (milestones[i].payout - milestones'[i].streamed)
  <2>1. /\ UnstreamedObligation' = UnstreamedObligation + Owed'[i] - Owed[i]
        /\ Owed[i] = 0 /\ Owed'[i] = milestones[i].payout - milestones'[i].streamed
    BY <1>2, <1>5, PromiseChange
  <2>2. milestones'[i].streamed \in Nat
    BY DEF PotInv, BookInv, CoreInv, TypeOK, Milestone
  <2> QED BY <1>4, <1>5, <2>1, <2>2
<1>7. CASE milestones[i].vestingSecs > 0
  <2>1. milestones'[i].streamed = 0 /\ Locked' = Locked
    BY <1>1, <1>7 DEF ApproveMilestone, MarkApproved, Milestone, custody, Locked
  <2>2. promised' \in promised .. Locked
    BY <1>4, <1>5, <1>6, <2>1
  <2> QED BY <1>3, <1>4, <2>1, <2>2 DEF Abstract!Approve, Abstract!MayClose
<1>8. CASE ~ (milestones[i].vestingSecs > 0)
  <2>1. /\ milestones'[i].streamed = milestones[i].payout
        /\ PayWithFee(milestones[i].payout)
    BY <1>1, <1>8 DEF ApproveMilestone, MarkApproved, Milestone
  <2>2. /\ book'.deposited = book.deposited /\ book'.refunded = book.refunded
        /\ book'.released = book.released + milestones[i].payout
    BY <1>1, <1>5, <2>1, PayWithFeeFacts
  <2>3. Locked' = Locked - milestones[i].payout
    BY <1>1, <1>5, <2>2 DEF Locked, TypeOK, Book
  <2>4. promised' = promised /\ Locked' \in promised .. Locked
    BY <1>4, <1>5, <1>6, <2>1, <2>3
  <2> QED BY <1>3, <1>4, <2>4 DEF Abstract!Approve, Abstract!MayClose
<1> QED BY <1>7, <1>8

\* A stream pays out what it takes from the promise.
LEMMA StreamMaps ==
    ASSUME PotInv, PotInv', NEW auth \in AuthSets, NEW i \in Ids,
           StreamMilestonePayout(auth, i)
    PROVE  Abstract!Stream
<1> DEFINE m == milestones[i]
           unpaid == Vested(i) - m.streamed
<1>1. /\ TypeOK /\ Solvent /\ config.recipient \in Address
      /\ milestones \in [Ids -> Milestone] /\ m \in Milestone /\ now \in Nat
  BY DEF PotInv, BookInv, CoreInv, TypeOK, Config
<1>2. /\ m.isApproved /\ unpaid > 0 /\ PayWithFee(unpaid)
      /\ state \in {"Active", "Completed"} /\ state' = state
      /\ UNCHANGED <<config, dispute>>
  BY DEF StreamMilestonePayout, AcceptsStream, Bookable, StreamableStates, docket
<1>3. unpaid \in Int /\ m.streamed \in Nat /\ m.payout \in Nat
  <2>1. /\ m.payout \in Nat /\ m.completedAt \in Nat /\ m.streamed \in Nat
        /\ m.completedAt + m.vestingSecs \in Nat
        /\ m.completedAt < m.completedAt + m.vestingSecs
    BY <1>1 DEF Milestone, StreamMilestonePayout, AcceptsStream
  <2>2. VestedAmount(m.payout, m.completedAt, m.completedAt + m.vestingSecs, now)
            \in 0 .. m.payout
    BY <1>1, <2>1, VestedBounds
  <2> QED BY <2>1, <2>2 DEF Vested
<1>4. milestones' = [milestones EXCEPT
             ![i].streamed = @ + unpaid,
             ![i].status = IF m.streamed + unpaid >= m.payout THEN "Released" ELSE @]
  BY DEF StreamMilestonePayout
<1> HIDE DEF unpaid
<1>5. /\ milestones'[i].streamed = m.streamed + unpaid
      /\ milestones'[i].payout = m.payout /\ milestones'[i].isApproved
      /\ \A k \in Ids : k # i => milestones'[k] = milestones[k]
  BY <1>1, <1>2, <1>4 DEF Milestone
<1>6. Locked' = Locked - unpaid
  <2>1. /\ book'.deposited = book.deposited /\ book'.refunded = book.refunded
        /\ book'.released = book.released + unpaid
    BY <1>1, <1>2, <1>3, PayWithFeeFacts
  <2> QED BY <1>1, <1>3, <2>1 DEF Locked, TypeOK, Book
<1>7. ~ Settled /\ ~ Settled'
  <2>1. Settled => Locked = 0
    BY DEF PotInv, BookInv, BookMatchesMilestones
  <2>2. Locked # 0
    BY <1>2, <1>3 DEF PayWithFee, Bookable
  <2> QED BY <1>2, <2>1, <2>2 DEF Settled
<1>8. /\ promised = UnstreamedObligation /\ promised' = UnstreamedObligation'
      /\ promised \in Nat /\ promised' \in Nat /\ Locked \in Nat
  BY <1>7, PromisedBounds, NextPromises DEF promised, PromiseBounded
<1>9. promised' = promised - unpaid
  <2>1. /\ UnstreamedObligation' = UnstreamedObligation + Owed'[i] - Owed[i]
        /\ Owed[i] = m.payout - m.streamed
        /\ Owed'[i] = m.payout - (m.streamed + unpaid)
    BY <1>2, <1>5, PromiseChange
  <2> QED BY <1>3, <1>8, <2>1
<1>10. phase \in {"Held", "Closed"} /\ phase' = phase
  BY <1>2 DEF phase
<1>11. promised' < promised /\ Locked' = Locked - (promised - promised')
  BY <1>2, <1>3, <1>6, <1>8, <1>9
<1> QED BY <1>8, <1>10, <1>11 DEF Abstract!Stream

\* A penalty gives back what no approval has promised.
LEMMA SlashMaps ==
    ASSUME PotInv, PotInv', NEW auth \in AuthSets, NEW i \in Ids, ApplyLatePenalty(auth, i)
    PROVE  Abstract!Slash
<1> DEFINE cut == ApplyPenalty(milestones[i].payout, penaltyBps)
<1>1. /\ TypeOK /\ Solvent
      /\ milestones \in [Ids -> Milestone] /\ milestones[i] \in Milestone
      /\ penaltyBps \in 0 .. BPS_SCALE
  BY DEF PotInv, BookInv, CoreInv, TypeOK
<1>2. /\ state = "Active" /\ state' = "Active" /\ ~ milestones[i].isApproved
      /\ ~ Settled /\ ~ Settled' /\ Funded /\ Funded'
  BY DEF ApplyLatePenalty, Slashable, Open, PotInv, BookInv, Settled, Funded, docket
<1>3. cut.slash \in Nat
  <2>1. milestones[i].payout \in Nat
    BY <1>1 DEF Milestone
  <2>2. ApplyBps(milestones[i].payout, penaltyBps) \in 0 .. milestones[i].payout
    BY <1>1, <2>1, ApplyBpsBounds
  <2> QED BY <2>1, <2>2 DEF ApplyPenalty
<1>4. /\ milestones' = [milestones EXCEPT ![i].payout = cut.remaining,
                                          ![i].penaltyApplied = TRUE]
      /\ IF cut.slash = 0 THEN UNCHANGED custody ELSE Refund(cut.slash)
  BY DEF ApplyLatePenalty
<1> HIDE DEF cut
<1>5. /\ \A k \in Ids : k # i => milestones'[k] = milestones[k]
      /\ ~ milestones'[i].isApproved
  BY <1>1, <1>2, <1>4 DEF Milestone
<1>6. Locked' = Locked - cut.slash
  <2>1. CASE cut.slash = 0
    BY <1>1, <1>4, <2>1 DEF custody, TypeOK, Book, Locked
  <2>2. CASE cut.slash # 0
    <3>1. /\ book'.deposited = book.deposited /\ book'.released = book.released
          /\ book'.refunded = book.refunded + cut.slash
      BY <1>1, <1>3, <1>4, <2>2, RefundFacts
    <3> QED BY <1>1, <1>3, <3>1 DEF Locked, TypeOK, Book
  <2> QED BY <2>1, <2>2
<1>7. /\ promised = UnstreamedObligation /\ promised' = UnstreamedObligation'
      /\ promised \in Nat /\ promised' \in Nat /\ Locked \in Nat /\ Locked' \in Nat
      /\ promised' <= Locked'
  BY <1>2, PromisedBounds, NextPromises DEF promised, PromiseBounded, PromiseCovered
<1>8. promised' = promised
  BY <1>2, <1>5, <1>7, PromiseChange
<1>9. phase = "Held" /\ phase' = phase
  BY <1>2 DEF phase
<1>10. Locked' \in promised .. Locked
  BY <1>3, <1>6, <1>7, <1>8
<1> QED BY <1>8, <1>9, <1>10 DEF Abstract!Slash

LEMMA DeliveryMaps ==
    ASSUME PotInv, PotInv', NEW auth \in AuthSets, Delivery(auth)
    PROVE  Abstract!Next \/ Stutters
<1>1. ASSUME NEW i \in Ids, SubmitMilestoneProof(auth, i) PROVE Stutters
  <2>1. SameAccounts
    <3>1. /\ milestones \in [Ids -> Milestone]
          /\ milestones' = [milestones EXCEPT ![i].status = "UnderReview",
                                              ![i].submittedAt = now]
      BY <1>1 DEF SubmitMilestoneProof, PotInv, BookInv, CoreInv, TypeOK
    <3> QED BY <3>1 DEF SameAccounts, Milestone
  <2> QED BY <1>1, <2>1, QuietStutter DEF SubmitMilestoneProof, custody, docket
<1> QED BY <1>1, ApproveMaps, StreamMaps, SlashMaps DEF Delivery, Abstract!Next

LEMMA TimeOutMaps ==
    ASSUME PotInv, PotInv', NEW auth \in AuthSets, ClaimTimeoutRefund(auth)
    PROVE  Abstract!TimeOut
<1>1. /\ TypeOK /\ state = "Active" /\ state' = "Cancelled"
      /\ UNCHANGED <<milestones, order, dispute>>
      /\ Refund(Locked - UnstreamedObligation)
      /\ ~ Settled /\ ~ Settled' /\ Funded /\ Funded'
  BY DEF ClaimTimeoutRefund, AcceptsTimeoutRefund, schedule, docket, PotInv, BookInv,
     CoreInv, Settled, Funded
<1>2. promised = UnstreamedObligation /\ promised' = promised
  <2>1. UnstreamedObligation' = UnstreamedObligation
    BY <1>1, SameTotals DEF PotInv, BookInv, SameAccounts
  <2> QED BY <1>1, <2>1 DEF promised
<1>3. promised \in Nat /\ Locked \in Nat
  BY <1>1, <1>2, PromisedBounds DEF PromiseBounded
<1>4. promised < Locked
  BY <1>1, <1>2, <1>3 DEF Refund, Bookable
<1>5. Locked' = promised'
  BY <1>1, <1>2 DEF PotInv, BookInv, BookMatchesMilestones, promised
<1>6. phase = "Held" /\ phase' = "Closed"
  BY <1>1 DEF phase
<1> QED BY <1>2, <1>4, <1>5, <1>6 DEF Abstract!TimeOut

LEMMA DisputeMaps ==
    ASSUME PotInv, PotInv', NEW auth \in AuthSets, Dispute(auth)
    PROVE  Abstract!Next \/ Stutters
<1>1. ASSUME RaiseDispute(auth) PROVE Abstract!Freeze
  <2>1. /\ state = "Active" /\ state' = "Disputed" /\ UNCHANGED book
        /\ ~ Settled /\ ~ Settled' /\ milestones' = MarkedDisputed
    BY <1>1 DEF RaiseDispute, custody, PotInv, BookInv, Settled
  <2>2. SameAccounts
    <3>1. milestones \in [Ids -> Milestone]
      BY DEF PotInv, BookInv, CoreInv, TypeOK
    <3> QED BY <2>1, <3>1 DEF MarkedDisputed, SameAccounts, Milestone
  <2>3. UnstreamedObligation' = UnstreamedObligation
    BY <2>2, SameTotals DEF PotInv, BookInv
  <2>4. phase = "Held" /\ phase' = "Frozen"
    BY <2>1 DEF phase
  <2> QED BY <2>1, <2>3, <2>4 DEF Abstract!Freeze, promised, Locked
<1>2. ASSUME NEW actor \in auth, NEW hash \in Hashes, AppendDisputeEvidence(auth, actor, hash)
      PROVE  Stutters
  BY <1>2, QuietStutter DEF AppendDisputeEvidence, SameAccounts, schedule, custody
<1>3. ASSUME NEW s \in SplitChoices, Settle(s[1], s[2]) PROVE Abstract!Settle
  <2>1. state = "Disputed" /\ state' = "Completed" /\ Settled'
    BY <1>3 DEF Settle, Settled
  <2>2. Locked' = 0 /\ promised' = 0
    BY <2>1 DEF PotInv, BookInv, BookMatchesMilestones, promised
  <2>3. phase = "Frozen" /\ phase' = "Closed"
    BY <2>1 DEF phase
  <2> QED BY <2>2, <2>3 DEF Abstract!Settle
<1> QED BY <1>1, <1>2, <1>3 DEF Dispute, ResolveDispute, SettleDisputeQuorum, Abstract!Next

\* Amendments change the pot neither before the deposit nor after it.
LEMMA AmendMaps ==
    ASSUME PotInv, PotInv', NEW auth \in AuthSets, Amend(auth)
    PROVE  Stutters
<1>1. UNCHANGED <<state, book, dispute>>
  BY DEF Amend, RequestMilestoneAmendment, ApproveAmendment, custody, docket
<1>2. CASE state = "Pending"
  BY <1>1, <1>2, UnfundedStutter DEF Funded
<1>3. CASE state # "Pending"
  <2>1. UNCHANGED milestones
    BY <1>3 DEF Amend, RequestMilestoneAmendment, ApproveAmendment, Repriced, schedule
  <2> QED BY <1>1, <2>1, QuietStutter DEF SameAccounts
<1> QED BY <1>2, <1>3

LEMMA StepMaps ==
    PotInv /\ PotInv' /\ [Next]_vars => [Abstract!Next]_(Abstract!custodyVars)
<1> SUFFICES ASSUME PotInv, PotInv', [Next]_vars PROVE Abstract!Next \/ Stutters
  BY DEF Stutters, Abstract!custodyVars
<1>1. CASE UNCHANGED <<state, milestones, book, dispute>>
  BY <1>1, QuietStutter DEF SameAccounts
<1>2. CASE CloseLedger
  BY <1>1, <1>2 DEF CloseLedger, schedule, custody, docket
<1>3. ASSUME NEW auth \in AuthSets, EmergencyPause(auth) \/ EmergencyUnpause(auth)
      PROVE  Abstract!Next \/ Stutters
  BY <1>1, <1>3 DEF EmergencyPause, EmergencyUnpause, schedule, custody, docket
<1>4. CASE UNCHANGED vars
  BY <1>1, <1>4 DEF vars, schedule, custody, docket
<1> QED BY <1>2, <1>3, <1>4, SetupMaps, DeliveryMaps, TimeOutMaps, DisputeMaps, AmendMaps
        DEF Next, Invocation, Abstract!Next

LEMMA InitMaps == Init => Abstract!Init
<1> SUFFICES ASSUME Init PROVE Abstract!Init
  OBVIOUS
<1>1. PotInv /\ ~ Funded
  BY BookInit, CountInit DEF PotInv, Init, FreshMilestone, NeverPaidEarly, Positive, Funded
<1>2. UnstreamedObligation = 0
  BY <1>1, PromisedBounds DEF PromiseBounded
<1>3. Locked = 0 /\ phase = "Unfunded"
  BY DEF Init, Locked, EmptyBook, phase
<1> QED BY <1>2, <1>3 DEF Abstract!Init, promised

\* Whatever entrypoints are called in whatever order, the money moves as Custody
\* lets it: promised tokens leave only through streams and settlements, and
\* nothing but promised tokens is left in an escrow that is closed (lib.rs,
\* vesting.rs, penalty.rs, multisig.rs).
THEOREM EscrowIsCustody == Spec => ImplementsCustody
BY InitMaps, StepMaps, PotInvariance, PTL DEF Spec, ImplementsCustody, Abstract!Spec

-----------------------------------------------------------------------------
(* The SDK's projections.                                                   *)

\* The dates that the projection is computed from.  A milestone that is shown as
\* released is approved; and no proof is older than the deposit, which set the lock.
DatesInv ==
    /\ \A i \in Ids : milestones[i].status = "Released" => milestones[i].isApproved
    /\ ~ Funded => \A i \in Ids : milestones[i].submittedAt = 0
    /\ Funded => lockUntil <= now + LockSecs
    /\ \A i \in Ids : milestones[i].submittedAt # 0 =>
                          lockUntil <= milestones[i].submittedAt + LockSecs

LEMMA BoundGrows == \A x, t, u, d \in Nat : x <= t + d /\ t <= u => x <= u + d
OBVIOUS

\* A step that adds no date and releases nothing keeps the dates.
LEMMA DatesKept ==
    ASSUME TypeOK, DatesInv, UNCHANGED lockUntil,
           Funded' <=> Funded, now' \in {now, now + 1},
           \A i \in Ids : /\ milestones'[i].submittedAt = milestones[i].submittedAt
                          /\ milestones'[i].status = "Released" => milestones'[i].isApproved
    PROVE  DatesInv'
<1>1. now \in Nat /\ lockUntil \in Nat /\ LockSecs \in Nat
  BY ConstantsAssumption DEF TypeOK
<1>2. ASSUME Funded' PROVE lockUntil' <= now' + LockSecs
  <2>1. lockUntil <= now + LockSecs
    BY <1>2 DEF DatesInv
  <2>2. now <= now' /\ now' \in Nat /\ lockUntil' = lockUntil
    BY <1>1
  <2> QED BY <1>1, <2>1, <2>2, BoundGrows, Zenon
<1>3. ~ Funded' => \A i \in Ids : milestones'[i].submittedAt = 0
  BY DEF DatesInv
<1>4. \A i \in Ids : milestones'[i].submittedAt # 0 =>
                         lockUntil' <= milestones'[i].submittedAt + LockSecs
  BY DEF DatesInv
<1> QED BY <1>2, <1>3, <1>4 DEF DatesInv

LEMMA DatesSame ==
    ASSUME TypeOK, DatesInv, UNCHANGED <<milestones, lockUntil>>,
           Funded' <=> Funded, now' \in {now, now + 1}
    PROVE  DatesInv'
BY DatesKept DEF DatesInv

LEMMA DatesInit == Init => DatesInv
BY ConstantsAssumption DEF Init, DatesInv, FreshMilestone, Funded

LEMMA DatesSetup ==
    ASSUME TypeOK, DatesInv, NEW auth \in AuthSets, Setup(auth)
    PROVE  DatesInv'
<1>1. ASSUME NEW p \in PartyChoices, NEW s \in Schedules, Initialize(auth, p, s)
      PROVE  DatesInv'
  BY <1>1 DEF Initialize, FreshMilestone, DatesInv, Funded
<1>2. ASSUME NEW allowance \in Allowances, DepositFunds(auth, allowance)
      PROVE  DatesInv'
  <2>1. /\ ~ Funded /\ lockUntil' = now + LockSecs /\ UNCHANGED <<milestones, now>>
    BY <1>2 DEF DepositFunds, Funded, schedule
  <2>2. now \in Nat /\ LockSecs \in Nat
    BY ConstantsAssumption DEF TypeOK
  <2> QED BY <2>1, <2>2 DEF DatesInv
<1>3. ASSUME UNCHANGED <<state, milestones, lockUntil, now>> PROVE DatesInv'
  BY <1>3, DatesSame DEF Funded
<1> QED BY <1>1, <1>2, <1>3 DEF Setup, SetLatePenaltyBps, ConfigureProtocolFee,
       ConfigureArbitrators, schedule

LEMMA DatesDelivery ==
    ASSUME TypeOK, DatesInv, NEW auth \in AuthSets, Delivery(auth)
    PROVE  DatesInv'
<1>1. milestones \in [Ids -> Milestone] /\ now \in Nat /\ lockUntil \in Nat /\ LockSecs \in Nat
  BY ConstantsAssumption DEF TypeOK
<1>2. ASSUME NEW i \in Ids, SubmitMilestoneProof(auth, i)
      PROVE  DatesInv'
  <2>1. /\ milestones' = [milestones EXCEPT ![i].status = "UnderReview",
                                            ![i].submittedAt = now]
        /\ Funded /\ Funded' /\ UNCHANGED <<lockUntil, now>>
    BY <1>2 DEF SubmitMilestoneProof, Funded
  <2>2. ASSUME NEW k \in Ids
        PROVE  /\ milestones'[k].status = "Released" => milestones'[k].isApproved
               /\ milestones'[k].submittedAt # 0 => lockUntil <= milestones'[k].submittedAt + LockSecs
    <3>1. CASE k = i
      BY <1>1, <2>1, <3>1 DEF DatesInv, Milestone
    <3>2. CASE k # i
      BY <1>1, <2>1, <3>2 DEF DatesInv
    <3> QED BY <3>1, <3>2
  <2> QED BY <2>1, <2>2 DEF DatesInv
<1>3. ASSUME NEW i \in Ids, ApproveMilestone(auth, i)
      PROVE  DatesInv'
  <2>1. /\ Funded /\ Funded' /\ UNCHANGED <<lockUntil, now>>
    BY <1>3 DEF ApproveMilestone, Releaser, StateAfterApproval, Funded
  <2>2. \A k \in Ids : /\ milestones'[k].submittedAt = milestones[k].submittedAt
                       /\ milestones'[k].status = "Released" => milestones'[k].isApproved
    BY <1>1, <1>3 DEF ApproveMilestone, MarkApproved, Milestone, DatesInv
  <2> QED BY <2>1, <2>2, DatesKept
<1>4. ASSUME NEW i \in Ids, StreamMilestonePayout(auth, i)
      PROVE  DatesInv'
  <2>1. UNCHANGED <<state, lockUntil, now>> /\ milestones[i].isApproved
    BY <1>4 DEF StreamMilestonePayout, AcceptsStream
  <2>2. \A k \in Ids : /\ milestones'[k].submittedAt = milestones[k].submittedAt
                       /\ milestones'[k].status = "Released" => milestones'[k].isApproved
    BY <1>1, <1>4, <2>1 DEF StreamMilestonePayout, Milestone, DatesInv
  <2> QED BY <2>1, <2>2, DatesKept DEF Funded
<1>5. ASSUME NEW i \in Ids, ApplyLatePenalty(auth, i)
      PROVE  DatesInv'
  <2>1. UNCHANGED <<state, lockUntil, now>>
    BY <1>5 DEF ApplyLatePenalty
  <2>2. \A k \in Ids : /\ milestones'[k].submittedAt = milestones[k].submittedAt
                       /\ milestones'[k].status = "Released" => milestones'[k].isApproved
    BY <1>1, <1>5 DEF ApplyLatePenalty, Milestone, DatesInv
  <2> QED BY <2>1, <2>2, DatesKept DEF Funded
<1> QED BY <1>2, <1>3, <1>4, <1>5 DEF Delivery

LEMMA DatesDispute ==
    ASSUME TypeOK, DatesInv, NEW auth \in AuthSets, Dispute(auth)
    PROVE  DatesInv'
<1>1. milestones \in [Ids -> Milestone]
  BY DEF TypeOK
<1>2. CASE RaiseDispute(auth)
  <2>1. \A k \in Ids : /\ milestones'[k].submittedAt = milestones[k].submittedAt
                       /\ milestones'[k].status = "Released" => milestones'[k].isApproved
    BY <1>1, <1>2 DEF RaiseDispute, MarkedDisputed, Milestone, DatesInv
  <2> QED BY <1>2, <2>1, DatesKept DEF RaiseDispute, Funded
<1>3. ASSUME NEW s \in SplitChoices, Settle(s[1], s[2]) PROVE DatesInv'
  BY <1>3, DatesSame DEF Settle, Funded, schedule
<1>4. ASSUME UNCHANGED <<state, milestones, lockUntil, now>> PROVE DatesInv'
  BY <1>4, DatesSame DEF Funded
<1> QED BY <1>2, <1>3, <1>4 DEF Dispute, AppendDisputeEvidence, ResolveDispute,
       SettleDisputeQuorum, schedule

LEMMA DatesAmend ==
    ASSUME TypeOK, DatesInv, NEW auth \in AuthSets, Amend(auth)
    PROVE  DatesInv'
<1>1. CASE ApproveAmendment(auth)
  <2>1. /\ milestones \in [Ids -> Milestone] /\ UNCHANGED <<state, lockUntil, now>>
        /\ \/ UNCHANGED milestones
           \/ milestones' = [milestones EXCEPT ![amendment.id].payout = amendment.payout]
    BY <1>1 DEF ApproveAmendment, Repriced, TypeOK
  <2>2. \A k \in Ids : /\ milestones'[k].submittedAt = milestones[k].submittedAt
                       /\ milestones'[k].status = "Released" => milestones'[k].isApproved
    BY <2>1 DEF Milestone, DatesInv
  <2> QED BY <2>1, <2>2, DatesKept DEF Funded
<1>2. ASSUME UNCHANGED <<state, milestones, lockUntil, now>> PROVE DatesInv'
  BY <1>2, DatesSame DEF Funded
<1> QED BY <1>1, <1>2 DEF Amend, RequestMilestoneAmendment, schedule

LEMMA DatesStep == TypeOK /\ DatesInv /\ [Next]_vars => DatesInv'
<1> SUFFICES ASSUME TypeOK, DatesInv, [Next]_vars PROVE DatesInv'
  OBVIOUS
<1>1. ASSUME NEW auth \in AuthSets, ClaimTimeoutRefund(auth) PROVE DatesInv'
  BY <1>1, DatesSame DEF ClaimTimeoutRefund, AcceptsTimeoutRefund, Funded, schedule
<1>2. ASSUME NEW auth \in AuthSets, EmergencyPause(auth) \/ EmergencyUnpause(auth)
      PROVE  DatesInv'
  BY <1>2, DatesSame DEF EmergencyPause, EmergencyUnpause, Funded, schedule
<1>3. CASE CloseLedger
  BY <1>3, DatesSame DEF CloseLedger, Funded, schedule
<1>4. CASE UNCHANGED vars
  BY <1>4, DatesSame DEF vars, Funded, schedule
<1> QED BY <1>1, <1>2, <1>3, <1>4, DatesSetup, DatesDelivery, DatesDispute, DatesAmend
        DEF Next, Invocation

\* Among finitely many dates one is the latest.
LEMMA LatestExists ==
    ASSUME NEW f, NEW n \in Nat \ {0}, \A k \in 1 .. n : f[k] \in Nat
    PROVE  \E i \in 1 .. n : \A j \in 1 .. n : f[i] >= f[j]
<1> DEFINE P == {k \in 0 .. n : k = 0 \/ \E i \in 1 .. k : \A j \in 1 .. k : f[i] >= f[j]}
<1>1. 0 \in P
  OBVIOUS
<1>2. ASSUME NEW k \in 0 .. (n - 1), k \in P
      PROVE  k + 1 \in P
  <2>1. CASE k = 0
    <3>1. 1 \in 1 .. (k + 1) /\ \A j \in 1 .. (k + 1) : f[1] >= f[j]
      BY <2>1
    <3> QED BY <2>1, <3>1
  <2>2. CASE k > 0
    <3>1. PICK i \in 1 .. k : \A j \in 1 .. k : f[i] >= f[j]
      BY <1>2, <2>2
    <3>2. f[i] \in Nat /\ f[k + 1] \in Nat
      BY <1>2
    <3>3. CASE f[i] >= f[k + 1]
      <4>1. i \in 1 .. (k + 1) /\ \A j \in 1 .. (k + 1) : f[i] >= f[j]
        BY <3>1, <3>3
      <4> QED BY <1>2, <4>1
    <3>4. CASE f[i] < f[k + 1]
      <4>1. \A j \in 1 .. (k + 1) : f[k + 1] >= f[j]
        BY <3>1, <3>2, <3>4
      <4> QED BY <1>2, <4>1
    <3> QED BY <3>2, <3>3, <3>4
  <2> QED BY <1>2, <2>1, <2>2
<1> HIDE DEF P
<1>3. 0 .. n \subseteq P
  BY <1>1, <1>2, SetInduction, SMT
<1>4. n \in P
  BY <1>3
<1> QED BY <1>4 DEF P

LEMMA LatestIsAProof == TypeOK => \E i \in Ids : LatestProof = milestones[i].submittedAt
<1> SUFFICES ASSUME TypeOK PROVE \E i \in Ids : LatestProof = milestones[i].submittedAt
  OBVIOUS
<1> DEFINE f == [i \in Ids |-> milestones[i].submittedAt]
           T == {milestones[i].submittedAt : i \in Ids}
<1>1. \A k \in 1 .. N : f[k] \in Nat
  BY DEF TypeOK, Ids, Milestone
<1> HIDE DEF f
<1>2. PICK i \in 1 .. N : \A j \in 1 .. N : f[i] >= f[j]
  BY <1>1, LatestExists, ConstantsAssumption
<1>3. \E x \in T : \A y \in T : x >= y
  BY <1>2 DEF Ids, f
<1>4. LatestProof \in T
  BY <1>3 DEF LatestProof, Max
<1> QED BY <1>4

\* All that the projection rests on.
ViewInv == PotInv /\ DatesInv

LEMMA ViewInvariance == Spec => []ViewInv
<1>1. PotInv => TypeOK
  BY DEF PotInv, BookInv, CoreInv
<1> QED BY <1>1, DatesInit, DatesStep, PotInvariance, PTL DEF Spec, ViewInv

LEMMA ShownLocked == Solvent /\ TypeOK => LockedOf(book) = Locked
<1> SUFFICES ASSUME Solvent, TypeOK PROVE LockedOf(book) = Locked
  OBVIOUS
<1> DEFINE x == book.deposited - book.released - book.refunded
<1>1. x \in Nat
  BY ConstantsAssumption DEF Solvent, Locked, TypeOK
<1> HIDE DEF x
<1>2. Max({0, x}) = x
  BY <1>1 DEF Max
<1> QED BY <1>2 DEF LockedOf, Locked, x

\* The SDK's share of milestones done: full exactly when all of them are approved.
LEMMA ShownProgress ==
    ASSUME ViewInv
    PROVE  /\ CompletedMilestones = Done
           /\ Cardinality(Done) = approved
           /\ Done = Ids => (approved * 10000) \div N = 10000
           /\ Done # Ids => (approved * 10000) \div N < 10000
<1>1. CompletedMilestones = Done
  BY DEF ViewInv, DatesInv, CompletedMilestones, Done
<1>2. Cardinality(Done) = approved
  BY DEF ViewInv, PotInv, CountInv, ApprovedCountIsExact, Done
<1>3. Done \in SUBSET Ids
  BY DEF Done
<1>4. /\ approved \in Nat /\ N \in Nat \ {0}
      /\ Done = Ids => approved = N
      /\ Done # Ids => approved < N
  <2>1. approved \in Nat /\ N \in Nat \ {0}
    BY ConstantsAssumption DEF ViewInv, PotInv, BookInv, CoreInv, TypeOK
  <2>2. /\ Cardinality(Done) <= Cardinality(Ids)
        /\ Cardinality(Ids) = Cardinality(Done) => Ids = Done
    BY <1>3, IdsFinite, FS_Subset
  <2> QED BY <1>2, <2>1, <2>2, IdsFinite
<1>5. \A a, n \in Nat : n > 0 => /\ a = n => (a * 10000) \div n = 10000
                                 /\ a < n => (a * 10000) \div n < 10000
  <2>1. ASSUME NEW n \in Nat, n > 0 PROVE (n * 10000) \div n = 10000
    BY <2>1, SMT
  <2>2. ASSUME NEW a \in Nat, NEW n \in Nat, a < n PROVE (a * 10000) \div n < 10000
    BY <2>2, SMT
  <2> QED BY <2>1, <2>2
<1> QED BY <1>1, <1>2, <1>4, <1>5

LEMMA ViewInvShows == ViewInv => SnapshotAgrees
<1> SUFFICES ASSUME ViewInv, Initialized PROVE SnapshotAgrees
  BY DEF SnapshotAgrees
<1>1. TypeOK /\ Solvent
  BY DEF ViewInv, PotInv, BookInv, CoreInv
<1>2. ASSUME NEW lock
      PROVE  /\ ProjectEscrow(lock).locked = LockedOf(book)
             /\ ProjectEscrow(lock).completedMilestones = Cardinality(CompletedMilestones)
             /\ ProjectEscrow(lock).percentComplete
                  = (Cardinality(CompletedMilestones) * 10000) \div N
             /\ ProjectEscrow(lock).overdue => now >= DeadlineOf(lock) /\ state = "Active"
             /\ ProjectEscrow(lock).health \in {"healthy", "at_risk"} =>
                    ~ paused /\ state \notin {"Disputed", "Completed", "Cancelled"}
  <2>1. /\ ProjectEscrow(lock).locked = LockedOf(book)
        /\ ProjectEscrow(lock).completedMilestones = Cardinality(CompletedMilestones)
        /\ ProjectEscrow(lock).percentComplete
             = (Cardinality(CompletedMilestones) * 10000) \div N
    BY DEF ProjectEscrow
  <2>2. ProjectEscrow(lock).overdue => now >= DeadlineOf(lock) /\ state = "Active"
    BY Zenon DEF ProjectEscrow
  <2>3. CASE paused \/ state \in {"Disputed", "Completed", "Cancelled"}
    <3>1. ProjectEscrow(lock).health \in {"paused", "disputed", "completed", "cancelled"}
      BY <2>3 DEF ProjectEscrow
    <3> QED BY <2>1, <2>2, <3>1
  <2> QED BY <2>1, <2>2, <2>3
<1>3. state = "Completed" /\ ~ Settled => Done = Ids
  BY DEF ViewInv, PotInv, CountInv, ApprovedCountIsExact, Done
<1>4. state \notin {"Disputed", "Completed", "Cancelled"} => Done # Ids
  BY <1>1, IdsFinite DEF Initialized, TypeOK, ViewInv, PotInv, CountInv,
     ApprovedCountIsExact, Done
<1>5. ASSUME LatestProof > 0, ProjectEscrow(LockSecs).overdue
      PROVE  LockElapsed
  <2>1. PICK i \in Ids : LatestProof = milestones[i].submittedAt
    BY <1>1, LatestIsAProof
  <2>2. now >= DeadlineOf(LockSecs) /\ Funded
    BY <1>2, <1>5 DEF Funded
  <2>3. /\ milestones[i].submittedAt \in Nat /\ now \in Nat /\ lockUntil \in Nat
        /\ LockSecs \in Nat
    BY <1>1, ConstantsAssumption DEF TypeOK, Milestone
  <2>4. lockUntil <= milestones[i].submittedAt + LockSecs
    BY <1>5, <2>1 DEF ViewInv, DatesInv
  <2>5. CASE LockSecs > 0
    BY <1>5, <2>1, <2>2, <2>3, <2>4, <2>5 DEF DeadlineOf, LockElapsed
  <2>6. CASE LockSecs = 0
    BY <2>2, <2>3, <2>6 DEF ViewInv, DatesInv, LockElapsed
  <2> QED BY <2>3, <2>5, <2>6
<1>6. LockedOf(book) = Locked
  BY <1>1, ShownLocked
<1> HIDE DEF ProjectEscrow
<1> QED BY <1>2, <1>3, <1>4, <1>5, <1>6, ShownProgress DEF SnapshotAgrees

\* In every state that the contract can reach projectEscrow shows its locked balance and
\* its counter of approvals, a hundred percent exactly when approvals complete the escrow,
\* and never calls an escrow overdue before the contract's own lock has elapsed
\* (models/state.ts lockedOf, completedMilestones, deadlineOf; storage.rs).
THEOREM SnapshotsAreTrue == Spec => []SnapshotAgrees
BY ViewInvariance, ViewInvShows, PTL

-----------------------------------------------------------------------------
(* What the projection of a stream shows is what the next stream pays.      *)

\* Rounding the elapsed fraction to basis points and then the share of the total
\* never gives more than rounding the share at once.
LEMMA TwoRoundings ==
    ASSUME NEW total \in Nat, NEW e \in Nat, NEW d \in Nat \ {0}
    PROVE  (total * ((e * BPS_SCALE) \div d)) \div BPS_SCALE <= (total * e) \div d
<1> DEFINE a == e * 10000
           r == a \div d
           b == total * r
           q == b \div 10000
           c == total * e
           s == c \div d
<1>1. a \in Nat /\ c \in Nat
  BY SMT
<1> HIDE DEF a, c
<1>2. r \in Nat /\ r * d <= a
  BY <1>1, SMT
<1> HIDE DEF r
<1>3. b \in Nat
  BY <1>2, SMT
<1> HIDE DEF b
<1>4. q \in Nat /\ q * 10000 <= b
  BY <1>3, SMT
<1>5. s \in Nat /\ c < (s + 1) * d
  BY <1>1, SMT
<1> HIDE DEF q, s
<1>6. SUFFICES ASSUME q >= s + 1 PROVE FALSE
  BY <1>4, <1>5 DEF q, s, a, b, c, r, BPS_SCALE
<1>7. (s + 1) * d <= q * d
  BY <1>4, <1>5, <1>6, SMT
<1>8. (q * 10000) * d <= b * d
  BY <1>3, <1>4, SMT
<1>9. b * d = total * (r * d)
  BY <1>2, SMT DEF b
<1>10. total * (r * d) <= total * a
  BY <1>1, <1>2, SMT
<1>11. total * a = c * 10000
  BY SMT DEF a, c
<1>12. (q * 10000) * d = (q * d) * 10000 /\ q * d \in Nat /\ (s + 1) * d \in Nat
  BY <1>4, <1>5, SMT
<1>13. b * d \in Int /\ total * (r * d) \in Int /\ total * a \in Int
  BY <1>1, <1>2, <1>3, SMT
<1>14. (q * d) * 10000 <= c * 10000
  BY <1>1, <1>8, <1>9, <1>10, <1>11, <1>12, <1>13
<1>15. q * d <= c
  BY <1>1, <1>12, <1>14
<1> QED BY <1>1, <1>5, <1>7, <1>12, <1>15

\* The SDK's helper is the contract's, read at the contract's own arguments.
LEMMA HelpersMatch ==
    ASSUME NEW total, NEW start, NEW end, NEW t
    PROVE  StreamVested(total, start, end, t) = VestedAmount(total, start, end, t)
BY DEF StreamVested, VestedAmount

\* While something is left to withdraw, the projection shows just that.
LEMMA InterpolationShows ==
    ASSUME NEW total \in Nat, NEW start \in Nat, NEW secs \in Nat \ {0}, NEW t \in Nat,
           NEW claimed \in Nat, claimed < VestedAmount(total, start, start + secs, t)
    PROVE  LET given == VestedAmount(total, start, start + secs, t)
               p == InterpolateStream(total, start, start + secs, t, claimed, 0)
           IN  /\ given \in 0 .. total
               /\ p.vested = given - claimed
               /\ p.remaining = total - given
               /\ (total * p.elapsedRatioBps) \div BPS_SCALE <= given
<1> DEFINE given == VestedAmount(total, start, start + secs, t)
           ratio == ElapsedRatioBps(start, start + secs, t)
           p == InterpolateStream(total, start, start + secs, t, claimed, 0)
<1>1. given \in 0 .. total
  <2>1. start + secs \in Nat /\ start < start + secs
    OBVIOUS
  <2> QED BY <2>1, VestedBounds
<1>2. StreamVested(total, start, start + secs, t) = given
  BY HelpersMatch
<1>3. (total * ratio) \div BPS_SCALE <= given
  <2>1. t > start
    <3>1. given > 0
      BY <1>1
    <3> QED BY <3>1 DEF VestedAmount
  <2>2. CASE t >= start + secs
    <3>1. given = total /\ ratio = 10000
      BY <2>1, <2>2 DEF VestedAmount, ElapsedRatioBps, BPS_SCALE
    <3> HIDE DEF given, ratio
    <3>2. (total * 10000) \div 10000 = total
      BY SMT
    <3> QED BY <3>1, <3>2 DEF BPS_SCALE
  <2>3. CASE t < start + secs
    <3>1. /\ given = (total * (t - start)) \div (start + secs - start)
          /\ ratio = ((t - start) * BPS_SCALE) \div (start + secs - start)
      BY <2>1, <2>3 DEF VestedAmount, ElapsedRatioBps
    <3>2. start + secs - start = secs /\ t - start \in Nat
      BY <2>1
    <3> HIDE DEF given, ratio
    <3> QED BY <3>1, <3>2, TwoRoundings
  <2> QED BY <2>2, <2>3
<1>4. /\ p.elapsedRatioBps = ratio
      /\ p.vested = IF given - (given * 0) \div BPS_SCALE > claimed
                    THEN given - (given * 0) \div BPS_SCALE - claimed ELSE 0
      /\ p.remaining = IF total > claimed THEN total - claimed - p.vested ELSE 0
  BY <1>2 DEF InterpolateStream
<1> HIDE DEF given, ratio, p
<1>5. (given * 0) \div BPS_SCALE = 0
  BY <1>1 DEF BPS_SCALE
<1>6. claimed < given
  BY DEF given
<1>7. p.vested = given - claimed /\ p.remaining = total - given
  BY <1>1, <1>4, <1>5, <1>6
<1> QED BY <1>1, <1>3, <1>4, <1>7 DEF given, p

PaysProjected ==
    \A i \in Ids :
        Streams(i) /\ milestones'[i].streamed # milestones[i].streamed =>
            LET p == Projected(i)
                m == milestones'[i]
            IN  /\ m.streamed = milestones[i].streamed + p.vested
                /\ m.payout = m.streamed + p.remaining
                /\ (m.payout * p.elapsedRatioBps) \div BPS_SCALE <= m.streamed

LEMMA PaysProjectedStep == ViewInv /\ [Next]_vars => PaysProjected
<1> SUFFICES ASSUME ViewInv, [Next]_vars, NEW i \in Ids, Streams(i),
                    milestones'[i].streamed # milestones[i].streamed
             PROVE  LET p == Projected(i)
                        m == milestones'[i]
                    IN  /\ m.streamed = milestones[i].streamed + p.vested
                        /\ m.payout = m.streamed + p.remaining
                        /\ (m.payout * p.elapsedRatioBps) \div BPS_SCALE <= m.streamed
  BY DEF PaysProjected
<1> DEFINE old == milestones[i]
           given == VestedAmount(old.payout, old.completedAt,
                                 old.completedAt + old.vestingSecs, now)
<1>1. /\ TypeOK /\ now \in Nat /\ milestones \in [Ids -> Milestone]
      /\ old.payout \in Nat /\ old.completedAt \in Nat /\ old.streamed \in Nat
      /\ old.vestingSecs \in Nat \ {0} /\ old.isApproved
  <2>1. TypeOK
    BY DEF ViewInv, PotInv, BookInv, CoreInv
  <2> QED BY <2>1 DEF TypeOK, Milestone, Streams
<1>2. PaysStream(i)
  <2>1. Step
    BY <1>1, StepKinds
  <2>2. ~ Fresh
    <3>1. i \in Done
      BY <1>1 DEF Done
    <3> QED BY <3>1 DEF Fresh, ViewInv, PotInv, CountInv
  <2>3. ASSUME NEW j \in Ids, Approves(j) PROVE FALSE
    BY <1>1, <2>3 DEF Approves, MarkApproved
  <2>4. ~ ApprovedUntouched /\ ~ UNCHANGED milestones
    BY DEF ApprovedUntouched
  <2>5. ASSUME NEW j \in Ids, PaysStream(j) PROVE j = i
    BY <1>1, <2>5 DEF PaysStream
  <2> QED BY <2>1, <2>2, <2>3, <2>4, <2>5 DEF Step
<1>3. Vested(i) = given
  BY DEF Vested
<1>4. Projected(i) = InterpolateStream(old.payout, old.completedAt,
                                       old.completedAt + old.vestingSecs, now, old.streamed, 0)
  BY DEF Projected
<1>5. given \in 0 .. old.payout
  <2>1. /\ old.completedAt + old.vestingSecs \in Nat
        /\ old.completedAt < old.completedAt + old.vestingSecs
    BY <1>1
  <2> QED BY <1>1, <2>1, VestedBounds
<1> HIDE DEF given
<1>6. old.streamed < given
  BY <1>1, <1>2, <1>3, <1>5 DEF PaysStream
<1>7. milestones'[i].streamed = given /\ milestones'[i].payout = old.payout
  <2>1. /\ milestones'[i].streamed = old.streamed + (given - old.streamed)
        /\ milestones'[i].payout = old.payout
    BY <1>1, <1>2, <1>3 DEF PaysStream, Milestone
  <2> QED BY <1>1, <1>5, <2>1
<1>8. /\ Projected(i).vested = given - old.streamed
      /\ Projected(i).remaining = old.payout - given
      /\ (old.payout * Projected(i).elapsedRatioBps) \div BPS_SCALE <= given
  BY <1>1, <1>4, <1>6, InterpolationShows DEF given
<1> HIDE DEF old
<1> QED BY <1>1, <1>5, <1>6, <1>7, <1>8 DEF old

\* In whatever state a stream is claimed, after whatever approvals, disputes and earlier
\* claims, it pays what interpolateStream showed in the moment before and leaves what it
\* said would remain; its elapsed ratio never stands for more than has been paid
\* (stream.ts interpolateStream; vesting.rs stream_milestone_payout, math.rs).
THEOREM ProjectionsArePaid == Spec => StreamsPayProjected
<1>1. ViewInv /\ [Next]_vars => [PaysProjected]_vars
  BY PaysProjectedStep
<1> QED BY <1>1, ViewInvariance, PTL DEF Spec, StreamsPayProjected, PaysProjected

-----------------------------------------------------------------------------
(* The exits: in every state in which something can be owed, the checks of   *)
(* the entrypoint that would pay it let it through.                          *)

LEMMA PartOfSum ==
    ASSUME NEW f, NEW n \in Nat, \A k \in 1 .. n : f[k] \in Nat, NEW i \in 1 .. n
    PROVE  f[i] <= SumTo(f, n)
<1> DEFINE z == [k \in 1 .. n |-> 0]
           g == [k \in 1 .. n |-> IF k = i THEN f[i] ELSE 0]
<1>1. \A k \in 1 .. n : /\ z[k] = 0 /\ z[k] \in Int /\ g[k] \in Int /\ f[k] \in Int
                        /\ g[k] <= f[k] /\ (k # i => g[k] = z[k])
  OBVIOUS
<1>2. g[i] = f[i] /\ z[i] = 0 /\ f[i] \in Int
  OBVIOUS
<1> HIDE DEF z, g
<1>3. SumTo(z, n) = 0
  BY <1>1, SumZero
<1>4. SumTo(g, n) = SumTo(z, n) + g[i] - z[i]
  BY <1>1, SumChange
<1>5. SumTo(g, n) <= SumTo(f, n)
  BY <1>1, SumLeq
<1> QED BY <1>2, <1>3, <1>4, <1>5

LEMMA SomePartIsPositive ==
    ASSUME NEW f, NEW n \in Nat, \A k \in 1 .. n : f[k] \in Int, SumTo(f, n) > 0
    PROVE  \E i \in 1 .. n : f[i] > 0
<1> SUFFICES ASSUME \A i \in 1 .. n : ~ (f[i] > 0) PROVE FALSE
  OBVIOUS
<1> DEFINE z == [k \in 1 .. n |-> 0]
<1>1. \A k \in 1 .. n : z[k] = 0 /\ z[k] \in Int /\ f[k] \in Int /\ f[k] <= z[k]
  OBVIOUS
<1> HIDE DEF z
<1>2. SumTo(z, n) = 0 /\ SumTo(f, n) <= SumTo(z, n) /\ SumTo(f, n) \in Int
  BY <1>1, SumZero, SumLeq, SumInt
<1> QED BY <1>2

\* What an approved milestone still owes is in the promise, and so it is locked.
LEMMA OwedIsLocked ==
    ASSUME PotInv, Funded, ~ Settled, state # "Cancelled",
           NEW i \in Ids, milestones[i].isApproved
    PROVE  milestones[i].payout - milestones[i].streamed <= Locked
<1>1. TypeOK
  BY DEF PotInv, BookInv, CoreInv
<1>2. \A k \in Ids : Listed(k)
  BY DEF PotInv, BookInv, OrderListsAll, Listed
<1>3. ASSUME NEW k \in 1 .. N PROVE Owed[k] \in Nat
  <2>1. k \in Ids /\ milestones[k].payout \in Nat /\ milestones[k].streamed \in Nat
    BY <1>1 DEF TypeOK, Ids, Milestone
  <2>2. milestones[k].isApproved => milestones[k].streamed <= milestones[k].payout
    BY <2>1 DEF PotInv, NeverPaidEarly
  <2> QED BY <2>1, <2>2 DEF Owed
<1>4. i \in 1 .. N /\ N \in Nat
  BY ConstantsAssumption DEF Ids
<1>5. Owed[i] <= UnstreamedObligation
  BY <1>3, <1>4, PartOfSum DEF UnstreamedObligation
<1>6. Owed[i] = milestones[i].payout - milestones[i].streamed
  BY <1>2 DEF Owed
<1>7. UnstreamedObligation <= Locked /\ UnstreamedObligation \in Nat /\ Locked \in Nat
  BY PromisedBounds, PotCoversPromises DEF PromiseBounded, PromiseCovered
<1> QED BY <1>3, <1>4, <1>5, <1>6, <1>7

LEMMA RefundIsAccepted == PotInv => RefundIsPossible
<1> SUFFICES ASSUME PotInv, state = "Active", ~ paused, LockElapsed,
                    NEW i \in Ids, ~ milestones[i].isApproved, milestones[i].payout > 0
             PROVE  AcceptsTimeoutRefund({config.funder})
  BY DEF RefundIsPossible
<1> DEFINE h == [k \in 1 .. N |-> IF k = i THEN Unpaid[i] ELSE Owed[k]]
<1>1. Funded /\ ~ Settled /\ state # "Cancelled" /\ TypeOK
  BY DEF Funded, PotInv, BookInv, CoreInv
<1>2. i \in 1 .. N /\ N \in Nat
  BY ConstantsAssumption DEF Ids
<1>3. \A k \in 1 .. N : /\ Owed[k] \in Int /\ Unpaid[k] \in Int /\ h[k] \in Int
                        /\ h[k] <= Unpaid[k] /\ (k # i => h[k] = Owed[k])
  BY <1>1, <1>2, LockedIsUnpaid
<1>4. h[i] > 0 /\ Owed[i] = 0
  <2>1. milestones[i].streamed = 0 /\ milestones[i].payout \in Nat
    BY <1>1 DEF PotInv, BookInv, TypeOK, Milestone
  <2>2. Unpaid[i] = milestones[i].payout
    BY <2>1 DEF Unpaid
  <2> QED BY <1>2, <2>2 DEF Owed
<1> HIDE DEF h
<1>5. SumTo(h, N) = UnstreamedObligation + h[i] - Owed[i]
  BY <1>2, <1>3, SumChange DEF UnstreamedObligation
<1>6. SumTo(h, N) <= Locked
  <2>1. SumTo(h, N) <= SumTo(Unpaid, N)
    BY <1>2, <1>3, SumLeq
  <2> QED BY <1>1, <2>1, LockedIsUnpaid
<1>7. UnstreamedObligation \in Nat /\ Locked \in Nat /\ h[i] \in Int
  BY <1>2, <1>3, PromisedBounds DEF PromiseBounded
<1>8. Bookable(Locked - UnstreamedObligation)
  BY <1>4, <1>5, <1>6, <1>7 DEF Bookable
<1> QED BY <1>8 DEF AcceptsTimeoutRefund, NotPaused, Initialized, Signed

\* Whatever approvals, streams, penalties, amendments and disputes have been, a funder of
\* a live escrow with something left to deliver gets the refund past once the lock has
\* elapsed: what is not promised is never nothing (lib.rs claim_timeout_refund).
THEOREM RefundsStayPossible == Spec => []RefundIsPossible
BY PotInvariance, RefundIsAccepted, PTL

\* A milestone without a vesting period is paid by its approval.  With it a completed
\* escrow owes only what a stream can pay.
LumpSumsArePaid ==
    \A i \in Ids : milestones[i].isApproved /\ milestones[i].vestingSecs = 0
                     => milestones[i].streamed = milestones[i].payout

LEMMA LumpSumsStep == TypeOK /\ LumpSumsArePaid /\ [Next]_vars => LumpSumsArePaid'
<1> SUFFICES ASSUME TypeOK, LumpSumsArePaid, [Next]_vars PROVE LumpSumsArePaid'
  OBVIOUS
<1>1. milestones \in [Ids -> Milestone]
  BY DEF TypeOK
<1>2. Step
  BY StepKinds
<1>3. CASE Fresh
  BY <1>3 DEF Fresh, LumpSumsArePaid
<1>4. ASSUME NEW i \in Ids, MarkApproved(i) PROVE LumpSumsArePaid'
  <2>1. \A k \in Ids : k # i => milestones'[k] = milestones[k]
    BY <1>1, <1>4 DEF MarkApproved
  <2>2. /\ milestones'[i].vestingSecs = milestones[i].vestingSecs
        /\ milestones[i].vestingSecs = 0 => milestones'[i].streamed = milestones'[i].payout
    BY <1>1, <1>4 DEF MarkApproved, Milestone
  <2> QED BY <2>1, <2>2 DEF LumpSumsArePaid
<1>5. CASE ApprovedUntouched
  BY <1>5 DEF ApprovedUntouched, LumpSumsArePaid
<1>6. ASSUME NEW i \in Ids, PaysStream(i) PROVE LumpSumsArePaid'
  <2>1. \A k \in Ids : k # i => milestones'[k] = milestones[k]
    BY <1>1, <1>6 DEF PaysStream
  <2>2. milestones'[i].vestingSecs # 0
    BY <1>1, <1>6 DEF PaysStream, Milestone
  <2> QED BY <2>1, <2>2 DEF LumpSumsArePaid
<1>7. CASE UNCHANGED milestones
  BY <1>7 DEF LumpSumsArePaid
<1> QED BY <1>2, <1>3, <1>4, <1>5, <1>6, <1>7 DEF Step, Approves

ExitInv == PotInv /\ LumpSumsArePaid

LEMMA ExitInvariance == Spec => []ExitInv
<1>1. Init => LumpSumsArePaid
  BY DEF Init, FreshMilestone, LumpSumsArePaid
<1>2. PotInv => TypeOK
  BY DEF PotInv, BookInv, CoreInv
<1> QED BY <1>1, <1>2, LumpSumsStep, PotInvariance, PTL DEF Spec, ExitInv

\* A stream is let through exactly while the schedule gives more than was streamed.
LEMMA StreamIsAccepted ==
    ASSUME PotInv, NEW i \in Ids, Streams(i), state \in {"Active", "Completed"},
           ~ paused, ~ Settled
    PROVE  AcceptsStream({config.recipient}, i) <=> milestones[i].streamed < Vested(i)
<1> DEFINE m == milestones[i]
<1>1. TypeOK /\ Funded /\ state # "Cancelled"
  BY DEF PotInv, BookInv, CoreInv, Funded
<1>2. /\ m.payout \in Nat /\ m.streamed \in Nat /\ m.completedAt \in Nat /\ now \in Nat
      /\ m.vestingSecs \in Nat \ {0} /\ m.isApproved
  BY <1>1 DEF TypeOK, Milestone, Streams
<1>3. Vested(i) \in 0 .. m.payout
  <2>1. m.completedAt + m.vestingSecs \in Nat /\ m.completedAt < m.completedAt + m.vestingSecs
    BY <1>2
  <2> QED BY <1>2, <2>1, VestedBounds DEF Vested
<1>4. m.payout - m.streamed <= Locked /\ Locked \in Nat
  BY <1>1, <1>2, OwedIsLocked, PromisedBounds DEF PromiseBounded
<1>5. ASSUME m.streamed < Vested(i) PROVE AcceptsStream({config.recipient}, i)
  <2>1. Bookable(Vested(i) - m.streamed) /\ m.streamed < m.payout
    BY <1>2, <1>3, <1>4, <1>5 DEF Bookable
  <2> QED BY <1>2, <2>1 DEF AcceptsStream, NotPaused, Initialized, Signed, StreamableStates
<1>6. ASSUME AcceptsStream({config.recipient}, i) PROVE m.streamed < Vested(i)
  <2>1. 0 < Vested(i) - m.streamed
    BY <1>6 DEF AcceptsStream, Bookable
  <2> QED BY <1>2, <1>3, <2>1
<1> QED BY <1>5, <1>6

LEMMA CompletedIsAccepted == ExitInv => CompletedPaysOut
<1> SUFFICES ASSUME ExitInv, state = "Completed", ~ paused, Locked > 0,
                    \A i \in Ids : now >= milestones[i].completedAt + milestones[i].vestingSecs
             PROVE  \E i \in Ids : AcceptsStream({config.recipient}, i)
  BY DEF CompletedPaysOut
<1>1. /\ PotInv /\ TypeOK /\ Funded /\ ~ Settled /\ state # "Cancelled"
  BY DEF ExitInv, PotInv, BookInv, CoreInv, BookMatchesMilestones, Funded
<1>2. Done = Ids
  BY <1>1 DEF PotInv, CountInv, ApprovedCountIsExact, Done
<1>3. SumTo(Owed, N) > 0
  BY <1>1, <1>2, PotCoversPromises DEF PromiseCovered, UnstreamedObligation
<1>4. PICK i \in 1 .. N : Owed[i] > 0
  BY <1>1, <1>3, LockedIsUnpaid, SomePartIsPositive, ConstantsAssumption
<1> DEFINE m == milestones[i]
<1>5. /\ i \in Ids /\ m.isApproved
      /\ m.payout \in Nat /\ m.streamed \in Nat /\ m.completedAt \in Nat /\ now \in Nat
      /\ m.vestingSecs \in Nat
  BY <1>1, <1>2 DEF Done, Ids, TypeOK, Milestone
<1>6. m.payout - m.streamed > 0
  BY <1>4, <1>5 DEF Owed
<1>7. m.vestingSecs # 0
  BY <1>5, <1>6 DEF ExitInv, LumpSumsArePaid
<1>8. Vested(i) = m.payout
  <2>1. now >= m.completedAt + m.vestingSecs /\ ~ (now <= m.completedAt)
    BY <1>5, <1>7
  <2> QED BY <2>1 DEF Vested, VestedAmount
<1>9. AcceptsStream({config.recipient}, i)
  <2>1. Streams(i)
    BY <1>5, <1>7 DEF Streams
  <2>2. m.streamed < Vested(i)
    BY <1>5, <1>6, <1>8
  <2>3. state \in {"Active", "Completed"}
    OBVIOUS
  <2> QED BY <1>1, <1>5, <2>1, <2>2, <2>3, StreamIsAccepted, Zenon
<1> QED BY <1>5, <1>9

\* Whatever a completed escrow locks after everything has vested, some milestone's stream
\* pays: no approval, penalty or rounding strands tokens in it, and none of them belongs
\* to a milestone that cannot be streamed (vesting.rs stream_milestone_payout).
THEOREM CompletedEscrowsPayOut == Spec => []CompletedPaysOut
BY ExitInvariance, CompletedIsAccepted, PTL

\* What the projection shows of a stream, claimed in part or in full.
LEMMA InterpolationSplits ==
    ASSUME NEW total \in Nat, NEW start \in Nat, NEW secs \in Nat \ {0}, NEW t \in Nat,
           NEW claimed \in 0 .. total
    PROVE  LET given == VestedAmount(total, start, start + secs, t)
               p == InterpolateStream(total, start, start + secs, t, claimed, 0)
           IN  /\ p.vested + p.remaining = total - claimed
               /\ p.completed => p.remaining = 0
               /\ p.vested > 0 <=> claimed < given
<1> DEFINE given == VestedAmount(total, start, start + secs, t)
           p == InterpolateStream(total, start, start + secs, t, claimed, 0)
<1>1. given \in 0 .. total /\ (t >= start + secs => given = total)
  <2>1. start + secs \in Nat /\ start < start + secs
    OBVIOUS
  <2>2. t >= start + secs => ~ (t <= start)
    BY <2>1
  <2> QED BY <2>1, <2>2, VestedBounds DEF VestedAmount
<1>2. StreamVested(total, start, start + secs, t) = given
  BY HelpersMatch
<1>3. /\ p.completed <=> t >= start + secs
      /\ p.vested = IF given - (given * 0) \div BPS_SCALE > claimed
                    THEN given - (given * 0) \div BPS_SCALE - claimed ELSE 0
      /\ p.remaining = IF total > claimed THEN total - claimed - p.vested ELSE 0
  BY <1>2 DEF InterpolateStream
<1> HIDE DEF given, p
<1>4. (given * 0) \div BPS_SCALE = 0
  BY <1>1 DEF BPS_SCALE
<1>5. p.vested = IF given > claimed THEN given - claimed ELSE 0
  BY <1>1, <1>3, <1>4
<1>6. p.remaining = IF total > claimed THEN total - claimed - p.vested ELSE 0
  BY <1>3
<1>7. p.vested + p.remaining = total - claimed /\ (p.vested > 0 <=> claimed < given)
  BY <1>1, <1>5, <1>6
<1>8. p.completed => p.remaining = 0
  <2>1. given = total => p.remaining = 0
    BY <1>1, <1>5, <1>6
  <2> QED BY <1>1, <1>3, <2>1
<1> QED BY <1>7, <1>8 DEF given, p

LEMMA ProjectedIsAccepted == PotInv => ProjectedIsWithdrawable
<1> SUFFICES ASSUME PotInv, NEW i \in Ids, Streams(i)
             PROVE  LET p == Projected(i)
                    IN  /\ p.vested + p.remaining = milestones[i].payout - milestones[i].streamed
                        /\ p.completed => p.remaining = 0
                        /\ state \in {"Active", "Completed"} /\ ~ paused /\ ~ Settled =>
                               (p.vested > 0 <=> AcceptsStream({config.recipient}, i))
  BY DEF ProjectedIsWithdrawable
<1> DEFINE m == milestones[i]
<1>1. TypeOK
  BY DEF PotInv, BookInv, CoreInv
<1>2. /\ m.payout \in Nat /\ m.completedAt \in Nat /\ now \in Nat
      /\ m.vestingSecs \in Nat \ {0} /\ m.streamed \in 0 .. m.payout
  <2>1. /\ m.payout \in Nat /\ m.completedAt \in Nat /\ now \in Nat
        /\ m.vestingSecs \in Nat \ {0} /\ m.streamed \in Nat
    BY <1>1 DEF TypeOK, Milestone, Streams
  <2>2. m.streamed <= m.payout
    BY DEF PotInv, NeverPaidEarly, Streams
  <2> QED BY <2>1, <2>2
<1>3. Projected(i) = InterpolateStream(m.payout, m.completedAt,
                                       m.completedAt + m.vestingSecs, now, m.streamed, 0)
  BY DEF Projected
<1>4. Vested(i) = VestedAmount(m.payout, m.completedAt, m.completedAt + m.vestingSecs, now)
  BY DEF Vested
<1>5. /\ Projected(i).vested + Projected(i).remaining = m.payout - m.streamed
      /\ Projected(i).completed => Projected(i).remaining = 0
      /\ Projected(i).vested > 0 <=> m.streamed < Vested(i)
  <2> DEFINE given == VestedAmount(m.payout, m.completedAt,
     m.completedAt + m.vestingSecs, now)
             p == InterpolateStream(m.payout, m.completedAt, m.completedAt + m.vestingSecs,
                                    now, m.streamed, 0)
  <2> HIDE DEF m
  <2>1. /\ p.vested + p.remaining = m.payout - m.streamed
        /\ p.completed => p.remaining = 0
        /\ p.vested > 0 <=> m.streamed < given
    BY <1>2, InterpolationSplits
  <2> HIDE DEF p, given
  <2>2. Projected(i) = p /\ Vested(i) = given
    BY <1>3, <1>4 DEF p, given
  <2> QED BY <2>1, <2>2
<1>6. state \in {"Active", "Completed"} /\ ~ paused /\ ~ Settled =>
          (AcceptsStream({config.recipient}, i) <=> m.streamed < Vested(i))
  BY StreamIsAccepted
<1> QED BY <1>5, <1>6

\* Whatever has been claimed, the projection of a stream shows something withdrawable
\* exactly while the contract would pay a stream, splits what is unpaid into that and
\* what is to come, and leaves nothing to come once the period is over (stream.ts
\* interpolateStream; vesting.rs stream_milestone_payout).
THEOREM ProjectionsAreWithdrawable == Spec => []ProjectedIsWithdrawable
BY PotInvariance, ProjectedIsAccepted, PTL
=============================================================================
