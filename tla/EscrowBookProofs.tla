-------------------------- MODULE EscrowBookProofs --------------------------
(***************************************************************************)
(* Theorems about the contract's bookkeeping, for every number of           *)
(* milestones, every schedule and every set of inputs: the display order,   *)
(* the freezes, the book, the count of approvals, the vesting.              *)
(***************************************************************************)
EXTENDS EscrowProofs, FiniteSetTheorems

-----------------------------------------------------------------------------
(* The display order. *)

\* Where reorder_milestone takes the id at position k from, and where the id
\* at position k goes: two maps that undo each other.
LEMMA MovesAreInverse ==
    ASSUME NEW old \in Ids, NEW position \in Ids
    PROVE  LET from(k) == IF k = position THEN old
                          ELSE IF old <= k /\ k < position THEN k + 1
                          ELSE IF position < k /\ k <= old THEN k - 1
                          ELSE k
               goes(k) == IF k = old THEN position
                          ELSE IF old < k /\ k <= position THEN k - 1
                          ELSE IF position <= k /\ k < old THEN k + 1
                          ELSE k
           IN  \A k \in Ids : /\ from(k) \in Ids /\ goes(k) \in Ids
                              /\ from(goes(k)) = k /\ goes(from(k)) = k
BY ConstantsAssumption DEF Ids

\* Taking an id out of the order and putting it back elsewhere neither loses
\* nor repeats an id.
LEMMA ReorderedListsAll ==
    ASSUME order \in [Ids -> Ids], OrderListsAll, NEW i \in Ids, NEW position \in Ids,
           order' = Reordered(i, position)
    PROVE  OrderListsAll'
<1> DEFINE old == CHOOSE k \in Ids : order[k] = i
           from(k) == IF k = position THEN old
                      ELSE IF old <= k /\ k < position THEN k + 1
                      ELSE IF position < k /\ k <= old THEN k - 1
                      ELSE k
           goes(k) == IF k = old THEN position
                      ELSE IF old < k /\ k <= position THEN k - 1
                      ELSE IF position <= k /\ k < old THEN k + 1
                      ELSE k
<1>1. old \in Ids /\ order[old] = i
  BY DEF OrderListsAll
<1>2. ASSUME NEW k \in Ids PROVE order'[k] = order[from(k)]
  BY <1>1 DEF Reordered
<1> HIDE DEF old
<1>3. \A k \in Ids : /\ from(k) \in Ids /\ goes(k) \in Ids
                     /\ from(goes(k)) = k /\ goes(from(k)) = k
  BY <1>1, MovesAreInverse
<1> HIDE DEF from, goes
<1>4. ASSUME NEW j \in Ids
      PROVE  \E k \in Ids : order'[k] = j /\ \A l \in Ids \ {k} : order'[l] # j
  <2>1. PICK s \in Ids : order[s] = j /\ \A l \in Ids \ {s} : order[l] # j
    BY DEF OrderListsAll
  <2>2. goes(s) \in Ids /\ order'[goes(s)] = j
    BY <1>2, <1>3, <2>1
  <2>3. ASSUME NEW l \in Ids \ {goes(s)} PROVE order'[l] # j
    <3>1. from(l) \in Ids /\ from(l) # s
      BY <1>3
    <3> QED BY <1>2, <2>1, <3>1
  <2> QED BY <2>2, <2>3
<1> QED BY <1>4 DEF OrderListsAll

\* Every step keeps the order a permutation: only initialize and
\* approve_amendment write it.
LEMMA OrderStep == TypeOK /\ OrderListsAll /\ [Next]_vars => OrderListsAll'
<1> SUFFICES ASSUME TypeOK, OrderListsAll, [Next]_vars PROVE OrderListsAll'
  OBVIOUS
<1>1. CASE UNCHANGED order
  BY <1>1 DEF OrderListsAll
<1>2. ASSUME NEW auth \in AuthSets, NEW p \in PartyChoices, NEW s \in Schedules,
             Initialize(auth, p, s)
      PROVE  OrderListsAll'
  BY <1>2 DEF Initialize, OrderListsAll
<1>3. ASSUME NEW auth \in AuthSets, ApproveAmendment(auth)
      PROVE  OrderListsAll'
  <2>1. /\ amendment.id \in Ids /\ amendment.position \in Ids
        /\ order \in [Ids -> Ids]
        /\ order' = Reordered(amendment.id, amendment.position)
    BY <1>3 DEF ApproveAmendment, TypeOK, Amendment
  <2> QED BY <2>1, ReorderedListsAll
<1>4. CASE CloseLedger
  BY <1>1, <1>4 DEF CloseLedger, schedule
<1>5. ASSUME NEW auth \in AuthSets, Setup(auth) PROVE OrderListsAll'
  BY <1>1, <1>2, <1>5 DEF Setup, SetLatePenaltyBps, ConfigureProtocolFee,
     ConfigureArbitrators, DepositFunds, schedule
<1>6. ASSUME NEW auth \in AuthSets, Delivery(auth) PROVE OrderListsAll'
  BY <1>1, <1>6 DEF Delivery, SubmitMilestoneProof, ApproveMilestone,
     StreamMilestonePayout, ApplyLatePenalty
<1>7. ASSUME NEW auth \in AuthSets, Dispute(auth) PROVE OrderListsAll'
  BY <1>1, <1>7 DEF Dispute, RaiseDispute, AppendDisputeEvidence, ResolveDispute,
     SettleDisputeQuorum, Settle, schedule
<1>8. ASSUME NEW auth \in AuthSets, Amend(auth) PROVE OrderListsAll'
  BY <1>1, <1>3, <1>8 DEF Amend, RequestMilestoneAmendment, schedule
<1>9. ASSUME NEW auth \in AuthSets,
             ClaimTimeoutRefund(auth) \/ EmergencyPause(auth) \/ EmergencyUnpause(auth)
      PROVE  OrderListsAll'
  BY <1>1, <1>9 DEF ClaimTimeoutRefund, EmergencyPause, EmergencyUnpause, schedule
<1>10. CASE UNCHANGED vars
  BY <1>1, <1>10 DEF vars, schedule
<1> QED BY <1>4, <1>5, <1>6, <1>7, <1>8, <1>9, <1>10 DEF Next, Invocation

\* However often the parties reorder the schedule, the display order lists
\* every milestone exactly once (milestone.rs reorder_milestone), so the walks
\* of raise_dispute and unstreamed_obligation miss none.
THEOREM OrderIsPermutation == Spec => []OrderListsAll
<1>1. Init => OrderListsAll
  BY DEF Init, OrderListsAll
<1> QED BY <1>1, OrderStep, TypeCorrectness, PTL DEF Spec

-----------------------------------------------------------------------------
(* The freezes. *)

\* What a step may not do: pay or touch a milestone while the escrow stays in
\* dispute, or change anything but the clock while it stays paused.
Frozen ==
    /\ state = "Disputed" /\ state' = "Disputed" => UNCHANGED <<custody, milestones>>
    /\ paused /\ paused' =>
           UNCHANGED <<state, schedule, approved, lockUntil, custody, docket, committee,
                       amendment, terms>>

LEMMA FrozenStep == TypeOK /\ [Next]_vars => Frozen
<1> SUFFICES ASSUME TypeOK, [Next]_vars PROVE Frozen
  OBVIOUS
<1> USE DEF Frozen, NotPaused, Initialized
<1>1. CASE CloseLedger
  BY <1>1 DEF CloseLedger, schedule
<1>2. ASSUME NEW auth \in AuthSets, Setup(auth) PROVE Frozen
  <2>1. \/ state = "Uninitialized" /\ paused' = FALSE
        \/ state = "Pending" /\ ~ paused
        \/ state = "Active" /\ ~ paused
    BY <1>2 DEF Setup, Initialize, SetLatePenaltyBps, ConfigureProtocolFee,
       ConfigureArbitrators, DepositFunds
  <2> QED BY <2>1
<1>3. ASSUME NEW auth \in AuthSets, Delivery(auth) PROVE Frozen
  <2>1. ~ paused
    BY <1>3 DEF Delivery, SubmitMilestoneProof, ApproveMilestone, StreamMilestonePayout,
       AcceptsStream, Bookable,
       ApplyLatePenalty
  <2>2. state = "Disputed" => state' # "Disputed"
    BY <1>3 DEF Delivery, SubmitMilestoneProof, ApproveMilestone, StateAfterApproval,
       StreamMilestonePayout, AcceptsStream, StreamableStates, ApplyLatePenalty
  <2> QED BY <2>1, <2>2
<1>4. ASSUME NEW auth \in AuthSets, ClaimTimeoutRefund(auth) PROVE Frozen
  BY <1>4 DEF ClaimTimeoutRefund, AcceptsTimeoutRefund
<1>5. ASSUME NEW auth \in AuthSets, Dispute(auth) PROVE Frozen
  BY <1>5 DEF Dispute, RaiseDispute, AppendDisputeEvidence, ResolveDispute,
     SettleDisputeQuorum, Settle, schedule
<1>6. ASSUME NEW auth \in AuthSets, Amend(auth) PROVE Frozen
  <2>1. ~ paused /\ UNCHANGED custody
    BY <1>6 DEF Amend, RequestMilestoneAmendment, ApproveAmendment
  <2>2. state = "Disputed" => UNCHANGED milestones
    BY <1>6 DEF Amend, RequestMilestoneAmendment, ApproveAmendment, Repriced, schedule
  <2> QED BY <2>1, <2>2
<1>7. ASSUME NEW auth \in AuthSets, EmergencyPause(auth) \/ EmergencyUnpause(auth)
      PROVE  Frozen
  BY <1>7 DEF EmergencyPause, EmergencyUnpause, schedule
<1>8. CASE UNCHANGED vars
  BY <1>8 DEF vars, schedule
<1> QED BY <1>1, <1>2, <1>3, <1>4, <1>5, <1>6, <1>7, <1>8 DEF Next, Invocation

\* A dispute freezes the money and the milestones until the step that ends it
\* (raise_dispute, "Freeze unreleased milestone balances"); a pause freezes all
\* of the contract until the unpause (emergency_pause), whichever entrypoint is
\* called with whatever authorizations.
THEOREM FreezesAreKept == Spec => FreezesHold
<1>1. [Next]_vars /\ TypeOK => [Frozen]_vars
  BY FrozenStep
<1> QED BY <1>1, TypeCorrectness, PTL DEF Spec, FreezesHold, Frozen

-----------------------------------------------------------------------------
(* The book is explained by the milestones. *)

\* BookMatchesMilestones is not inductive alone.  Nothing has been streamed of a
\* milestone that is not approved, and nothing is approved before the deposit,
\* so the deposit starts from a streamed total of zero; a settled escrow is
\* complete, so no penalty and no second dispute can follow a settlement; and
\* the order misses no milestone, so a reorder leaves the obligation alone.
BookInv ==
    /\ CoreInv
    /\ OrderListsAll
    /\ BookMatchesMilestones
    /\ \A i \in Ids : ~ milestones[i].isApproved => milestones[i].streamed = 0
    /\ ~ Funded => \A i \in Ids : ~ milestones[i].isApproved
    /\ Settled => state = "Completed"

\* A step that leaves payouts, streams and approvals alone leaves the totals alone.
SameAccounts ==
    \A i \in Ids : /\ milestones'[i].payout = milestones[i].payout
                   /\ milestones'[i].streamed = milestones[i].streamed
                   /\ milestones'[i].isApproved = milestones[i].isApproved

LEMMA SameTotals ==
    ASSUME OrderListsAll, OrderListsAll', SameAccounts
    PROVE  /\ PayoutTotal' = PayoutTotal
           /\ StreamedTotal' = StreamedTotal
           /\ UnstreamedObligation' = UnstreamedObligation
<1>1. [i \in Ids |-> milestones'[i].payout] = [i \in Ids |-> milestones[i].payout]
  BY DEF SameAccounts
<1>2. [i \in Ids |-> milestones'[i].streamed] = [i \in Ids |-> milestones[i].streamed]
  BY DEF SameAccounts
<1>3. \A i \in Ids : Listed(i) /\ Listed(i)'
  BY DEF OrderListsAll, Listed
<1>4. Owed' = Owed
  BY <1>3 DEF SameAccounts, Owed
<1> QED BY <1>1, <1>2, <1>4 DEF PayoutTotal, StreamedTotal, UnstreamedObligation

\* A step that moves no money, changes no state and leaves the accounts alone
\* keeps the book explained.
LEMMA BookKept ==
    ASSUME BookInv, CoreInv', OrderListsAll', SameAccounts,
           UNCHANGED <<config, book, dispute>>,
           \/ state' = state
           \/ state = "Active" /\ state' = "Disputed"
    PROVE  BookInv'
<1>1. /\ PayoutTotal' = PayoutTotal
      /\ StreamedTotal' = StreamedTotal
      /\ UnstreamedObligation' = UnstreamedObligation
  BY SameTotals DEF BookInv
<1>2. BookMatchesMilestones'
  BY <1>1 DEF BookInv, BookMatchesMilestones, Funded, Settled, Locked
<1>3. Settled' => state' = "Completed"
  BY DEF BookInv, Settled
<1> QED BY <1>2, <1>3 DEF BookInv, SameAccounts, Funded

\* The sum of what has been streamed changes by what one milestone streams.
LEMMA StreamedTotalChange ==
    ASSUME NEW ms \in [Ids -> Milestone], NEW new \in [Ids -> Milestone], NEW i \in Ids,
           \A k \in Ids : k # i => new[k].streamed = ms[k].streamed
    PROVE  SumTo([k \in Ids |-> new[k].streamed], N)
             = SumTo([k \in Ids |-> ms[k].streamed], N) + new[i].streamed - ms[i].streamed
<1> DEFINE f == [k \in Ids |-> ms[k].streamed]
           g == [k \in Ids |-> new[k].streamed]
<1>1. \A k \in 1 .. N : f[k] \in Int /\ g[k] \in Int
  BY DEF Ids, Milestone
<1>2. \A k \in 1 .. N : k # i => g[k] = f[k]
  BY DEF Ids
<1>3. f[i] = ms[i].streamed /\ g[i] = new[i].streamed /\ i \in 1 .. N
  BY DEF Ids
<1> HIDE DEF f, g
<1>4. SumTo(g, N) = SumTo(f, N) + g[i] - f[i]
  BY <1>1, <1>2, <1>3, SumChange, ConstantsAssumption
<1> QED BY <1>3, <1>4 DEF f, g

\* While nothing is streamed of any milestone, the streamed total is zero.
LEMMA NothingStreamed ==
    ASSUME \A i \in Ids : milestones[i].streamed = 0
    PROVE  StreamedTotal = 0
<1> DEFINE f == [i \in Ids |-> milestones[i].streamed]
<1>1. \A i \in 1 .. N : f[i] = 0
  BY DEF Ids
<1> HIDE DEF f
<1>2. SumTo(f, N) = 0
  BY <1>1, SumZero, ConstantsAssumption
<1> QED BY <1>2 DEF f, StreamedTotal

LEMMA TotalsAreInt ==
    ASSUME TypeOK
    PROVE  PayoutTotal \in Int /\ StreamedTotal \in Int
<1> DEFINE f == [i \in Ids |-> milestones[i].payout]
           g == [i \in Ids |-> milestones[i].streamed]
<1>1. \A i \in 1 .. N : f[i] \in Int /\ g[i] \in Int
  BY DEF TypeOK, Ids, Milestone
<1> HIDE DEF f, g
<1>2. SumTo(f, N) \in Int /\ SumTo(g, N) \in Int
  BY <1>1, SumInt, ConstantsAssumption
<1> QED BY <1>2 DEF f, g, PayoutTotal, StreamedTotal

\* A step that streams to one milestone what it books as released keeps the
\* book explained: an approval that pays at once, an approval that pays
\* nothing yet, and a stream.
LEMMA BookPaid ==
    ASSUME BookInv, CoreInv', OrderListsAll', NEW i \in Ids,
           Funded, ~ Settled, state # "Cancelled", state' \in {"Active", "Completed"},
           UNCHANGED <<config, dispute>>,
           \A k \in Ids : milestones'[k].payout = milestones[k].payout,
           \A k \in Ids : k # i => /\ milestones'[k].streamed = milestones[k].streamed
                                   /\ milestones'[k].isApproved = milestones[k].isApproved,
           milestones'[i].isApproved,
           book'.deposited = book.deposited,
           book'.refunded = book.refunded,
           book'.released = book.released + (milestones'[i].streamed - milestones[i].streamed)
    PROVE  BookInv'
<1>1. milestones \in [Ids -> Milestone] /\ milestones' \in [Ids -> Milestone]
  BY DEF BookInv, CoreInv, TypeOK
<1>2. PayoutTotal' = PayoutTotal
  <2>1. [k \in Ids |-> milestones'[k].payout] = [k \in Ids |-> milestones[k].payout]
    OBVIOUS
  <2> QED BY <2>1 DEF PayoutTotal
<1>3. /\ StreamedTotal' = StreamedTotal + milestones'[i].streamed - milestones[i].streamed
      /\ StreamedTotal \in Int
      /\ milestones[i].streamed \in Int /\ milestones'[i].streamed \in Int
  <2>1. StreamedTotal \in Int
    BY TotalsAreInt DEF BookInv, CoreInv
  <2>2. milestones[i].streamed \in Int /\ milestones'[i].streamed \in Int
    BY <1>1 DEF Milestone
  <2> QED BY <1>1, <2>1, <2>2, StreamedTotalChange DEF StreamedTotal
<1>4. book.released = StreamedTotal
  BY DEF BookInv, BookMatchesMilestones
<1>5. book'.released = StreamedTotal'
  BY <1>3, <1>4
<1>6. ~ Settled' /\ Funded'
  BY DEF Settled, Funded
<1>7. BookMatchesMilestones'
  BY <1>2, <1>5, <1>6 DEF BookInv, BookMatchesMilestones
<1>8. \A k \in Ids : ~ milestones'[k].isApproved => milestones'[k].streamed = 0
  BY DEF BookInv
<1> QED BY <1>6, <1>7, <1>8 DEF BookInv

\* initialize, the setters of terms and deposit_funds keep the book explained.
LEMMA BookSetup ==
    ASSUME BookInv, CoreInv', OrderListsAll', NEW auth \in AuthSets, Setup(auth)
    PROVE  BookInv'
<1>1. ASSUME NEW p \in PartyChoices, NEW s \in Schedules, Initialize(auth, p, s)
      PROVE  BookInv'
  <2>1. \A i \in Ids : ~ milestones'[i].isApproved /\ milestones'[i].streamed = 0
    BY <1>1 DEF Initialize, FreshMilestone
  <2>2. /\ state' = "Pending" /\ ~ Funded' /\ ~ Settled
        /\ UNCHANGED dispute /\ book' = EmptyBook
    BY <1>1 DEF Initialize, Initialized, BookInv, Funded, docket
  <2>3. ~ Settled'
    BY <2>2 DEF Settled
  <2>4. config'.total = PayoutTotal'
    BY <2>2 DEF CoreInv
  <2> QED BY <2>1, <2>2, <2>3, <2>4 DEF BookInv, BookMatchesMilestones
<1>2. ASSUME NEW allowance \in Allowances, DepositFunds(auth, allowance)
      PROVE  BookInv'
  <2>1. /\ state = "Pending" /\ state' = "Active" /\ ~ Funded /\ Funded'
        /\ UNCHANGED <<config, milestones, order, dispute>>
        /\ book' = [book EXCEPT !.deposited = config.total]
    BY <1>2 DEF DepositFunds, Funded, schedule, docket
  <2>2. book = EmptyBook /\ config.total = PayoutTotal
    BY <2>1 DEF BookInv, CoreInv
  <2>3. book' = [deposited |-> config.total, released |-> 0, refunded |-> 0]
    BY <2>1, <2>2 DEF EmptyBook
  <2>4. /\ ~ Settled /\ ~ Settled'
        /\ \A i \in Ids : ~ milestones[i].isApproved /\ milestones[i].streamed = 0
    BY <2>1 DEF BookInv, Settled
  <2>5. StreamedTotal' = 0 /\ PayoutTotal' = PayoutTotal /\ PayoutTotal \in Int
    <3>1. StreamedTotal = 0
      BY <2>4, NothingStreamed
    <3>2. PayoutTotal \in Int
      BY TotalsAreInt DEF BookInv, CoreInv
    <3> QED BY <2>1, <3>1, <3>2 DEF StreamedTotal, PayoutTotal
  <2>6. BookMatchesMilestones'
    BY <2>1, <2>2, <2>3, <2>4, <2>5 DEF BookMatchesMilestones
  <2> QED BY <2>1, <2>4, <2>6 DEF BookInv
<1>3. ASSUME UNCHANGED <<state, config, milestones, book, dispute>> PROVE BookInv'
  BY <1>3, BookKept DEF SameAccounts
<1> QED BY <1>1, <1>2, <1>3 DEF Setup, SetLatePenaltyBps, ConfigureProtocolFee,
       ConfigureArbitrators, schedule, custody, docket

\* submit_milestone_proof, approve_milestone, stream_milestone_payout and
\* apply_late_penalty keep the book explained.
LEMMA BookDelivery ==
    ASSUME BookInv, CoreInv', OrderListsAll', NEW auth \in AuthSets, Delivery(auth)
    PROVE  BookInv'
<1>1. /\ TypeOK /\ Solvent /\ config.recipient \in Address
      /\ milestones \in [Ids -> Milestone]
  BY DEF BookInv, CoreInv, TypeOK, Config
<1>2. ASSUME NEW i \in Ids, SubmitMilestoneProof(auth, i)
      PROVE  BookInv'
  <2>1. SameAccounts
    <3>1. milestones' = [milestones EXCEPT ![i].status = "UnderReview",
                                           ![i].submittedAt = now]
      BY <1>2 DEF SubmitMilestoneProof
    <3> QED BY <1>1, <3>1 DEF SameAccounts, Milestone
  <2> QED BY <1>2, <2>1, BookKept DEF SubmitMilestoneProof, custody, docket
<1>3. ASSUME NEW i \in Ids, ApproveMilestone(auth, i)
      PROVE  BookInv'
  <2>1. /\ state \in {"Active", "Disputed"} /\ Funded /\ ~ Settled
        /\ ~ milestones[i].isApproved /\ milestones[i].streamed = 0
        /\ milestones[i] \in Milestone
    BY <1>1, <1>3 DEF ApproveMilestone, Releaser, BookInv, Funded, Open
  <2>2. /\ milestones'[i].isApproved
        /\ milestones'[i].payout = milestones[i].payout
        /\ \A k \in Ids : k # i => milestones'[k] = milestones[k]
    BY <1>1, <1>3, <2>1 DEF ApproveMilestone, MarkApproved, Milestone
  <2>3. /\ book'.deposited = book.deposited
        /\ book'.refunded = book.refunded
        /\ book'.released = book.released + (milestones'[i].streamed - milestones[i].streamed)
    <3>0. book.released \in Int /\ milestones[i].payout \in Int
      BY <1>1, <2>1 DEF TypeOK, Book, Milestone
    <3>1. CASE milestones[i].vestingSecs > 0
      <4>1. milestones'[i].streamed = 0 /\ UNCHANGED book
        BY <1>1, <1>3, <2>1, <3>1 DEF ApproveMilestone, MarkApproved, custody, Milestone
      <4> QED BY <2>1, <3>0, <4>1
    <3>2. CASE ~ (milestones[i].vestingSecs > 0)
      <4>1. /\ milestones'[i].streamed = milestones[i].payout
            /\ PayWithFee(milestones[i].payout)
        BY <1>1, <1>3, <2>1, <3>2 DEF ApproveMilestone, MarkApproved, Milestone
      <4> QED BY <1>1, <2>1, <3>0, <4>1, PayWithFeeFacts
    <3> QED BY <3>1, <3>2
  <2>4. /\ state' \in {"Active", "Completed"}
        /\ UNCHANGED <<config, dispute>>
        /\ state # "Cancelled"
    BY <1>3, <2>1 DEF ApproveMilestone, StateAfterApproval, docket
  <2> QED BY <2>1, <2>2, <2>3, <2>4, BookPaid
<1>4. ASSUME NEW i \in Ids, StreamMilestonePayout(auth, i)
      PROVE  BookInv'
  <2> DEFINE m == milestones[i]
             unpaid == Vested(i) - m.streamed
  <2>1. /\ m.isApproved /\ unpaid > 0 /\ PayWithFee(unpaid)
        /\ state \in {"Active", "Completed"} /\ state' = state
        /\ UNCHANGED <<config, dispute>>
    BY <1>4 DEF StreamMilestonePayout, AcceptsStream, Bookable, StreamableStates, docket
  <2>2. m \in Milestone /\ m.streamed \in Nat /\ now \in Nat
    BY <1>1 DEF TypeOK, Milestone
  <2>3. unpaid \in Int
    <3>1. /\ m.payout \in Nat /\ m.completedAt \in Nat
          /\ m.completedAt + m.vestingSecs \in Nat
          /\ m.completedAt < m.completedAt + m.vestingSecs
      BY <1>4, <2>2 DEF Milestone, StreamMilestonePayout, AcceptsStream
    <3>2. VestedAmount(m.payout, m.completedAt, m.completedAt + m.vestingSecs, now)
              \in 0 .. m.payout
      BY <2>2, <3>1, VestedBounds
    <3> QED BY <2>2, <3>1, <3>2 DEF Vested
  <2>4. milestones' = [milestones EXCEPT
               ![i].streamed = @ + unpaid,
               ![i].status = IF m.streamed + unpaid >= m.payout THEN "Released" ELSE @]
    BY <1>4 DEF StreamMilestonePayout
  <2> HIDE DEF unpaid
  <2>5. /\ milestones'[i].streamed = m.streamed + unpaid
        /\ milestones'[i].payout = m.payout
        /\ milestones'[i].isApproved
        /\ \A k \in Ids : k # i => milestones'[k] = milestones[k]
    BY <1>1, <2>1, <2>2, <2>4 DEF Milestone
  <2>6. /\ book'.deposited = book.deposited
        /\ book'.refunded = book.refunded
        /\ book'.released = book.released + unpaid
    BY <1>1, <2>1, <2>3, PayWithFeeFacts
  <2>7. milestones'[i].streamed - milestones[i].streamed = unpaid
    BY <2>2, <2>3, <2>5
  <2>8. ~ Settled
    <3>1. Settled => Locked = 0
      BY DEF BookInv, BookMatchesMilestones
    <3>2. Locked # 0
      BY <2>1, <2>3 DEF PayWithFee, Bookable
    <3> QED BY <3>1, <3>2
  <2> QED BY <2>1, <2>5, <2>6, <2>7, <2>8, BookPaid DEF Funded
<1>5. ASSUME NEW i \in Ids, ApplyLatePenalty(auth, i)
      PROVE  BookInv'
  <2> DEFINE cut == ApplyPenalty(milestones[i].payout, penaltyBps)
  <2>1. /\ milestones[i] \in Milestone /\ penaltyBps \in 0 .. BPS_SCALE
        /\ state = "Active" /\ state' = "Active" /\ Funded /\ Funded'
        /\ ~ Settled /\ ~ Settled'
        /\ UNCHANGED <<config, dispute>>
    BY <1>1, <1>5 DEF TypeOK, ApplyLatePenalty, BookInv, Funded, Settled, docket
  <2>2. cut.slash \in Nat /\ cut.remaining \in Nat
        /\ cut.remaining = milestones[i].payout - cut.slash
    <3>1. milestones[i].payout \in Nat
      BY <2>1 DEF Milestone
    <3>2. ApplyBps(milestones[i].payout, penaltyBps) \in 0 .. milestones[i].payout
      BY <2>1, <3>1, ApplyBpsBounds
    <3> QED BY <3>1, <3>2 DEF ApplyPenalty
  <2>3. milestones' = [milestones EXCEPT ![i].payout = cut.remaining,
                                         ![i].penaltyApplied = TRUE]
    BY <1>5 DEF ApplyLatePenalty
  <2>4. IF cut.slash = 0 THEN UNCHANGED custody ELSE Refund(cut.slash)
    BY <1>5 DEF ApplyLatePenalty
  <2> HIDE DEF cut
  <2>5. /\ milestones'[i].payout = milestones[i].payout - cut.slash
        /\ \A k \in Ids : /\ milestones'[k].streamed = milestones[k].streamed
                          /\ milestones'[k].isApproved = milestones[k].isApproved
                          /\ k # i => milestones'[k].payout = milestones[k].payout
    BY <1>1, <2>1, <2>2, <2>3 DEF Milestone
  <2>6. /\ book'.deposited = book.deposited
        /\ book'.released = book.released
        /\ book'.refunded = book.refunded + cut.slash
    <3>1. CASE cut.slash = 0
      BY <1>1, <2>4, <3>1 DEF custody, TypeOK, Book
    <3>2. CASE cut.slash # 0
      BY <1>1, <2>2, <2>4, <3>2, RefundFacts
    <3> QED BY <3>1, <3>2
  <2>7. StreamedTotal' = StreamedTotal
    <3>1. [k \in Ids |-> milestones'[k].streamed] = [k \in Ids |-> milestones[k].streamed]
      BY <2>5
    <3> QED BY <3>1 DEF StreamedTotal
  <2>8. PayoutTotal' = PayoutTotal - cut.slash
    <3>1. milestones' \in [Ids -> Milestone] /\ milestones[i].payout \in Int
      BY <2>1 DEF CoreInv, TypeOK, Milestone
    <3>2. PayoutTotal \in Int
      BY <1>1, TotalsAreInt
    <3>3. PayoutTotal' = PayoutTotal + milestones'[i].payout - milestones[i].payout
      BY <1>1, <2>5, <3>1, PayoutTotalChange DEF PayoutTotal
    <3> QED BY <2>2, <2>5, <3>1, <3>2, <3>3
  <2>9. BookMatchesMilestones'
    <3>1. book.refunded \in Int /\ config.total \in Int /\ PayoutTotal \in Int
      BY <1>1, TotalsAreInt DEF TypeOK, Book, Config
    <3>2. /\ book.deposited = config.total /\ book.released = StreamedTotal
          /\ book.refunded = config.total - PayoutTotal
      BY <2>1 DEF BookInv, BookMatchesMilestones
    <3>3. book'.refunded = config'.total - PayoutTotal'
      BY <2>1, <2>2, <2>6, <2>8, <3>1, <3>2
    <3> QED BY <2>1, <2>6, <2>7, <3>2, <3>3 DEF BookMatchesMilestones
  <2> QED BY <2>1, <2>5, <2>9 DEF BookInv
<1> QED BY <1>2, <1>3, <1>4, <1>5 DEF Delivery

\* claim_timeout_refund leaves exactly the promised tokens locked.
LEMMA BookTimeout ==
    ASSUME BookInv, CoreInv', OrderListsAll', NEW auth \in AuthSets,
           ClaimTimeoutRefund(auth)
    PROVE  BookInv'
<1>1. TypeOK /\ Solvent
  BY DEF BookInv, CoreInv
<1>2. /\ state = "Active" /\ state' = "Cancelled"
      /\ UNCHANGED <<config, milestones, order, dispute>>
      /\ Refund(Locked - UnstreamedObligation)
      /\ ~ Settled /\ ~ Settled' /\ Funded /\ Funded'
  BY DEF ClaimTimeoutRefund, AcceptsTimeoutRefund, schedule, docket, BookInv, Settled,
     Funded
<1>3. /\ Locked \in Int /\ UnstreamedObligation \in Int
      /\ book.deposited \in Int /\ book.released \in Int /\ book.refunded \in Int
  BY <1>1, ObligationIsInt DEF TypeOK, Book, Locked
<1>4. /\ book'.deposited = book.deposited
      /\ book'.released = book.released
      /\ book'.refunded = book.refunded + (Locked - UnstreamedObligation)
  BY <1>1, <1>2, <1>3, RefundFacts
<1>5. /\ StreamedTotal' = StreamedTotal
      /\ UnstreamedObligation' = UnstreamedObligation
  BY <1>2, SameTotals DEF SameAccounts, BookInv
<1>6. Locked' = UnstreamedObligation'
  BY <1>3, <1>4, <1>5 DEF Locked
<1>7. BookMatchesMilestones'
  BY <1>2, <1>4, <1>5, <1>6 DEF BookInv, BookMatchesMilestones
<1> QED BY <1>2, <1>7 DEF BookInv

\* resolve_dispute and settle_dispute_quorum empty the book.
LEMMA BookSettle ==
    ASSUME BookInv, CoreInv', OrderListsAll', NEW s \in SplitChoices, Settle(s[1], s[2])
    PROVE  BookInv'
<1>1. TypeOK /\ Solvent
  BY DEF BookInv, CoreInv
<1>2. s[1] \in 0 .. BPS_SCALE
  <2>1. s[1] \in Nat /\ s[2] \in Nat
    BY InputsAssumption
  <2>2. s[1] + s[2] = BPS_SCALE
    BY DEF Settle, FullBps
  <2>3. \A a, b \in Nat : a + b = BPS_SCALE => a \in 0 .. BPS_SCALE
    BY DEF BPS_SCALE
  <2> QED BY <2>1, <2>2, <2>3
<1>3. Locked' = 0 /\ book'.deposited = book.deposited
  BY <1>1, <1>2, SettledMoneyFacts DEF Settle
<1>4. /\ state = "Disputed" /\ state' = "Completed" /\ Settled' /\ Funded /\ Funded'
      /\ UNCHANGED <<config, milestones, order>>
  BY DEF Settle, schedule, Settled, Funded
<1>5. BookMatchesMilestones'
  BY <1>3, <1>4 DEF BookInv, BookMatchesMilestones
<1> QED BY <1>4, <1>5 DEF BookInv

\* raise_dispute and append_dispute_evidence move no money.
LEMMA BookDispute ==
    ASSUME BookInv, CoreInv', OrderListsAll', NEW auth \in AuthSets, Dispute(auth)
    PROVE  BookInv'
<1>1. ASSUME RaiseDispute(auth) PROVE BookInv'
  <2>1. SameAccounts
    <3>1. ASSUME NEW i \in Ids
          PROVE  /\ MarkedDisputed[i].payout = milestones[i].payout
                 /\ MarkedDisputed[i].streamed = milestones[i].streamed
                 /\ MarkedDisputed[i].isApproved = milestones[i].isApproved
      <4>1. milestones[i] \in Milestone
        BY DEF BookInv, CoreInv, TypeOK
      <4> QED BY <4>1 DEF MarkedDisputed, Milestone
    <3> QED BY <1>1, <3>1 DEF RaiseDispute, SameAccounts
  <2>2. /\ state = "Active" /\ state' = "Disputed" /\ dispute' = "Open"
        /\ UNCHANGED <<config, book>>
        /\ ~ Settled /\ ~ Settled' /\ Funded /\ Funded'
    BY <1>1 DEF RaiseDispute, custody, BookInv, Settled, Funded
  <2>3. PayoutTotal' = PayoutTotal /\ StreamedTotal' = StreamedTotal
    BY <2>1, SameTotals DEF BookInv
  <2>4. BookMatchesMilestones'
    BY <2>2, <2>3 DEF BookInv, BookMatchesMilestones
  <2> QED BY <2>1, <2>2, <2>4 DEF BookInv, SameAccounts
<1>2. ASSUME NEW actor \in auth, NEW hash \in Hashes, AppendDisputeEvidence(auth, actor, hash)
      PROVE  BookInv'
  BY <1>2, BookKept DEF AppendDisputeEvidence, SameAccounts, schedule, custody
<1> QED BY <1>1, <1>2, BookSettle DEF Dispute, ResolveDispute, SettleDisputeQuorum

\* request_milestone_amendment and approve_amendment keep the book explained:
\* a payout is only rewritten before the deposit, and a reorder of the list
\* leaves the obligation alone.
LEMMA BookAmend ==
    ASSUME BookInv, CoreInv', OrderListsAll', NEW auth \in AuthSets, Amend(auth)
    PROVE  BookInv'
<1>1. ASSUME NEW actor \in auth, NEW i \in Ids, NEW payout \in AmendedPayouts,
             NEW position \in Ids, RequestMilestoneAmendment(auth, actor, i, payout, position)
      PROVE  BookInv'
  BY <1>1, BookKept DEF RequestMilestoneAmendment, SameAccounts, schedule, custody, docket
<1>2. ASSUME ApproveAmendment(auth)
      PROVE  BookInv'
  <2>1. UNCHANGED <<state, book, dispute>>
    BY <1>2 DEF ApproveAmendment, custody, docket
  <2>2. CASE state = "Pending"
    <3>1. milestones' = [milestones EXCEPT ![amendment.id].payout = amendment.payout]
      BY <1>2, <2>2 DEF ApproveAmendment, Repriced
    <3>2. \A k \in Ids : /\ milestones'[k].isApproved = milestones[k].isApproved
                         /\ milestones'[k].streamed = milestones[k].streamed
      <4>1. milestones \in [Ids -> Milestone]
        BY DEF BookInv, CoreInv, TypeOK
      <4> QED BY <3>1, <4>1 DEF Milestone
    <3>3. ~ Funded' /\ ~ Funded /\ ~ Settled /\ ~ Settled'
      BY <2>1, <2>2 DEF BookInv, Funded, Settled
    <3>4. book' = EmptyBook /\ config'.total = PayoutTotal' /\ state' = "Pending"
      BY <2>1, <2>2, <3>3 DEF CoreInv
    <3>5. BookMatchesMilestones'
      BY <3>3, <3>4 DEF BookMatchesMilestones
    <3> QED BY <3>2, <3>3, <3>5 DEF BookInv
  <2>3. CASE state # "Pending"
    <3>1. UNCHANGED <<milestones, config>>
      BY <1>2, <2>3 DEF ApproveAmendment, Repriced
    <3> QED BY <2>1, <3>1, BookKept DEF SameAccounts
  <2> QED BY <2>2, <2>3
<1> QED BY <1>1, <1>2 DEF Amend

\* A deployed contract with empty storage satisfies the invariant.
LEMMA BookInit == Init => BookInv
<1> SUFFICES ASSUME Init PROVE BookInv
  OBVIOUS
<1>1. CoreInv
  BY CoreInit
<1>2. OrderListsAll
  BY DEF Init, OrderListsAll
<1>3. \A i \in Ids : ~ milestones[i].isApproved /\ milestones[i].streamed = 0
  BY DEF Init, FreshMilestone
<1>4. state = "Uninitialized" /\ ~ Funded /\ ~ Settled /\ book = EmptyBook
  BY DEF Init, Funded, Settled
<1> QED BY <1>1, <1>2, <1>3, <1>4 DEF BookInv, BookMatchesMilestones

\* Every step of the contract keeps the book explained.
LEMMA BookStep == BookInv /\ [Next]_vars => BookInv'
<1> SUFFICES ASSUME BookInv, [Next]_vars PROVE BookInv'
  OBVIOUS
<1>1. CoreInv' /\ OrderListsAll'
  BY CoreStep, OrderStep DEF BookInv, CoreInv
<1>2. CASE UNCHANGED <<state, config, milestones, book, dispute>>
  BY <1>1, <1>2, BookKept DEF SameAccounts
<1>3. CASE CloseLedger
  BY <1>2, <1>3 DEF CloseLedger, schedule, custody, docket
<1>4. ASSUME NEW auth \in AuthSets, EmergencyPause(auth) \/ EmergencyUnpause(auth)
      PROVE  BookInv'
  BY <1>2, <1>4 DEF EmergencyPause, EmergencyUnpause, schedule, custody, docket
<1>5. CASE UNCHANGED vars
  BY <1>2, <1>5 DEF vars, schedule, custody, docket
<1> QED BY <1>1, <1>3, <1>4, <1>5, BookSetup, BookDelivery, BookTimeout, BookDispute,
       BookAmend DEF Next, Invocation

\* Whatever the fees, streams, penalties, refunds, disputes and amendments, the
\* book is what the milestones explain: what the contract released was streamed,
\* what it refunded was cut from a payout, and a refund after the lock window
\* leaves exactly the tokens promised by the approvals (approve_milestone,
\* apply_late_penalty, claim_timeout_refund).
THEOREM BookIsExplained == Spec => []BookMatchesMilestones
<1>1. BookInv => BookMatchesMilestones
  BY DEF BookInv
<1> QED BY <1>1, BookInit, BookStep, PTL DEF Spec

-----------------------------------------------------------------------------
(* What the entrypoints do to approvals and to the accounts of milestones. *)

\* The three ways a step treats the accounts: initialize starts them, before
\* the deposit an amendment may reprice, and the delivery entrypoints change
\* one milestone.
Approves(i) ==
    /\ state \in {"Active", "Disputed"}
    /\ ~ milestones[i].isApproved
    /\ MarkApproved(i)
    /\ approved' = approved + 1
    /\ state' = StateAfterApproval(approved + 1)
    /\ UNCHANGED <<config, dispute, now>>

PaysStream(i) ==
    /\ milestones[i].isApproved
    /\ milestones[i].vestingSecs # 0
    /\ Vested(i) - milestones[i].streamed > 0
    /\ milestones' = [milestones EXCEPT
           ![i].streamed = @ + (Vested(i) - milestones[i].streamed),
           ![i].status = IF milestones[i].streamed + (Vested(i) - milestones[i].streamed)
                              >= milestones[i].payout
                         THEN "Released" ELSE @]

\* Approved milestones keep all that their vesting depends on.
ApprovedUntouched ==
    \A i \in Ids : /\ milestones'[i].isApproved = milestones[i].isApproved
                   /\ milestones'[i].streamed = milestones[i].streamed
                   /\ milestones[i].isApproved =>
                        /\ milestones'[i].payout = milestones[i].payout
                        /\ milestones'[i].completedAt = milestones[i].completedAt
                        /\ milestones'[i].vestingSecs = milestones[i].vestingSecs

\* The states a step that approves nothing may lead to, and what else it keeps.
QuietMove ==
    /\ approved' = approved
    /\ state # "Uninitialized"
    /\ config'.threshold = config.threshold
    /\ \/ state' = state /\ dispute' = dispute
       \/ state = "Pending" /\ state' = "Active" /\ dispute' = dispute
       \/ /\ state = "Active" /\ state' \in {"Disputed", "Cancelled"}
          /\ dispute' \in {"Open", dispute}
       \/ state = "Disputed" /\ state' = "Completed" /\ dispute' = "Resolved"

Fresh ==
    /\ state = "Uninitialized" /\ state' = "Pending"
    /\ UNCHANGED dispute
    /\ config'.threshold = N
    /\ approved' = 0
    /\ \A i \in Ids : ~ milestones'[i].isApproved /\ milestones'[i].streamed = 0

\* Every step is one of these, whichever entrypoint takes it.
Step ==
    \/ Fresh
    \/ \E i \in Ids : Approves(i)
    \/ QuietMove /\ ApprovedUntouched /\ now' = now
    \/ QuietMove /\ now' = now /\ \E i \in Ids : PaysStream(i)
    \/ UNCHANGED <<state, config, approved, dispute, milestones>> /\ now' \in {now, now + 1}

LEMMA SameMilestones ==
    ASSUME UNCHANGED milestones
    PROVE  ApprovedUntouched
BY DEF ApprovedUntouched

LEMMA SetupSteps ==
    ASSUME TypeOK, NEW auth \in AuthSets, Setup(auth)
    PROVE  Step
<1>1. ASSUME NEW p \in PartyChoices, NEW s \in Schedules, Initialize(auth, p, s)
      PROVE  Fresh
  BY <1>1 DEF Initialize, Initialized, Fresh, FreshMilestone, docket
<1>2. ASSUME NEW allowance \in Allowances, DepositFunds(auth, allowance)
      PROVE  QuietMove /\ ApprovedUntouched /\ now' = now
  BY <1>2, SameMilestones DEF DepositFunds, QuietMove, schedule, docket
<1>3. ASSUME UNCHANGED <<state, config, approved, dispute, milestones, now>> PROVE Step
  BY <1>3 DEF Step
<1> QED BY <1>1, <1>2, <1>3 DEF Setup, SetLatePenaltyBps, ConfigureProtocolFee,
       ConfigureArbitrators, schedule, docket, Step

LEMMA DeliverySteps ==
    ASSUME TypeOK, NEW auth \in AuthSets, Delivery(auth)
    PROVE  Step
<1>1. ASSUME NEW i \in Ids, SubmitMilestoneProof(auth, i)
      PROVE  QuietMove /\ ApprovedUntouched /\ now' = now
  <2>1. QuietMove /\ now' = now
    BY <1>1 DEF SubmitMilestoneProof, QuietMove, docket
  <2>2. /\ milestones \in [Ids -> Milestone]
        /\ milestones' = [milestones EXCEPT ![i].status = "UnderReview",
                                            ![i].submittedAt = now]
    BY <1>1 DEF SubmitMilestoneProof, TypeOK
  <2>3. ApprovedUntouched
    BY <2>2 DEF ApprovedUntouched, Milestone
  <2> QED BY <2>1, <2>3
<1>2. ASSUME NEW i \in Ids, ApproveMilestone(auth, i)
      PROVE  Approves(i)
  BY <1>2 DEF ApproveMilestone, Approves, Releaser, Open, docket
<1>3. ASSUME NEW i \in Ids, StreamMilestonePayout(auth, i)
      PROVE  QuietMove /\ now' = now /\ PaysStream(i)
  BY <1>3 DEF StreamMilestonePayout, AcceptsStream, Bookable, StreamableStates,
     QuietMove, PaysStream, docket
<1>4. ASSUME NEW i \in Ids, ApplyLatePenalty(auth, i)
      PROVE  QuietMove /\ ApprovedUntouched /\ now' = now
  <2> DEFINE remaining == ApplyPenalty(milestones[i].payout, penaltyBps).remaining
  <2>1. QuietMove /\ now' = now
    BY <1>4 DEF ApplyLatePenalty, QuietMove, docket
  <2>2. /\ milestones \in [Ids -> Milestone]
        /\ ~ milestones[i].isApproved
        /\ milestones' = [milestones EXCEPT ![i].payout = remaining,
                                            ![i].penaltyApplied = TRUE]
    BY <1>4 DEF ApplyLatePenalty, Slashable, Open, TypeOK
  <2> HIDE DEF remaining
  <2>3. ApprovedUntouched
    BY <2>2 DEF ApprovedUntouched, Milestone
  <2> QED BY <2>1, <2>3
<1> QED BY <1>1, <1>2, <1>3, <1>4 DEF Delivery, Step

LEMMA DisputeSteps ==
    ASSUME TypeOK, NEW auth \in AuthSets, Dispute(auth)
    PROVE  Step
<1>1. ASSUME RaiseDispute(auth) PROVE QuietMove /\ ApprovedUntouched /\ now' = now
  <2>1. QuietMove /\ now' = now /\ milestones' = MarkedDisputed
    BY <1>1 DEF RaiseDispute, QuietMove
  <2>2. milestones \in [Ids -> Milestone]
    BY DEF TypeOK
  <2>3. ApprovedUntouched
    BY <2>1, <2>2 DEF MarkedDisputed, ApprovedUntouched, Milestone
  <2> QED BY <2>1, <2>3
<1>2. ASSUME NEW s \in SplitChoices, Settle(s[1], s[2])
      PROVE  QuietMove /\ ApprovedUntouched /\ now' = now
  BY <1>2, SameMilestones DEF Settle, QuietMove, schedule
<1>3. ASSUME UNCHANGED <<state, config, approved, dispute, milestones, now>> PROVE Step
  BY <1>3 DEF Step
<1> QED BY <1>1, <1>2, <1>3 DEF Dispute, AppendDisputeEvidence, ResolveDispute,
       SettleDisputeQuorum, schedule, Step

LEMMA AmendSteps ==
    ASSUME TypeOK, NEW auth \in AuthSets, Amend(auth)
    PROVE  Step
<1>1. ASSUME ApproveAmendment(auth) PROVE QuietMove /\ ApprovedUntouched /\ now' = now
  <2> DEFINE i == amendment.id
  <2>1. /\ milestones \in [Ids -> Milestone] /\ config \in Config
        /\ ~ milestones[i].isApproved
    BY <1>1 DEF ApproveAmendment, Open, TypeOK
  <2>2. /\ ~ milestones[i].isApproved
        /\ \/ UNCHANGED <<milestones, config>>
           \/ /\ milestones' = [milestones EXCEPT ![i].payout = amendment.payout]
              /\ config' = [config EXCEPT
                    !.total = @ - milestones[i].payout + amendment.payout]
    BY <1>1, <2>1 DEF ApproveAmendment, Repriced
  <2> HIDE DEF i
  <2>3. config'.threshold = config.threshold
    BY <2>1, <2>2 DEF Config
  <2>4. ApprovedUntouched
    BY <2>1, <2>2 DEF ApprovedUntouched, Milestone
  <2> QED BY <1>1, <2>3, <2>4 DEF ApproveAmendment, QuietMove, NotPaused, Initialized, docket
<1>2. ASSUME UNCHANGED <<state, config, approved, dispute, milestones, now>> PROVE Step
  BY <1>2 DEF Step
<1> QED BY <1>1, <1>2 DEF Amend, RequestMilestoneAmendment, schedule, docket, Step

\* Every step of the contract is of one of the five kinds.
LEMMA StepKinds == TypeOK /\ [Next]_vars => Step
<1> SUFFICES ASSUME TypeOK, [Next]_vars PROVE Step
  OBVIOUS
<1>1. ASSUME NEW auth \in AuthSets, ClaimTimeoutRefund(auth) PROVE Step
  BY <1>1, SameMilestones DEF ClaimTimeoutRefund, AcceptsTimeoutRefund, QuietMove,
     schedule, docket, Step
<1>2. ASSUME NEW auth \in AuthSets, EmergencyPause(auth) \/ EmergencyUnpause(auth) PROVE Step
  BY <1>2 DEF EmergencyPause, EmergencyUnpause, schedule, docket, Step
<1>3. CASE CloseLedger
  BY <1>3 DEF CloseLedger, schedule, docket, Step
<1>4. CASE UNCHANGED vars
  BY <1>4 DEF vars, schedule, docket, Step
<1> QED BY <1>1, <1>2, <1>3, <1>4, SetupSteps, DeliverySteps, DisputeSteps, AmendSteps
        DEF Next, Invocation

-----------------------------------------------------------------------------
(* The counter that decides completion. *)

Done == {i \in Ids : milestones[i].isApproved}

\* The count is exact only against a threshold that is the number of milestones,
\* and a settled escrow stays complete although not all of it is approved.
CountInv ==
    /\ ApprovedCountIsExact
    /\ state # "Uninitialized" => config.threshold = N
    /\ state \in {"Uninitialized", "Pending"} => Done = {}
    /\ Settled => state = "Completed"

LEMMA IdsFinite == IsFiniteSet(Ids) /\ Cardinality(Ids) = N /\ Ids # {}
<1>1. N \in Nat /\ N >= 1
  BY ConstantsAssumption
<1>2. IsFiniteSet(1 .. N) /\ Cardinality(1 .. N) = IF 1 > N THEN 0 ELSE N - 1 + 1
  BY <1>1, FS_Interval
<1> QED BY <1>1, <1>2 DEF Ids

\* Approving a milestone adds one to the counter and one to the set it counts;
\* the escrow completes exactly when the set is full.
LEMMA CountApproved ==
    ASSUME TypeOK, CountInv, NEW i \in Ids, Approves(i)
    PROVE  CountInv'
<1>1. /\ milestones \in [Ids -> Milestone] /\ milestones[i] \in Milestone
  BY DEF TypeOK
<1>2. Done' = Done \cup {i} /\ i \notin Done
  <2>1. /\ ~ milestones[i].isApproved /\ milestones'[i].isApproved
        /\ \A k \in Ids : k # i => milestones'[k] = milestones[k]
    BY <1>1 DEF Approves, MarkApproved, Milestone
  <2> QED BY <2>1 DEF Done
<1>3. IsFiniteSet(Done) /\ IsFiniteSet(Done')
  <2>1. Done \in SUBSET Ids /\ Done' \in SUBSET Ids
    BY DEF Done
  <2> QED BY <2>1, IdsFinite, FS_Subset
<1>4. Cardinality(Done') = Cardinality(Done) + 1
  BY <1>2, <1>3, FS_AddElement
<1>5. approved = Cardinality(Done)
  BY DEF CountInv, ApprovedCountIsExact, Done
<1>6. approved' = Cardinality(Done') /\ approved' \in Nat
  BY <1>4, <1>5 DEF Approves, TypeOK
<1>7. /\ state' = IF approved' >= N THEN "Completed" ELSE "Active"
      /\ config' = config /\ config.threshold = N
      /\ ~ Settled /\ ~ Settled'
  BY DEF Approves, StateAfterApproval, CountInv, Settled
<1>8. approved' >= N <=> Done' = Ids
  <2>1. Done' \in SUBSET Ids
    BY DEF Done
  <2>2. /\ Cardinality(Done') <= Cardinality(Ids)
        /\ Cardinality(Ids) = Cardinality(Done') => Ids = Done'
    BY <2>1, IdsFinite, FS_Subset
  <2>3. Cardinality(Ids) = N /\ N \in Nat
    BY IdsFinite, ConstantsAssumption
  <2> QED BY <1>6, <2>2, <2>3
<1>9. ApprovedCountIsExact'
  BY <1>6, <1>7, <1>8 DEF ApprovedCountIsExact, Done
<1> QED BY <1>7, <1>9 DEF CountInv

\* A step that approves nothing keeps the count.
LEMMA CountKept ==
    ASSUME CountInv, \A i \in Ids : milestones'[i].isApproved = milestones[i].isApproved,
           approved' = approved,
           QuietMove \/ UNCHANGED <<state, config, dispute>>
    PROVE  CountInv'
<1>1. Done' = Done
  BY DEF Done
<1>2. approved' = Cardinality(Done')
  BY <1>1 DEF CountInv, ApprovedCountIsExact, Done
<1>3. CASE UNCHANGED <<state, config, dispute>>
  BY <1>1, <1>2, <1>3 DEF CountInv, ApprovedCountIsExact, Done, Settled
<1>4. CASE QuietMove
  <2>1. state' # "Uninitialized" /\ config'.threshold = N
    BY <1>4 DEF QuietMove, CountInv
  <2>2. CASE state' = state /\ dispute' = dispute
    BY <1>1, <1>2, <2>1, <2>2 DEF CountInv, ApprovedCountIsExact, Done, Settled
  <2>3. CASE state = "Pending" /\ state' = "Active" /\ dispute' = dispute
    <3>1. Done' # Ids /\ ~ Settled
      BY <1>1, <2>3, IdsFinite DEF CountInv
    <3> QED BY <1>2, <2>1, <2>3, <3>1 DEF CountInv, ApprovedCountIsExact, Done, Settled
  <2>4. CASE /\ state = "Active" /\ state' \in {"Disputed", "Cancelled"}
             /\ dispute' \in {"Open", dispute}
    <3>1. Done' # Ids /\ ~ Settled /\ ~ Settled'
      BY <1>1, <2>4 DEF CountInv, ApprovedCountIsExact, Done, Settled
    <3> QED BY <1>2, <2>1, <2>4, <3>1 DEF CountInv, ApprovedCountIsExact, Done
  <2>5. CASE state = "Disputed" /\ state' = "Completed" /\ dispute' = "Resolved"
    BY <1>2, <2>1, <2>5 DEF CountInv, ApprovedCountIsExact, Settled
  <2> QED BY <1>4, <2>2, <2>3, <2>4, <2>5 DEF QuietMove
<1> QED BY <1>3, <1>4

LEMMA CountInit == Init => CountInv
<1> SUFFICES ASSUME Init PROVE CountInv
  OBVIOUS
<1>1. Done = {}
  BY DEF Init, FreshMilestone, Done
<1>2. Cardinality({}) = 0
  BY FS_EmptySet
<1> QED BY <1>1, <1>2 DEF Init, CountInv, ApprovedCountIsExact, Done, Settled

LEMMA CountStep == TypeOK /\ CountInv /\ [Next]_vars => CountInv'
<1> SUFFICES ASSUME TypeOK, CountInv, [Next]_vars PROVE CountInv'
  OBVIOUS
<1>1. Step
  BY StepKinds
<1>2. CASE Fresh
  <2>1. Done' = {} /\ approved' = Cardinality({})
    BY <1>2, FS_EmptySet DEF Fresh, Done
  <2>2. ~ Settled'
    BY <1>2 DEF Fresh, CountInv, Settled
  <2> QED BY <1>2, <2>1, <2>2 DEF Fresh, CountInv, ApprovedCountIsExact, Done
<1>3. ASSUME NEW i \in Ids, Approves(i) PROVE CountInv'
  BY <1>3, CountApproved
<1>4. CASE QuietMove /\ ApprovedUntouched
  BY <1>4, CountKept DEF QuietMove, ApprovedUntouched
<1>5. ASSUME QuietMove, NEW i \in Ids, PaysStream(i) PROVE CountInv'
  <2>1. \A k \in Ids : milestones'[k].isApproved = milestones[k].isApproved
    BY <1>5 DEF PaysStream, TypeOK, Milestone
  <2> QED BY <1>5, <2>1, CountKept DEF QuietMove
<1>6. CASE UNCHANGED <<state, config, approved, dispute, milestones>>
  BY <1>6, CountKept
<1> QED BY <1>1, <1>2, <1>3, <1>4, <1>5, <1>6 DEF Step

\* However approvals interleave with disputes, streams and penalties, the
\* counter that decides completion is the number of approved milestones
\* (storage.rs increment_approved): a live or disputed escrow has one left to
\* approve, a completed one that was not settled has none.
THEOREM ApprovalsAreCounted == Spec => []ApprovedCountIsExact
<1>1. CountInv => ApprovedCountIsExact
  BY DEF CountInv
<1> QED BY <1>1, CountInit, CountStep, TypeCorrectness, PTL DEF Spec

-----------------------------------------------------------------------------
(* No milestone is paid ahead of its vesting. *)

\* vested_amount rounds in favour of the escrow: what it gives times the length
\* of the period is at most the payout times the time elapsed.
LEMMA VestedIsEarned ==
    ASSUME NEW total \in Nat, NEW start \in Nat, NEW secs \in Nat \ {0}, NEW t \in Nat,
           VestedAmount(total, start, start + secs, t) > 0
    PROVE  VestedAmount(total, start, start + secs, t) * secs <= total * (t - start)
<1>1. t > start
  BY DEF VestedAmount
<1> DEFINE e == t - start
<1>2. e \in Nat
  BY <1>1
<1>3. CASE t >= start + secs
  <2>1. VestedAmount(total, start, start + secs, t) = total /\ secs <= e
    BY <1>1, <1>3 DEF VestedAmount
  <2> HIDE DEF e
  <2>2. total * secs <= total * e
    BY <1>2, <2>1, SMT
  <2> QED BY <2>1, <2>2 DEF e
<1>4. CASE t < start + secs
  <2>1. VestedAmount(total, start, start + secs, t) = (total * e) \div secs
    BY <1>1, <1>4 DEF VestedAmount
  <2> HIDE DEF e
  <2> DEFINE p == total * e
  <2>2. p \in Nat
    BY <1>2, SMT
  <2> HIDE DEF p
  <2>3. (p \div secs) * secs <= p
    BY <2>2, SMT
  <2> QED BY <2>1, <2>3 DEF p, e
<1> QED BY <1>3, <1>4

\* What NeverPaidEarly says of one milestone at one time.
Earned(m, t) ==
    /\ m.streamed <= IF m.isApproved THEN m.payout ELSE 0
    /\ m.isApproved => m.streamed * m.vestingSecs <= m.payout * (t - m.completedAt)

\* The bound only rises with the clock.
LEMMA EarnedStays ==
    ASSUME NEW m \in Milestone, NEW t \in Nat, Earned(m, t)
    PROVE  Earned(m, t + 1)
<1>1. /\ m.payout \in Nat /\ m.completedAt \in Nat
      /\ m.streamed \in Nat /\ m.vestingSecs \in Nat
  BY DEF Milestone
<1>2. \A p, c \in Nat : p * (t - c) <= p * (t + 1 - c)
  BY SMT
<1>3. \A a, b \in Nat : a * b \in Nat
  BY SMT
<1>4. \A p, c \in Nat : p * (t - c) \in Int /\ p * (t + 1 - c) \in Int
  BY SMT
<1> QED BY <1>1, <1>2, <1>3, <1>4 DEF Earned

LEMMA EarnedStep == TypeOK /\ NeverPaidEarly /\ TypeOK' /\ [Next]_vars => NeverPaidEarly'
<1> SUFFICES ASSUME TypeOK, NeverPaidEarly, TypeOK', [Next]_vars,
                    NEW k \in Ids
             PROVE  Earned(milestones'[k], now')
  BY DEF NeverPaidEarly, Earned
<1> DEFINE m == milestones[k]
<1>1. /\ m \in Milestone /\ milestones'[k] \in Milestone
      /\ milestones \in [Ids -> Milestone]
      /\ now \in Nat /\ Earned(m, now)
  BY DEF TypeOK, NeverPaidEarly, Earned
<1>2. Step
  BY StepKinds
<1>3. CASE Fresh
  BY <1>1, <1>3 DEF Fresh, Earned
<1>4. ASSUME NEW i \in Ids, Approves(i) PROVE Earned(milestones'[k], now')
  <2>1. now' = now
    BY <1>4 DEF Approves
  <2>2. CASE k # i
    <3>1. milestones'[k] = m
      BY <1>1, <1>4, <2>2 DEF Approves, MarkApproved
    <3> QED BY <1>1, <2>1, <3>1
  <2>3. CASE k = i
    <3>1. /\ milestones'[k].isApproved
          /\ milestones'[k].completedAt = now
          /\ milestones'[k].payout = m.payout
          /\ milestones'[k].vestingSecs = m.vestingSecs
          /\ milestones'[k].streamed = IF m.vestingSecs > 0 THEN 0 ELSE m.payout
      BY <1>1, <1>4, <2>3 DEF Approves, MarkApproved, Milestone
    <3>2. m.payout \in Nat /\ m.vestingSecs \in Nat
      BY <1>1 DEF Milestone
    <3>3. milestones'[k].streamed * m.vestingSecs = 0 /\ m.payout * (now - now) = 0
      BY <1>1, <3>1, <3>2
    <3> QED BY <2>1, <3>1, <3>2, <3>3 DEF Earned
  <2> QED BY <2>2, <2>3
<1>5. CASE ApprovedUntouched /\ now' = now
  BY <1>1, <1>5 DEF ApprovedUntouched, Earned
<1>6. ASSUME NEW i \in Ids, PaysStream(i), now' = now PROVE Earned(milestones'[k], now')
  <2>1. CASE k # i
    <3>1. milestones'[k] = m
      BY <1>1, <1>6, <2>1 DEF PaysStream
    <3> QED BY <1>1, <1>6, <3>1
  <2>2. CASE k = i
    <3> DEFINE given == VestedAmount(m.payout, m.completedAt,
                                     m.completedAt + m.vestingSecs, now)
    <3>1. /\ m.payout \in Nat /\ m.completedAt \in Nat /\ m.streamed \in Nat
          /\ m.vestingSecs \in Nat \ {0} /\ m.isApproved
      BY <1>1, <1>6, <2>2 DEF Milestone, PaysStream
    <3>2. given \in 0 .. m.payout
      <4>1. /\ m.completedAt + m.vestingSecs \in Nat
            /\ m.completedAt < m.completedAt + m.vestingSecs
        BY <3>1
      <4> QED BY <1>1, <3>1, <4>1, VestedBounds
    <3>3. Vested(k) = given
      BY DEF Vested
    <3> HIDE DEF given
    <3>4. given > m.streamed
      BY <1>6, <2>2, <3>1, <3>2, <3>3 DEF PaysStream
    <3>5. /\ milestones'[k].streamed = m.streamed + (given - m.streamed)
          /\ milestones'[k].isApproved /\ milestones'[k].payout = m.payout
          /\ milestones'[k].completedAt = m.completedAt
          /\ milestones'[k].vestingSecs = m.vestingSecs
      BY <1>1, <1>6, <2>2, <3>1, <3>3 DEF PaysStream, Milestone
    <3>6. milestones'[k].streamed = given
      BY <3>1, <3>2, <3>5
    <3>7. given * m.vestingSecs <= m.payout * (now - m.completedAt)
      BY <1>1, <3>1, <3>2, <3>4, VestedIsEarned DEF given
    <3> QED BY <1>6, <3>1, <3>2, <3>5, <3>6, <3>7 DEF Earned
  <2> QED BY <2>1, <2>2
<1>7. CASE UNCHANGED milestones /\ now' \in {now, now + 1}
  BY <1>1, <1>7, EarnedStays
<1> QED BY <1>2, <1>3, <1>4, <1>5, <1>6, <1>7 DEF Step

\* Whatever disputes, penalties and amendments happen in between, no milestone
\* has streamed more than its payout nor more than its share of the vesting
\* period elapsed (vesting.rs stream_milestone_payout, math.rs vested_amount).
THEOREM NothingIsPaidEarly == Spec => []NeverPaidEarly
<1>1. Init => NeverPaidEarly
  BY DEF Init, FreshMilestone, NeverPaidEarly
<1>2. Spec => []TypeOK
  BY TypeCorrectness
<1> QED BY <1>1, <1>2, EarnedStep, PTL DEF Spec
=============================================================================
