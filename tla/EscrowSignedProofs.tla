------------------------- MODULE EscrowSignedProofs --------------------------
(***************************************************************************)
(* Theorems about the signatures on which the tokens of an escrow move, for *)
(* every number of milestones, every committee and every set of inputs.     *)
(***************************************************************************)
EXTENDS EscrowSigned, EscrowProofs, FiniteSetTheorems

-----------------------------------------------------------------------------
(* Who is who in an initialized escrow. *)

\* The roles are held by different accounts, the committee is a finite set of
\* outsiders of which somebody has to sign, and the fee does not go to the
\* recipient.
Roles ==
    /\ config.funder # config.recipient
    /\ config.funder # Contract
    /\ config.arbitrator \notin Parties
    /\ committee.members \cap Parties = {}
    /\ IsFiniteSet(committee.members)
    /\ committee.threshold \in Nat \ {0}
    /\ treasury # config.recipient

RolesInv == Initialized => Roles

\* No escrow is made in favour of the contract itself: to such a recipient the
\* deposit would be a payment.
RecipientIsAccount == Initialized => config.recipient # Contract

SameRoles ==
    /\ Initialized' => Initialized
    /\ config'.funder = config.funder
    /\ config'.recipient = config.recipient
    /\ config'.arbitrator = config.arbitrator

\* The members of a list are a finite set.
LEMMA MembersFinite ==
    ASSUME NEW list \in Seq(Address)
    PROVE  IsFiniteSet(MembersOf(list))
<1> DEFINE S == 1 .. Len(list)
           f == [k \in S |-> list[k]]
<1>1. IsFiniteSet(S)
  BY FS_Interval
<1>2. f \in Surjection(S, MembersOf(list))
  BY DEF Surjection, MembersOf
<1> HIDE DEF f, S
<1> QED BY <1>1, <1>2, FS_Surjection

LEMMA RolesSetup ==
    ASSUME TypeOK, RolesInv, NEW auth \in AuthSets, Setup(auth)
    PROVE  /\ RolesInv'
           /\ SameRoles \/ \E p \in PartyChoices : config'.recipient = p.recipient
<1>1. ASSUME NEW p \in PartyChoices, NEW s \in Schedules, Initialize(auth, p, s)
      PROVE  Roles' /\ config'.recipient = p.recipient
  <2>1. /\ config'.funder = p.funder /\ config'.recipient = p.recipient
        /\ config'.arbitrator = p.arbitrator /\ treasury' = p.funder
        /\ committee' = [members |-> {p.arbitrator}, threshold |-> 1]
        /\ ValidRoles(p) /\ p.funder # Contract
    BY <1>1, InputsAssumption DEF Initialize, Signed
  <2>2. IsFiniteSet(committee'.members)
    BY <2>1, FS_Singleton
  <2> QED BY <2>1, <2>2 DEF Roles, Parties, ValidRoles
<1>2. ASSUME NEW f \in FeeChoices, ConfigureProtocolFee(auth, f.treasury, f.bps)
      PROVE  RolesInv' /\ SameRoles
  BY <1>2 DEF ConfigureProtocolFee, NotPaused, Initialized, RolesInv, Roles, Parties, SameRoles,
     schedule
<1>3. ASSUME NEW c \in CommitteeChoices, ConfigureArbitrators(auth, c.members, c.threshold)
      PROVE  RolesInv' /\ SameRoles
  <2>1. c.members \in Seq(Address) /\ IsFiniteSet(MembersOf(c.members))
    BY InputsAssumption, MembersFinite
  <2>2. /\ committee' = [members |-> MembersOf(c.members), threshold |-> c.threshold]
        /\ MembersOf(c.members) \cap Parties = {}
        /\ UNCHANGED <<state, config, treasury>> /\ Initialized
    BY <1>3 DEF ConfigureArbitrators, NotPaused, Parties, schedule, terms
  <2>3. c.threshold \in Nat \ {0}
    <3>1. c.threshold \in 1 .. Len(c.members) /\ Len(c.members) \in Nat
      BY <1>3, <2>1 DEF ConfigureArbitrators
    <3> DEFINE t == c.threshold
               n == Len(c.members)
    <3>2. t \in 1 .. n /\ n \in Nat
      BY <3>1
    <3> HIDE DEF t, n
    <3>3. t \in Nat \ {0}
      BY <3>2
    <3> QED BY <3>3 DEF t
  <2> QED BY <2>1, <2>2, <2>3 DEF RolesInv, Roles, Parties, SameRoles, Initialized
<1>4. ASSUME UNCHANGED <<config, committee, treasury>>, Initialized
      PROVE  RolesInv' /\ SameRoles
  BY <1>4 DEF RolesInv, Roles, Parties, SameRoles
<1>5. ASSUME NEW bps \in PenaltyChoices, SetLatePenaltyBps(auth, bps)
      PROVE  RolesInv' /\ SameRoles
  BY <1>4, <1>5 DEF SetLatePenaltyBps, NotPaused, schedule
<1>6. ASSUME NEW allowance \in Allowances, DepositFunds(auth, allowance)
      PROVE  RolesInv' /\ SameRoles
  BY <1>4, <1>6 DEF DepositFunds, NotPaused, schedule, terms
<1> QED BY <1>1, <1>2, <1>3, <1>5, <1>6 DEF Setup, RolesInv

\* Everything but the setup leaves the roles alone; an amendment changes the
\* total in Config and no party.
LEMMA RolesKept ==
    ASSUME TypeOK, RolesInv, [Next]_vars, \A auth \in AuthSets : ~ Setup(auth)
    PROVE  RolesInv' /\ SameRoles
<1>1. ASSUME UNCHANGED <<committee, treasury>>, SameRoles PROVE RolesInv' /\ SameRoles
  BY <1>1 DEF RolesInv, Roles, Parties, SameRoles
<1>2. ASSUME NEW auth \in AuthSets, Delivery(auth) PROVE RolesInv' /\ SameRoles
  BY <1>1, <1>2 DEF Delivery, SubmitMilestoneProof, ApproveMilestone,
     StreamMilestonePayout, AcceptsStream, Bookable,
     ApplyLatePenalty, NotPaused, SameRoles, terms
<1>3. ASSUME NEW auth \in AuthSets, ClaimTimeoutRefund(auth) PROVE RolesInv' /\ SameRoles
  BY <1>1, <1>3 DEF ClaimTimeoutRefund, AcceptsTimeoutRefund, NotPaused, SameRoles,
     schedule, terms
<1>4. ASSUME NEW auth \in AuthSets, Dispute(auth) PROVE RolesInv' /\ SameRoles
  BY <1>1, <1>4 DEF Dispute, RaiseDispute, AppendDisputeEvidence, ResolveDispute,
     SettleDisputeQuorum, Settle, NotPaused, SameRoles, schedule, terms
<1>5. ASSUME NEW auth \in AuthSets, Amend(auth) PROVE RolesInv' /\ SameRoles
  <2>1. UNCHANGED <<committee, treasury>> /\ Initialized
    BY <1>5 DEF Amend, RequestMilestoneAmendment, ApproveAmendment, NotPaused, terms
  <2>2. \/ config' = config
        \/ config' = [config EXCEPT
              !.total = @ - milestones[amendment.id].payout + amendment.payout]
    BY <1>5 DEF Amend, RequestMilestoneAmendment, ApproveAmendment, Repriced, schedule
  <2>3. config \in Config
    BY DEF TypeOK
  <2>4. SameRoles
    BY <2>1, <2>2, <2>3 DEF SameRoles, Config
  <2> QED BY <1>1, <2>1, <2>4
<1>6. ASSUME NEW auth \in AuthSets, EmergencyPause(auth) \/ EmergencyUnpause(auth)
      PROVE  RolesInv' /\ SameRoles
  BY <1>1, <1>6 DEF EmergencyPause, EmergencyUnpause, SameRoles, schedule, terms
<1>7. CASE CloseLedger
  BY <1>1, <1>7 DEF CloseLedger, SameRoles, Initialized, schedule, terms
<1>8. CASE UNCHANGED vars
  BY <1>1, <1>8 DEF vars, SameRoles, Initialized, schedule, terms
<1> QED BY <1>2, <1>3, <1>4, <1>5, <1>6, <1>7, <1>8 DEF Next, Invocation

LEMMA RolesStep == TypeOK /\ RolesInv /\ [Next]_vars => RolesInv'
BY RolesSetup, RolesKept

-----------------------------------------------------------------------------
(* Disputes are adjudicated. *)

\* The distinct members whose signatures require_quorum checks are as many as
\* the threshold, and none of them is a party.
LEMMA QuorumAdjudicates ==
    ASSUME Roles, NEW auth \in AuthSets, NEW signers \in SignerLists,
           Quorum(auth, signers), signed' = auth
    PROVE  Adjudicated /\ ~ (signed' \subseteq Parties)
<1> DEFINE t == committee.threshold
           voters == auth \cap committee.members
           f == [k \in 1 .. t |-> signers[k]]
<1>1. t \in Nat \ {0} /\ IsFiniteSet(committee.members) /\ committee.members \cap Parties = {}
  BY DEF Roles
<1>2. /\ Len(signers) \in Nat /\ Len(signers) >= t
      /\ MembersOf(signers) \subseteq committee.members
      /\ \A j, k \in 1 .. Len(signers) : signers[j] = signers[k] => j = k
      /\ \A k \in 1 .. t : signers[k] \in auth
  BY InputsAssumption DEF Quorum, Signed
<1>3. ASSUME NEW k \in 1 .. t PROVE k \in 1 .. Len(signers) /\ signers[k] \in voters
  BY <1>1, <1>2 DEF MembersOf
<1>4. IsFiniteSet(voters)
  <2>1. voters \in SUBSET committee.members
    OBVIOUS
  <2> QED BY <1>1, <2>1, FS_Subset
<1>5. f \in Injection(1 .. t, voters)
  BY <1>2, <1>3 DEF Injection, IsInjective
<1>6. Cardinality(1 .. t) = t
  <2>1. Cardinality(1 .. t) = IF 1 > t THEN 0 ELSE t - 1 + 1
    BY <1>1, FS_Interval
  <2> QED BY <1>1, <2>1
<1> HIDE DEF f, voters
<1>7. Cardinality(voters) >= t
  <2>1. Cardinality(1 .. t) <= Cardinality(voters)
    BY <1>4, <1>5, FS_Injection
  <2>2. Cardinality(voters) \in Nat
    BY <1>4, FS_CardinalityType
  <2> QED BY <1>1, <1>6, <2>1, <2>2
<1>8. signers[1] \in auth /\ signers[1] \notin Parties
  BY <1>1, <1>3 DEF voters
<1> QED BY <1>7, <1>8 DEF Adjudicated, voters

LEMMA ArbitratorAdjudicates ==
    ASSUME Roles, NEW auth \in AuthSets, Signed(auth, config.arbitrator), signed' = auth
    PROVE  Adjudicated /\ ~ (signed' \subseteq Parties)
BY DEF Signed, Adjudicated, Roles

\* Both ways to settle are adjudicated.
LEMMA SettlementsAreAdjudicated ==
    ASSUME Roles, NEW auth \in AuthSets, NEW s \in SplitChoices, signed' = auth,
           \/ ResolveDispute(auth, s[1], s[2])
           \/ \E signers \in SignerLists : SettleDisputeQuorum(auth, s[1], s[2], signers)
    PROVE  Adjudicated /\ ~ (signed' \subseteq Parties)
BY ArbitratorAdjudicates, QuorumAdjudicates DEF ResolveDispute, SettleDisputeQuorum

\* Every step that takes a disputed escrow's tokens is adjudicated.
LEMMA DisputedMoves ==
    ASSUME RolesInv, NEW auth \in AuthSets, Invocation(auth), signed' = auth,
           state = "Disputed", tokens' # tokens
    PROVE  Adjudicated /\ ~ (signed' \subseteq Parties)
<1>1. Roles
  BY DEF RolesInv, Initialized
<1>2. ASSUME NEW i \in Ids, ApproveMilestone(auth, i)
      PROVE  Adjudicated /\ ~ (signed' \subseteq Parties)
  BY <1>1, <1>2, ArbitratorAdjudicates DEF ApproveMilestone, Releaser
<1>3. ~ Setup(auth)
  BY DEF Setup, Initialize, Initialized, SetLatePenaltyBps, ConfigureProtocolFee,
     ConfigureArbitrators, DepositFunds, custody
<1>4. Delivery(auth) => \E i \in Ids : ApproveMilestone(auth, i)
  BY DEF Delivery, SubmitMilestoneProof, StreamMilestonePayout, AcceptsStream,
     StreamableStates,
     ApplyLatePenalty
<1>5. ~ ClaimTimeoutRefund(auth) /\ ~ RaiseDispute(auth)
  BY DEF ClaimTimeoutRefund, AcceptsTimeoutRefund, RaiseDispute
<1>6. \A actor, hash : ~ AppendDisputeEvidence(auth, actor, hash)
  BY DEF AppendDisputeEvidence, custody
<1>7. ~ Amend(auth) /\ ~ EmergencyPause(auth) /\ ~ EmergencyUnpause(auth)
  BY DEF Amend, RequestMilestoneAmendment, ApproveAmendment, EmergencyPause,
     EmergencyUnpause, custody
<1>8. Dispute(auth) => \E s \in SplitChoices :
          \/ ResolveDispute(auth, s[1], s[2])
          \/ \E signers \in SignerLists : SettleDisputeQuorum(auth, s[1], s[2], signers)
  BY <1>5, <1>6 DEF Dispute
<1> QED BY <1>1, <1>2, <1>3, <1>4, <1>5, <1>7, <1>8, SettlementsAreAdjudicated
        DEF Invocation

-----------------------------------------------------------------------------
(* Payments and refunds are signed for. *)

\* What PaidOnSignature says of one step.
PaymentSigned ==
    tokens'[config.recipient] > tokens[config.recipient] =>
        \/ state = "Disputed" /\ Adjudicated
        \/ /\ config.funder \in signed'
           /\ \E i \in Ids : milestones'[i].isApproved /\ ~ milestones[i].isApproved
        \/ /\ config.recipient \in signed'
           /\ \E i \in Ids : /\ milestones[i].isApproved
                             /\ milestones'[i].streamed > milestones[i].streamed

RefundSigned ==
    book'.refunded > book.refunded =>
        \/ state = "Disputed" /\ Adjudicated
        \/ /\ config.funder \in signed'
           /\ \/ LockElapsed
              \/ \E i \in Ids : Late(milestones[i])

\* A step that leaves balances and book alone pays and refunds nothing.
LEMMA NothingMoved ==
    ASSUME TypeOK, UNCHANGED custody
    PROVE  PaymentSigned /\ RefundSigned
<1>1. tokens[config.recipient] \in Int /\ book.refunded \in Int
  BY DEF TypeOK, Config, Book
<1> QED BY <1>1 DEF PaymentSigned, RefundSigned, custody

\* A refund to the funder does not reach the recipient.
LEMMA RefundSparesRecipient ==
    ASSUME TypeOK, Roles, NEW amount \in Int, Refund(amount)
    PROVE  ~ (tokens'[config.recipient] > tokens[config.recipient])
<1>1. /\ tokens \in [Address -> Nat] /\ amount > 0
      /\ tokens' = [tokens EXCEPT ![Contract] = @ - amount, ![config.funder] = @ + amount]
      /\ config.recipient \in Address /\ config.funder # config.recipient
  BY DEF TypeOK, Config, Refund, Bookable, Moved, Roles
<1>2. tokens[config.recipient] \in Nat
  BY <1>1
<1>3. tokens'[config.recipient] \in {tokens[config.recipient],
                                     tokens[config.recipient] - amount}
  BY <1>1
<1> QED BY <1>1, <1>2, <1>3

LEMMA SetupSigned ==
    ASSUME CoreInv, RolesInv, RecipientIsAccount, NEW auth \in AuthSets, Setup(auth)
    PROVE  PaymentSigned /\ RefundSigned
<1>1. TypeOK
  BY DEF CoreInv
<1>2. ASSUME NEW p \in PartyChoices, NEW s \in Schedules, Initialize(auth, p, s)
      PROVE  UNCHANGED custody
  BY <1>2 DEF Initialize, Initialized, CoreInv, Funded, custody
<1>3. ASSUME NEW allowance \in Allowances, DepositFunds(auth, allowance)
      PROVE  PaymentSigned /\ RefundSigned
  <2>1. /\ tokens' = [tokens EXCEPT ![config.funder] = @ - config.total,
                                    ![Contract] = @ + config.total]
        /\ book' = [book EXCEPT !.deposited = config.total]
        /\ config.recipient # config.funder /\ config.recipient # Contract
    BY <1>3 DEF DepositFunds, NotPaused, RolesInv, Roles, RecipientIsAccount
  <2>2. /\ tokens'[config.recipient] = tokens[config.recipient]
        /\ tokens[config.recipient] \in Int
    BY <1>1, <2>1 DEF TypeOK, Config
  <2>3. book'.refunded = book.refunded /\ book.refunded \in Int
    BY <1>1, <2>1 DEF TypeOK, Book
  <2> QED BY <2>2, <2>3 DEF PaymentSigned, RefundSigned
<1> QED BY <1>1, <1>2, <1>3, NothingMoved DEF Setup, SetLatePenaltyBps,
       ConfigureProtocolFee, ConfigureArbitrators

LEMMA DeliverySigned ==
    ASSUME CoreInv, RolesInv, NEW auth \in AuthSets, Delivery(auth), signed' = auth
    PROVE  PaymentSigned /\ RefundSigned
<1>1. /\ TypeOK /\ Solvent /\ config.recipient \in Address
      /\ milestones \in [Ids -> Milestone] /\ book.refunded \in Int
  BY DEF CoreInv, TypeOK, Config, Book
<1>2. ASSUME NEW i \in Ids, SubmitMilestoneProof(auth, i)
      PROVE  PaymentSigned /\ RefundSigned
  BY <1>1, <1>2, NothingMoved DEF SubmitMilestoneProof
<1>3. ASSUME NEW i \in Ids, ApproveMilestone(auth, i)
      PROVE  PaymentSigned /\ RefundSigned
  <2>1. Roles /\ milestones[i] \in Milestone
    BY <1>1, <1>3 DEF ApproveMilestone, NotPaused, RolesInv
  <2>2. ~ milestones[i].isApproved /\ milestones'[i].isApproved
    BY <1>1, <1>3, <2>1 DEF ApproveMilestone, MarkApproved, Open, Milestone
  <2>3. PaymentSigned
    <3>1. CASE state = "Active" /\ Signed(auth, config.funder)
      BY <2>2, <3>1 DEF PaymentSigned, Signed
    <3>2. CASE state = "Disputed" /\ Signed(auth, config.arbitrator)
      BY <2>1, <3>2, ArbitratorAdjudicates DEF PaymentSigned
    <3> QED BY <1>3, <3>1, <3>2 DEF ApproveMilestone, Releaser
  <2>4. book'.refunded = book.refunded
    <3>1. CASE milestones[i].vestingSecs > 0
      BY <1>3, <3>1 DEF ApproveMilestone, MarkApproved, custody
    <3>2. CASE ~ (milestones[i].vestingSecs > 0)
      <4>1. PayWithFee(milestones[i].payout) /\ milestones[i].payout \in Int
        BY <1>3, <2>1, <3>2 DEF ApproveMilestone, MarkApproved, Milestone
      <4> QED BY <1>1, <4>1, PayWithFeeFacts
    <3> QED BY <3>1, <3>2
  <2> QED BY <1>1, <2>3, <2>4 DEF RefundSigned
<1>4. ASSUME NEW i \in Ids, StreamMilestonePayout(auth, i)
      PROVE  PaymentSigned /\ RefundSigned
  <2> DEFINE m == milestones[i]
             unpaid == Vested(i) - m.streamed
  <2>1. m \in Milestone /\ now \in Nat
    BY <1>1 DEF TypeOK
  <2>2. /\ m.isApproved /\ unpaid > 0 /\ PayWithFee(unpaid)
        /\ config.recipient \in auth
        /\ milestones' = [milestones EXCEPT
               ![i].streamed = @ + unpaid,
               ![i].status = IF m.streamed + unpaid >= m.payout THEN "Released" ELSE @]
    BY <1>4 DEF StreamMilestonePayout, AcceptsStream, Bookable, Signed
  <2>3. unpaid \in Int /\ m.streamed \in Nat
    <3>1. /\ m.payout \in Nat /\ m.completedAt \in Nat /\ m.streamed \in Nat
          /\ m.completedAt + m.vestingSecs \in Nat
          /\ m.completedAt < m.completedAt + m.vestingSecs
      BY <1>4, <2>1 DEF Milestone, StreamMilestonePayout, AcceptsStream
    <3>2. VestedAmount(m.payout, m.completedAt, m.completedAt + m.vestingSecs, now)
              \in 0 .. m.payout
      BY <2>1, <3>1, VestedBounds
    <3> QED BY <3>1, <3>2 DEF Vested
  <2> HIDE DEF unpaid
  <2>4. milestones'[i].streamed = m.streamed + unpaid
    BY <1>1, <2>1, <2>2 DEF Milestone
  <2>5. milestones'[i].streamed > m.streamed
    BY <2>2, <2>3, <2>4
  <2>6. book'.refunded = book.refunded
    BY <1>1, <2>2, <2>3, PayWithFeeFacts
  <2> QED BY <1>1, <2>2, <2>5, <2>6 DEF PaymentSigned, RefundSigned
<1>5. ASSUME NEW i \in Ids, ApplyLatePenalty(auth, i)
      PROVE  PaymentSigned /\ RefundSigned
  <2> DEFINE slash == ApplyPenalty(milestones[i].payout, penaltyBps).slash
  <2>1. /\ IF slash = 0 THEN UNCHANGED custody ELSE Refund(slash)
        /\ config.funder \in auth /\ Late(milestones[i]) /\ Roles
    BY <1>5 DEF ApplyLatePenalty, Slashable, Signed, NotPaused, RolesInv
  <2>2. slash \in Int
    <3>1. milestones[i].payout \in Nat /\ penaltyBps \in 0 .. BPS_SCALE
      BY <1>1 DEF TypeOK, Milestone
    <3>2. ApplyBps(milestones[i].payout, penaltyBps) \in 0 .. milestones[i].payout
      BY <3>1, ApplyBpsBounds
    <3> QED BY <3>1, <3>2 DEF ApplyPenalty
  <2> HIDE DEF slash
  <2>3. CASE slash = 0
    BY <1>1, <2>1, <2>3, NothingMoved
  <2>4. CASE slash # 0
    <3>1. PaymentSigned
      BY <1>1, <2>1, <2>2, <2>4, RefundSparesRecipient DEF PaymentSigned
    <3>2. RefundSigned
      BY <2>1 DEF RefundSigned
    <3> QED BY <3>1, <3>2
  <2> QED BY <2>3, <2>4
<1> QED BY <1>2, <1>3, <1>4, <1>5 DEF Delivery

LEMMA OthersSigned ==
    ASSUME CoreInv, RolesInv, NEW auth \in AuthSets, signed' = auth,
           \/ ClaimTimeoutRefund(auth)
           \/ Dispute(auth)
           \/ Amend(auth)
           \/ EmergencyPause(auth) \/ EmergencyUnpause(auth)
    PROVE  PaymentSigned /\ RefundSigned
<1>1. TypeOK /\ Solvent
  BY DEF CoreInv
<1>2. ASSUME ClaimTimeoutRefund(auth) PROVE PaymentSigned /\ RefundSigned
  <2>1. /\ Refund(Locked - UnstreamedObligation) /\ config.funder \in auth /\ LockElapsed
        /\ Roles
    BY <1>2 DEF ClaimTimeoutRefund, AcceptsTimeoutRefund, Signed, NotPaused, RolesInv
  <2>2. Locked - UnstreamedObligation \in Int
    BY <1>1, ObligationIsInt DEF Solvent
  <2>3. PaymentSigned
    BY <1>1, <2>1, <2>2, RefundSparesRecipient DEF PaymentSigned
  <2> QED BY <2>1, <2>3 DEF RefundSigned
<1>3. ASSUME NEW s \in SplitChoices,
             \/ ResolveDispute(auth, s[1], s[2])
             \/ \E signers \in SignerLists : SettleDisputeQuorum(auth, s[1], s[2], signers)
      PROVE  PaymentSigned /\ RefundSigned
  <2>1. state = "Disputed" /\ Roles
    BY <1>3 DEF ResolveDispute, SettleDisputeQuorum, Settle, RolesInv, Initialized
  <2>2. Adjudicated
    BY <1>3, <2>1, SettlementsAreAdjudicated
  <2> QED BY <2>1, <2>2 DEF PaymentSigned, RefundSigned
<1>4. ASSUME UNCHANGED custody PROVE PaymentSigned /\ RefundSigned
  BY <1>1, <1>4, NothingMoved
<1>5. CASE Dispute(auth)
  <2>1. \/ UNCHANGED custody
        \/ \E s \in SplitChoices :
              \/ ResolveDispute(auth, s[1], s[2])
              \/ \E signers \in SignerLists : SettleDisputeQuorum(auth, s[1], s[2], signers)
    BY <1>5 DEF Dispute, RaiseDispute, AppendDisputeEvidence
  <2> QED BY <1>3, <1>4, <2>1
<1>6. Amend(auth) \/ EmergencyPause(auth) \/ EmergencyUnpause(auth) => UNCHANGED custody
  BY DEF Amend, RequestMilestoneAmendment, ApproveAmendment, EmergencyPause, EmergencyUnpause
<1> QED BY <1>2, <1>4, <1>5, <1>6

-----------------------------------------------------------------------------
(* The theorems. *)

LEMMA SignedSteps == [SignedNext]_<<vars, signed>> => [Next]_vars
BY DEF SignedNext, Next

LEMMA RolesInit == Init => RolesInv /\ RecipientIsAccount
BY DEF Init, RolesInv, RecipientIsAccount, Initialized

LEMMA SignedInvariance == SignedSpec => [](CoreInv /\ RolesInv)
<1>1. CoreInv => TypeOK
  BY DEF CoreInv
<1> QED BY <1>1, CoreInit, CoreStep, RolesInit, RolesStep, SignedSteps, PTL
        DEF SignedSpec, SignedInit

\* The tokens of a disputed escrow move only on an adjudicator's signature:
\* the arbitrator's, or those of enough distinct members of a committee of any
\* size; never on the parties' alone (access.rs require_releaser and
\* require_quorum, multisig.rs configure_arbitrators).
THEOREM DisputesAreAdjudicated == SignedSpec => DisputeNeedsAdjudicator
<1>1. CoreInv /\ RolesInv /\ [SignedNext]_<<vars, signed>> =>
        [state = "Disputed" /\ tokens' # tokens =>
            Adjudicated /\ ~ (signed' \subseteq Parties)]_<<vars, signed>>
  <2>1. CASE CloseLedger
    BY <2>1 DEF CloseLedger, custody
  <2>2. ASSUME RolesInv, NEW auth \in AuthSets, Invocation(auth), signed' = auth,
               state = "Disputed", tokens' # tokens
        PROVE  Adjudicated /\ ~ (signed' \subseteq Parties)
    BY <2>2, DisputedMoves
  <2> QED BY <2>1, <2>2 DEF SignedNext
<1> QED BY <1>1, SignedInvariance, PTL DEF SignedSpec, DisputeNeedsAdjudicator

\* The recipient is paid, and the funder refunded, only for what the properly
\* signed entrypoints allow, in any instance in which no escrow is made in
\* favour of the contract's own address (lib.rs approve_milestone,
\* claim_timeout_refund, vesting.rs, penalty.rs, multisig.rs).
THEOREM PaymentsAreSigned ==
    ASSUME \A p \in PartyChoices : p.recipient # Contract
    PROVE  SignedSpec => PaidOnSignature
<1>1. TypeOK /\ RolesInv /\ RecipientIsAccount /\ [Next]_vars => RecipientIsAccount'
  <2> SUFFICES ASSUME TypeOK, RolesInv, RecipientIsAccount, [Next]_vars
               PROVE  RecipientIsAccount'
    OBVIOUS
  <2>1. SameRoles \/ \E p \in PartyChoices : config'.recipient = p.recipient
    BY RolesSetup, RolesKept
  <2> QED BY <2>1 DEF SameRoles, RecipientIsAccount
<1>2. SignedSpec => []RecipientIsAccount
  <2>1. CoreInv => TypeOK
    BY DEF CoreInv
  <2> QED BY <1>1, <2>1, RolesInit, SignedInvariance, SignedSteps, PTL
          DEF SignedSpec, SignedInit
<1>3. CoreInv /\ RolesInv /\ RecipientIsAccount /\ [SignedNext]_<<vars, signed>> =>
        [PaymentSigned /\ RefundSigned]_<<vars, signed>>
  <2> SUFFICES ASSUME CoreInv, RolesInv, RecipientIsAccount, SignedNext
               PROVE  PaymentSigned /\ RefundSigned
    OBVIOUS
  <2>1. CASE CloseLedger
    BY <2>1, NothingMoved DEF CloseLedger, CoreInv
  <2>2. ASSUME NEW auth \in AuthSets, Invocation(auth), signed' = auth
        PROVE  PaymentSigned /\ RefundSigned
    BY <2>2, SetupSigned, DeliverySigned, OthersSigned DEF Invocation
  <2> QED BY <2>1, <2>2 DEF SignedNext
<1> QED BY <1>2, <1>3, SignedInvariance, PTL
        DEF SignedSpec, PaidOnSignature, PaymentSigned, RefundSigned
=============================================================================
