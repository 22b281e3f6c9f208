------------------------------- MODULE Escrow -------------------------------
(***************************************************************************)
(* One instance of the Soroban escrow contract (contracts/escrow/src).      *)
(*                                                                          *)
(* A funder locks tokens against a schedule of milestones, a recipient      *)
(* delivers, an arbitrator (or a committee) settles disputes.  The host     *)
(* runs one invocation at a time and rolls all of it back when it returns   *)
(* an error, so every entrypoint is one atomic action whose guard is the    *)
(* conjunction of the checks it passes; a rejected call changes nothing and *)
(* is a stuttering step.  The clock is the ledger's close time.             *)
(*                                                                          *)
(* auth is the set of addresses whose authorization the invocation carries: *)
(* require_auth(a) succeeds exactly when a is in it.                        *)
(*                                                                          *)
(* A definition named D_Fault is D with a plausible mistake in it.  Nothing *)
(* uses it: putting it in D's place shows that a property tells them apart. *)
(***************************************************************************)
EXTENDS EscrowMath, FiniteSets, Sequences

CONSTANTS
    Address,            \* every account, the contract's own included
    Contract,           \* the address of this contract instance
    Sep41Assets,        \* tokens whose decimals() call answers 1..18
    N,                  \* number of milestones in the schedule
    LockSecs,           \* DEFAULT_LOCK_WINDOW
    DefaultPenaltyBps,  \* DEFAULT_PENALTY_BPS
    MaxEvidence,        \* MAX_EVIDENCE
    ZeroHash,           \* the all-zero content hash
    NoAmendment         \* the Amendment key has not been written

\* The arguments callers pass, and the bounds of an instance.
CONSTANTS
    AuthSets,           \* authorizations an invocation may carry
    PartyChoices,       \* [funder, recipient, arbitrator, asset]
    Schedules,          \* functions from 1..N to milestone terms
    Allowances,         \* allowances the asset may report to deposit_funds
    SplitChoices,       \* pairs <<funder_bps, recipient_bps>>
    FeeChoices,         \* [treasury, bps]
    PenaltyChoices,     \* bps
    CommitteeChoices,   \* [members (a sequence), threshold]
    SignerLists,        \* sequences of addresses
    AmendedPayouts,     \* payouts an amendment may propose
    Hashes,             \* evidence content hashes
    Endowments,         \* token balances the accounts may start with
    StartTime,          \* the first ledger close time: never zero
    MaxTime             \* bound on the clock

Ids == 1 .. N

MilestoneTerms == [payout : Nat, vestingSecs : Nat, deadline : Nat]

ASSUME ConstantsAssumption ==
    /\ N \in Nat \ {0}
    /\ Contract \in Address
    /\ LockSecs \in Nat
    /\ DefaultPenaltyBps \in 0 .. BPS_SCALE
    /\ MaxEvidence \in Nat
    /\ StartTime \in Nat \ {0}
    /\ MaxTime \in Nat

ASSUME InputsAssumption ==
    /\ \A a \in AuthSets : a \subseteq Address /\ Contract \notin a
    /\ \A p \in PartyChoices : {p.funder, p.recipient, p.arbitrator} \subseteq Address
    /\ Schedules \subseteq [Ids -> MilestoneTerms]
    /\ \A s \in SplitChoices : s[1] \in Nat /\ s[2] \in Nat
    /\ \A f \in FeeChoices : f.treasury \in Address /\ f.bps \in Nat
    /\ PenaltyChoices \subseteq Nat
    /\ AmendedPayouts \subseteq Nat
    /\ Endowments \subseteq [Address -> Nat]
    /\ \A c \in CommitteeChoices : c.members \in Seq(Address) /\ c.threshold \in Nat
    /\ SignerLists \subseteq Seq(Address)

VARIABLES
    state,        \* DataKey::State, or "Uninitialized"
    config,       \* DataKey::Config
    milestones,   \* DataKey::Milestone(id)
    order,        \* DataKey::Milestones: the ids in display order
    approved,     \* DataKey::Approved: how many milestones are approved
    lockUntil,    \* DataKey::LockUntil
    book,         \* DataKey::Balances
    tokens,       \* balances in the asset's own ledger
    dispute,      \* DataKey::Dispute: absent, open or resolved
    evidence,     \* DataKey::Evidence
    committee,    \* DataKey::Arbitrators
    amendment,    \* DataKey::Amendment
    paused,       \* DataKey::Paused
    penaltyBps,   \* DataKey::PenaltyBps
    treasury,     \* DataKey::Treasury
    feeBps,       \* DataKey::FeeBps
    now           \* env.ledger().timestamp()

schedule   == <<config, milestones, order>>
custody    == <<book, tokens>>
docket     == <<dispute, evidence>>
terms      == <<penaltyBps, treasury, feeBps>>
vars == <<state, schedule, approved, lockUntil, custody, docket, committee,
          amendment, paused, terms, now>>

-----------------------------------------------------------------------------
(* Storage.  A key that initialize has not written yet holds a placeholder   *)
(* that no entrypoint reads: every one of them starts from Config or State. *)

MilestoneStatus == {"Pending", "UnderReview", "Released", "Disputed"}

Milestone == [payout : Nat, isApproved : BOOLEAN, completedAt : Nat,
              status : MilestoneStatus, submittedAt : Nat, vestingSecs : Nat,
              streamed : Nat, deadline : Nat, penaltyApplied : BOOLEAN]

Config == [funder : Address, recipient : Address, arbitrator : Address,
           total : Nat, threshold : Nat]

Book == [deposited : Nat, released : Nat, refunded : Nat]

Amendment == [id : Ids, payout : Nat, position : Ids,
              funderApproved : BOOLEAN, recipientApproved : BOOLEAN]

EmptyBook == [deposited |-> 0, released |-> 0, refunded |-> 0]

\* What initialize stores for one entry of the caller's schedule.
FreshMilestone(t) ==
    [payout |-> t.payout, isApproved |-> FALSE, completedAt |-> 0,
     status |-> "Pending", submittedAt |-> 0, vestingSecs |-> t.vestingSecs,
     streamed |-> 0, deadline |-> t.deadline, penaltyApplied |-> FALSE]

Initialized == state # "Uninitialized"

Locked == book.deposited - book.released - book.refunded

\* The checks that open the entrypoints.
NotPaused_NeverChecked == Initialized
NotPaused == Initialized /\ ~ paused
Signed(auth, who) == who \in auth
BothParties(auth) == Signed(auth, config.funder) /\ Signed(auth, config.recipient)
Open_IgnoresApproval(m) == m.status # "Released"
Open(m) == ~ m.isApproved /\ m.status # "Released"

-----------------------------------------------------------------------------
(* Moving tokens out of the contract and booking what moved. *)

\* The asset traps a transfer it cannot cover.  No guard says so here: Solvent
\* shows that the contract never orders such a transfer.
Moved(balances, to, amount) ==
    [balances EXCEPT ![Contract] = @ - amount, ![to] = @ + amount]

\* Amounts that may leave: positive, and not more than is locked.
Bookable(amount) == 0 < amount /\ amount <= Locked

\* transfer_to and credit_refunded: give amount back to the funder.
Refund(amount) ==
    /\ Bookable(amount)
    /\ tokens' = Moved(tokens, config.funder, amount)
    /\ book' = [book EXCEPT !.refunded = @ + amount]

PayWithFee_FeeOnTop(gross) ==
    LET split == ProtocolFee(gross, feeBps)
    IN  /\ Bookable(gross)
        /\ tokens' = Moved(Moved(tokens, treasury, split.fee), config.recipient, gross)
        /\ book' = [book EXCEPT !.released = @ + gross]

PayWithFee_BooksNetOnly(gross) ==
    LET split == ProtocolFee(gross, feeBps)
    IN  /\ Bookable(gross)
        /\ tokens' = Moved(Moved(tokens, treasury, split.fee), config.recipient, split.net)
        /\ book' = [book EXCEPT !.released = @ + split.net]

\* Fee to the treasury, the rest to the recipient, both booked as released.
PayWithFee(gross) ==
    LET split == ProtocolFee(gross, feeBps)
    IN  /\ Bookable(gross)
        /\ tokens' = Moved(Moved(tokens, treasury, split.fee), config.recipient, split.net)
        /\ book' = [book EXCEPT !.released = @ + split.fee + split.net]

\* Tokens promised by approvals that have not been streamed yet, over the
\* milestones the display order lists.
Listed(i) == \E k \in Ids : order[k] = i

Owed_Unapproved ==
    [i \in Ids |-> IF Listed(i) THEN milestones[i].payout - milestones[i].streamed ELSE 0]

Owed == [i \in Ids |-> IF Listed(i) /\ milestones[i].isApproved
                       THEN milestones[i].payout - milestones[i].streamed ELSE 0]

UnstreamedObligation == SumTo(Owed, N)

-----------------------------------------------------------------------------
(* Setting up: initialize, the terms both parties can inspect, the deposit.  *)

ValidRoles(p) ==
    /\ p.funder # p.arbitrator /\ p.recipient # p.arbitrator
    /\ p.funder # p.recipient
    /\ p.asset \notin {p.funder, p.recipient, p.arbitrator}

\* The schedule is a function on 1..N, which is what the contract's check for
\* consecutive milestone ids leaves of the caller's vector.
Initialize(auth, p, s) ==
    /\ Signed(auth, p.funder)
    /\ ~ Initialized
    /\ ValidRoles(p)
    /\ p.asset \in Sep41Assets
    /\ \A i \in Ids : s[i].payout > 0
    /\ state' = "Pending"
    /\ config' = [funder |-> p.funder, recipient |-> p.recipient,
                  arbitrator |-> p.arbitrator,
                  total |-> SumTo([i \in Ids |-> s[i].payout], N), threshold |-> N]
    /\ milestones' = [i \in Ids |-> FreshMilestone(s[i])]
    /\ order' = [k \in Ids |-> k]
    /\ approved' = 0
    /\ book' = EmptyBook
    /\ paused' = FALSE
    /\ committee' = [members |-> {p.arbitrator}, threshold |-> 1]
    /\ penaltyBps' = DefaultPenaltyBps
    /\ treasury' = p.funder
    /\ feeBps' = 0
    /\ UNCHANGED <<lockUntil, tokens, docket, amendment, now>>

SetLatePenaltyBps(auth, bps) ==
    /\ NotPaused
    /\ Signed(auth, config.funder)
    /\ state = "Pending"
    /\ bps <= BPS_SCALE
    /\ penaltyBps' = bps
    /\ UNCHANGED <<state, schedule, approved, lockUntil, custody, docket, committee,
                   amendment, paused, treasury, feeBps, now>>

\* The admin is the funder: initialize stores it and nothing replaces it.
ConfigureProtocolFee(auth, t, bps) ==
    /\ NotPaused
    /\ Signed(auth, config.funder)
    /\ state = "Pending"
    /\ bps <= BPS_SCALE
    /\ t # config.recipient
    /\ treasury' = t
    /\ feeBps' = bps
    /\ UNCHANGED <<state, schedule, approved, lockUntil, custody, docket, committee,
                   amendment, paused, penaltyBps, now>>

MembersOf(list) == {list[k] : k \in 1 .. Len(list)}

ConfigureArbitrators(auth, list, threshold) ==
    /\ NotPaused
    /\ BothParties(auth)
    /\ state \in {"Pending", "Active"}
    /\ list # <<>>
    /\ threshold \in 1 .. Len(list)
    /\ MembersOf(list) \cap {config.funder, config.recipient} = {}
    /\ \A j, k \in 1 .. Len(list) : list[j] = list[k] => j = k
    /\ committee' = [members |-> MembersOf(list), threshold |-> threshold]
    /\ UNCHANGED <<state, schedule, approved, lockUntil, custody, docket,
                   amendment, paused, terms, now>>

\* allowance is what the asset reports; transfer_from moves exactly the total.
DepositFunds(auth, allowance) ==
    /\ NotPaused
    /\ Signed(auth, config.funder)
    /\ state = "Pending"
    /\ book.deposited = 0
    /\ allowance >= config.total
    /\ tokens[config.funder] >= config.total
    /\ tokens' = [tokens EXCEPT ![config.funder] = @ - config.total,
                                ![Contract] = @ + config.total]
    /\ tokens'[Contract] >= config.total
    /\ book' = [book EXCEPT !.deposited = config.total]
    /\ state' = "Active"
    /\ lockUntil' = now + LockSecs
    /\ UNCHANGED <<schedule, approved, docket, committee, amendment, paused, terms, now>>

-----------------------------------------------------------------------------
(* The life of a funded escrow: proofs, approvals, vested streams, penalties *)
(* and the refund after the lock window.                                    *)

\* The proof hash itself is stored but never read by the contract.
SubmitMilestoneProof(auth, i) ==
    /\ NotPaused
    /\ Signed(auth, config.recipient)
    /\ state = "Active"
    /\ Open(milestones[i])
    /\ milestones[i].status = "Pending"
    /\ milestones' = [milestones EXCEPT ![i].status = "UnderReview",
                                        ![i].submittedAt = now]
    /\ UNCHANGED <<state, config, order, approved, lockUntil, custody, docket, committee,
                   amendment, paused, terms, now>>

Releaser_EitherParty(auth) ==
    \/ state = "Active" /\ (Signed(auth, config.funder) \/ Signed(auth, config.recipient))
    \/ state = "Disputed" /\ Signed(auth, config.arbitrator)

\* Who may approve: the funder of a live escrow, the arbitrator of a disputed one.
Releaser(auth) ==
    \/ state = "Active" /\ Signed(auth, config.funder)
    \/ state = "Disputed" /\ Signed(auth, config.arbitrator)

StateAfterApproval(count) ==
    IF count >= config.threshold THEN "Completed" ELSE "Active"

\* A milestone that vests is only marked: its tokens leave through streams.
MarkApproved(i) ==
    IF milestones[i].vestingSecs > 0
    THEN /\ milestones' = [milestones EXCEPT ![i].isApproved = TRUE,
                                             ![i].completedAt = now,
                                             ![i].status = "UnderReview",
                                             ![i].streamed = 0]
         /\ UNCHANGED custody
    ELSE /\ milestones' = [milestones EXCEPT ![i].isApproved = TRUE,
                                             ![i].completedAt = now,
                                             ![i].status = "Released",
                                             ![i].streamed = milestones[i].payout]
         /\ PayWithFee(milestones[i].payout)

ApproveMilestone(auth, i) ==
    /\ NotPaused
    /\ Releaser(auth)
    /\ book.deposited # 0
    /\ Open(milestones[i])
    /\ MarkApproved(i)
    /\ approved' = approved + 1
    /\ state' = StateAfterApproval(approved + 1)
    /\ UNCHANGED <<config, order, lockUntil, docket, committee, amendment, paused,
                   terms, now>>

\* What the schedule lets the recipient hold of milestone i at this moment.
Vested(i) ==
    VestedAmount(milestones[i].payout, milestones[i].completedAt,
                 milestones[i].completedAt + milestones[i].vestingSecs, now)

StreamableStates_ActiveOnly == {"Active"}
StreamableStates_EvenDisputed == {"Active", "Completed", "Disputed"}
StreamableStates == {"Active", "Completed"}

\* The checks of a stream, pay_with_fee's on the amount included.
AcceptsStream(auth, i) ==
    LET m == milestones[i]
    IN  /\ NotPaused
        /\ Signed(auth, config.recipient)
        /\ state \in StreamableStates
        /\ m.isApproved
        /\ m.vestingSecs # 0
        /\ m.streamed < m.payout
        /\ Bookable(Vested(i) - m.streamed)

StreamMilestonePayout(auth, i) ==
    LET m == milestones[i]
        unpaid == Vested(i) - m.streamed
    IN  /\ AcceptsStream(auth, i)
        /\ PayWithFee(unpaid)
        /\ milestones' = [milestones EXCEPT
               ![i].streamed = @ + unpaid,
               ![i].status = IF m.streamed + unpaid >= m.payout THEN "Released" ELSE @]
        /\ UNCHANGED <<state, config, order, approved, lockUntil, docket, committee,
                       amendment, paused, terms, now>>

Late(m) == m.deadline # 0 /\ m.submittedAt # 0 /\ m.submittedAt > m.deadline

Slashable(m) ==
    ~ m.penaltyApplied /\ Open(m) /\ m.status = "UnderReview" /\ Late(m)

\* A slash that floors to zero only sets the flag.
ApplyLatePenalty(auth, i) ==
    LET m == milestones[i]
        cut == ApplyPenalty(m.payout, penaltyBps)
    IN  /\ NotPaused
        /\ Signed(auth, config.funder)
        /\ state = "Active"
        /\ Slashable(m)
        /\ IF cut.slash = 0 THEN UNCHANGED custody ELSE Refund(cut.slash)
        /\ milestones' = [milestones EXCEPT ![i].payout = cut.remaining,
                                            ![i].penaltyApplied = TRUE]
        /\ UNCHANGED <<state, config, order, approved, lockUntil, docket, committee,
                       amendment, paused, terms, now>>

LockElapsed == now >= lockUntil

\* The checks of the timeout refund, transfer_to's on the amount included.
AcceptsTimeoutRefund(auth) ==
    /\ NotPaused
    /\ Signed(auth, config.funder)
    /\ state = "Active"
    /\ LockElapsed
    /\ Bookable(Locked - UnstreamedObligation)

ClaimTimeoutRefund(auth) ==
    /\ AcceptsTimeoutRefund(auth)
    /\ Refund(Locked - UnstreamedObligation)
    /\ state' = "Cancelled"
    /\ UNCHANGED <<schedule, approved, lockUntil, docket, committee, amendment, paused,
                   terms, now>>

-----------------------------------------------------------------------------
(* Disputes. *)

\* Every milestone that is not fully paid, approved ones included.
MarkedDisputed ==
    [i \in Ids |-> IF Listed(i) /\ milestones[i].status # "Released"
                   THEN [milestones[i] EXCEPT !.status = "Disputed"]
                   ELSE milestones[i]]

\* The record of an earlier dispute is overwritten; its evidence is not.
RaiseDispute(auth) ==
    /\ NotPaused
    /\ Signed(auth, config.funder)
    /\ state = "Active"
    /\ dispute' = "Open"
    /\ milestones' = MarkedDisputed
    /\ state' = "Disputed"
    /\ UNCHANGED <<config, order, approved, lockUntil, custody, evidence, committee,
                   amendment, paused, terms, now>>

AppendDisputeEvidence(auth, actor, hash) ==
    /\ NotPaused
    /\ actor \in {config.funder, config.recipient}
    /\ Signed(auth, actor)
    /\ state = "Disputed"
    /\ dispute # "Resolved"
    /\ hash # ZeroHash
    /\ Cardinality(evidence) < MaxEvidence
    /\ hash \notin evidence
    /\ evidence' = evidence \cup {hash}
    /\ UNCHANGED <<state, schedule, approved, lockUntil, custody, dispute, committee,
                   amendment, paused, terms, now>>

SettledMoney_BothLegsFloored(funderBps) ==
    LET funderAmt == ApplyBps(Locked, funderBps)
        recipientAmt == ApplyBps(Locked, BPS_SCALE - funderBps)
    IN  /\ tokens' = Moved(Moved(tokens, config.funder, funderAmt),
                           config.recipient, recipientAmt)
        /\ book' = [book EXCEPT !.refunded = @ + funderAmt,
                                !.released = @ + recipientAmt]

\* Both ways to settle end here: all that is locked leaves, in two legs that
\* are transferred and booked one after the other, and the escrow is complete.
SettledMoney(funderBps) ==
    LET split == SplitAmount(Locked, funderBps)
    IN  /\ tokens' = Moved(Moved(tokens, config.funder, split.funder),
                           config.recipient, split.recipient)
        /\ book' = [book EXCEPT !.refunded = @ + split.funder,
                                !.released = @ + split.recipient]

Settle(funderBps, recipientBps) ==
    /\ state = "Disputed"
    /\ FullBps(funderBps, recipientBps)
    /\ dispute # "Resolved"
    /\ SettledMoney(funderBps)
    /\ dispute' = "Resolved"
    /\ state' = "Completed"
    /\ UNCHANGED <<schedule, approved, lockUntil, evidence, committee, amendment, paused,
                   terms, now>>

ResolveDispute(auth, funderBps, recipientBps) ==
    /\ NotPaused
    /\ Signed(auth, config.arbitrator)
    /\ Settle(funderBps, recipientBps)

Quorum_MembershipOnly(auth, signers) ==
    /\ Len(signers) >= committee.threshold
    /\ MembersOf(signers) \subseteq committee.members

\* Every listed signer is a member and listed once; the first threshold of
\* them have signed.
Quorum(auth, signers) ==
    /\ Len(signers) >= committee.threshold
    /\ MembersOf(signers) \subseteq committee.members
    /\ \A j, k \in 1 .. Len(signers) : signers[j] = signers[k] => j = k
    /\ \A k \in 1 .. committee.threshold : Signed(auth, signers[k])

SettleDisputeQuorum(auth, funderBps, recipientBps, signers) ==
    /\ NotPaused
    /\ Quorum(auth, signers)
    /\ Settle(funderBps, recipientBps)

-----------------------------------------------------------------------------
(* Amendments: one proposal at a time, applied when both parties sign.      *)

\* A funded escrow keeps its amounts; only the description and the position of
\* a milestone may then be proposed.
RequestMilestoneAmendment(auth, actor, i, payout, position) ==
    /\ NotPaused
    /\ actor \in {config.funder, config.recipient}
    /\ Signed(auth, actor)
    /\ state \in {"Pending", "Active"}
    /\ Open(milestones[i])
    /\ payout > 0
    /\ state = "Active" => payout = milestones[i].payout
    /\ amendment # NoAmendment =>
           ~ (amendment.funderApproved /\ amendment.recipientApproved)
    /\ amendment' = [id |-> i, payout |-> payout, position |-> position,
                     funderApproved |-> actor = config.funder,
                     recipientApproved |-> actor # config.funder]
    /\ UNCHANGED <<state, schedule, approved, lockUntil, custody, docket, committee,
                   paused, terms, now>>

Reordered_GapLeftOpen(i, position) ==
    LET old == CHOOSE k \in Ids : order[k] = i
    IN  [k \in Ids |->
           IF k = position THEN i
           ELSE IF old <= k /\ k < position THEN order[k + 1]
           ELSE IF position < k /\ k < old THEN order[k - 1]
           ELSE order[k]]

\* The order with milestone i taken out and put back at position.
Reordered(i, position) ==
    LET old == CHOOSE k \in Ids : order[k] = i
    IN  [k \in Ids |->
           IF k = position THEN i
           ELSE IF old <= k /\ k < position THEN order[k + 1]
           ELSE IF position < k /\ k <= old THEN order[k - 1]
           ELSE order[k]]

Repriced_InAnyState(i, payout) ==
    /\ milestones' = [milestones EXCEPT ![i].payout = payout]
    /\ config' = [config EXCEPT !.total = @ - milestones[i].payout + payout]

\* The payout is rewritten, and with it the total, only before the deposit; a
\* proposal made before it and signed after it keeps its scope and order parts.
Repriced(i, payout) ==
    IF state = "Pending"
    THEN /\ milestones' = [milestones EXCEPT ![i].payout = payout]
         /\ config' = [config EXCEPT !.total = @ - milestones[i].payout + payout]
    ELSE UNCHANGED <<milestones, config>>

\* No state is required: a proposal outlives the states it can be made in.
ApproveAmendment(auth) ==
    /\ NotPaused
    /\ amendment # NoAmendment
    /\ ~ (amendment.funderApproved /\ amendment.recipientApproved)
    /\ BothParties(auth)
    /\ Open(milestones[amendment.id])
    /\ Repriced(amendment.id, amendment.payout)
    /\ Listed(amendment.id)
    /\ order' = Reordered(amendment.id, amendment.position)
    /\ amendment' = NoAmendment
    /\ UNCHANGED <<state, approved, lockUntil, custody, docket, committee, paused,
                   terms, now>>

-----------------------------------------------------------------------------
(* The circuit breaker and the ledger's clock. *)

EmergencyPause(auth) ==
    /\ Initialized
    /\ Signed(auth, config.funder)
    /\ ~ paused
    /\ paused' = TRUE
    /\ UNCHANGED <<state, schedule, approved, lockUntil, custody, docket, committee,
                   amendment, terms, now>>

EmergencyUnpause(auth) ==
    /\ Initialized
    /\ Signed(auth, config.funder)
    /\ paused
    /\ paused' = FALSE
    /\ UNCHANGED <<state, schedule, approved, lockUntil, custody, docket, committee,
                   amendment, terms, now>>

CloseLedger ==
    /\ now < MaxTime
    /\ now' = now + 1
    /\ UNCHANGED <<state, schedule, approved, lockUntil, custody, docket, committee,
                   amendment, paused, terms>>

-----------------------------------------------------------------------------
Init ==
    /\ state = "Uninitialized"
    /\ config = [funder |-> Contract, recipient |-> Contract, arbitrator |-> Contract,
                 total |-> 0, threshold |-> 0]
    /\ milestones = [i \in Ids |-> FreshMilestone([payout |-> 0, vestingSecs |-> 0,
                                                   deadline |-> 0])]
    /\ order = [k \in Ids |-> k]
    /\ approved = 0
    /\ lockUntil = 0
    /\ book = EmptyBook
    /\ tokens \in Endowments
    /\ dispute = "None"
    /\ evidence = {}
    /\ committee = [members |-> {}, threshold |-> 0]
    /\ amendment = NoAmendment
    /\ paused = FALSE
    /\ penaltyBps = 0
    /\ treasury = Contract
    /\ feeBps = 0
    /\ now = StartTime

Setup(auth) ==
    \/ \E p \in PartyChoices, s \in Schedules : Initialize(auth, p, s)
    \/ \E bps \in PenaltyChoices : SetLatePenaltyBps(auth, bps)
    \/ \E f \in FeeChoices : ConfigureProtocolFee(auth, f.treasury, f.bps)
    \/ \E c \in CommitteeChoices : ConfigureArbitrators(auth, c.members, c.threshold)
    \/ \E allowance \in Allowances : DepositFunds(auth, allowance)

Delivery(auth) ==
    \E i \in Ids :
        \/ SubmitMilestoneProof(auth, i)
        \/ ApproveMilestone(auth, i)
        \/ StreamMilestonePayout(auth, i)
        \/ ApplyLatePenalty(auth, i)

Dispute(auth) ==
    \/ RaiseDispute(auth)
    \/ \E actor \in auth, hash \in Hashes : AppendDisputeEvidence(auth, actor, hash)
    \/ \E s \in SplitChoices : ResolveDispute(auth, s[1], s[2])
    \/ \E s \in SplitChoices, signers \in SignerLists :
           SettleDisputeQuorum(auth, s[1], s[2], signers)

Amend(auth) ==
    \/ \E actor \in auth, i \in Ids, payout \in AmendedPayouts, position \in Ids :
           RequestMilestoneAmendment(auth, actor, i, payout, position)
    \/ ApproveAmendment(auth)

Invocation(auth) ==
    \/ Setup(auth)
    \/ Delivery(auth)
    \/ ClaimTimeoutRefund(auth)
    \/ Dispute(auth)
    \/ Amend(auth)
    \/ EmergencyPause(auth)
    \/ EmergencyUnpause(auth)

Next == CloseLedger \/ \E auth \in AuthSets : Invocation(auth)

Spec == Init /\ [][Next]_vars

-----------------------------------------------------------------------------
(* Properties. *)

\* Every storage key holds a value of the type storage.rs gives it, and no
\* account of the asset is ever overdrawn (token.rs transfers).
TypeOK ==
    /\ state \in {"Uninitialized", "Pending", "Active", "Completed", "Disputed", "Cancelled"}
    /\ config \in Config
    /\ milestones \in [Ids -> Milestone]
    /\ order \in [Ids -> Ids]
    /\ approved \in Nat
    /\ lockUntil \in Nat
    /\ book \in Book
    /\ tokens \in [Address -> Nat]
    /\ dispute \in {"None", "Open", "Resolved"}
    /\ evidence \subseteq Hashes
    /\ committee \in [members : SUBSET Address, threshold : Nat]
    /\ amendment \in Amendment \cup {NoAmendment}
    /\ paused \in BOOLEAN
    /\ penaltyBps \in 0 .. BPS_SCALE
    /\ treasury \in Address
    /\ feeBps \in 0 .. BPS_SCALE
    /\ now \in Nat

PayoutTotal == SumTo([i \in Ids |-> milestones[i].payout], N)
StreamedTotal == SumTo([i \in Ids |-> milestones[i].streamed], N)

Funded == state \notin {"Uninitialized", "Pending"}
Settled == dispute = "Resolved"

\* The tokens the contract really holds always cover what its book says is
\* locked, whatever the mix of fees, streams, slashes, refunds and settlements
\* (token.rs credit_released and credit_refunded against transfer_to).
Solvent == Locked \in 0 .. tokens[Contract]

\* The book is explained by the milestones: until a dispute is settled, what was
\* released is what the milestones have streamed, what was refunded is what
\* penalties cut from them, and after a timeout refund exactly the promised
\* tokens remain (approve_milestone, apply_late_penalty, claim_timeout_refund).
BookMatchesMilestones ==
    /\ ~ Funded => book = EmptyBook
    /\ state = "Pending" => config.total = PayoutTotal
    /\ Funded => book.deposited = config.total
    /\ Funded /\ ~ Settled => book.released = StreamedTotal
    /\ Funded /\ ~ Settled /\ state # "Cancelled" =>
           book.refunded = config.total - PayoutTotal
    /\ state = "Cancelled" => Locked = UnstreamedObligation
    /\ Settled => Locked = 0

\* At no time has a milestone streamed more than its payout, nor more than its share
\* of the vesting period elapsed by then, although a dispute may stop and restart the
\* streams in between, a penalty may cut the payout and every stream is rounded
\* (vesting.rs stream_milestone_payout, math.rs vested_amount, "streamed payouts never
\* overshoot").
NeverPaidEarly ==
    \A i \in Ids : LET m == milestones[i] IN
        /\ m.streamed <= IF m.isApproved THEN m.payout ELSE 0
        /\ m.isApproved => m.streamed * m.vestingSecs <= m.payout * (now - m.completedAt)

\* The counter that decides completion counts the approved milestones exactly:
\* a live or disputed escrow has one to approve, a completed one that was not
\* settled by arbitration has none (storage.rs increment_approved).
ApprovedCountIsExact ==
    LET done == {i \in Ids : milestones[i].isApproved}
    IN  /\ approved = Cardinality(done)
        /\ state \in {"Active", "Disputed"} => done # Ids
        /\ state = "Completed" /\ ~ Settled => done = Ids

\* The order lists every milestone once.  The timeout refund and raise_dispute
\* walk this list, so an id lost by a reorder would be refunded although it was
\* promised (milestone.rs reorder_milestone, vesting.rs unstreamed_obligation).
OrderListsAll == \A i \in Ids : \E k \in Ids : order[k] = i /\ \A j \in Ids \ {k} : order[j] # i

\* While some milestone can still be paid for, the funder of a live escrow can
\* always take the timeout refund once the lock has elapsed: no interleaving of
\* approvals, streams, penalties and disputes leaves it without an exit
\* (claim_timeout_refund fails on an empty remainder).
RefundIsPossible ==
    /\ state = "Active" /\ ~ paused /\ LockElapsed
    /\ \E i \in Ids : ~ milestones[i].isApproved /\ milestones[i].payout > 0
    => AcceptsTimeoutRefund({config.funder})

\* Once everything has vested, whatever a completed escrow still locks can be
\* withdrawn by the recipient (stream_milestone_payout accepts Completed).
CompletedPaysOut ==
    /\ state = "Completed" /\ ~ paused /\ Locked > 0
    /\ \A i \in Ids : now >= milestones[i].completedAt + milestones[i].vestingSecs
    => \E i \in Ids : AcceptsStream({config.recipient}, i)

\* While a dispute is in progress no token moves and no milestone changes: both happen
\* only in the step that takes the escrow out of Disputed (lib.rs raise_dispute, "Freeze
\* unreleased milestone balances").  A paused contract does nothing but pass time until
\* it is unpaused, whichever entrypoint is called (emergency_pause, "Freezes deposits,
\* proofs, releases, disputes, and refunds").
FreezesHold ==
    [][/\ state = "Disputed" /\ state' = "Disputed" => UNCHANGED <<custody, milestones>>
       /\ paused /\ paused' =>
              UNCHANGED <<state, schedule, approved, lockUntil, custody, docket, committee,
                          amendment, terms>>]_vars
=============================================================================
