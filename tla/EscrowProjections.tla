------------------------- MODULE EscrowProjections --------------------------
(***************************************************************************)
(* What the SDK computes from a snapshot of the contract's records:           *)
(* projectEscrow (packages/sdk/src/models/state.ts) and interpolateStream      *)
(* (packages/sdk/src/stream.ts).  They are pure functions of what the pages   *)
(* have read; here they read every state the contract can be in, and the      *)
(* properties compare what they show with what the contract then does.        *)
(***************************************************************************)
EXTENDS Escrow, FiniteSetsExt

----------------------------------------------------------------------------
(* stream.ts.  Its caller has checked that the end is after the start.        *)

\* Mutant: rounded up.
StreamVested_RoundedUp(total, start, end, at) ==
    IF at <= start THEN 0
    ELSE IF at >= end THEN total
    ELSE (total * (at - start) + (end - start) - 1) \div (end - start)

StreamVested(total, start, end, at) ==
    IF at <= start THEN 0
    ELSE IF at >= end THEN total
    ELSE (total * (at - start)) \div (end - start)

ElapsedRatioBps(start, end, at) ==
    IF at <= start THEN 0
    ELSE IF at >= end THEN BPS_SCALE
    ELSE ((at - start) * BPS_SCALE) \div (end - start)

\* Mutant: what was claimed is forgotten.
InterpolateStream_Unclaimed(total, start, end, at, claimed, decayBps) ==
    LET vested == StreamVested(total, start, end, at)
    IN  [vested |-> vested, remaining |-> total - vested,
         elapsedRatioBps |-> ElapsedRatioBps(start, end, at), completed |-> at >= end]

InterpolateStream(total, start, end, at, claimed, decayBps) ==
    LET raw == StreamVested(total, start, end, at)
        vested == raw - (raw * decayBps) \div BPS_SCALE
        unlocked == IF vested > claimed THEN vested - claimed ELSE 0
    IN  [vested |-> unlocked,
         remaining |-> IF total > claimed THEN total - claimed - unlocked ELSE 0,
         elapsedRatioBps |-> ElapsedRatioBps(start, end, at),
         completed |-> at >= end]

\* The stream of an approved milestone that vests.
Streams(i) == milestones[i].isApproved /\ milestones[i].vestingSecs # 0
Projected(i) ==
    LET m == milestones[i]
    IN  InterpolateStream(m.payout, m.completedAt, m.completedAt + m.vestingSecs, now,
                          m.streamed, 0)

----------------------------------------------------------------------------
(* models/state.ts.  lock is the snapshot's lockSecs: the window the escrow   *)
(* was built with, or 0, since the contract's own record does not hold it.    *)

LockedOf(b) == Max({0, b.deposited - b.released - b.refunded})

LatestProof == Max({milestones[i].submittedAt : i \in Ids})

\* Mutant: the window is taken for a date.
DeadlineOf_WindowOnly(lock) == lock

DeadlineOf(lock) ==
    IF LatestProof > 0 /\ lock > 0 THEN LatestProof + lock ELSE lock

CompletedMilestones ==
    {i \in Ids : milestones[i].isApproved \/ milestones[i].status = "Released"}

\* percentComplete in hundredths of a percent.
ProjectEscrow(lock) ==
    LET done == Cardinality(CompletedMilestones)
        percent == (done * 10000) \div N
        deadline == DeadlineOf(lock)
        overdue == deadline > 0 /\ now >= deadline /\ state = "Active"
    IN  [locked |-> LockedOf(book),
         completedMilestones |-> done,
         percentComplete |-> percent,
         secondsToDeadline |-> IF deadline > now THEN deadline - now ELSE 0,
         overdue |-> overdue,
         health |-> CASE paused -> "paused"
                      [] ~ paused /\ state = "Disputed" -> "disputed"
                      [] ~ paused /\ state = "Completed" -> "completed"
                      [] ~ paused /\ state = "Cancelled" -> "cancelled"
                      [] OTHER -> IF overdue \/ percent = 0 THEN "at_risk" ELSE "healthy"]

----------------------------------------------------------------------------
(* Properties.                                                              *)

\* The amounts and the progress that projectEscrow shows are the contract's: its
\* locked balance without the clamp, its counter of approvals, and the full hundred
\* percent exactly when the approvals complete the escrow.  Two records of progress,
\* the flags and the counter, are read apart and must tell the same (lockedOf,
\* completedMilestones; storage.rs increment_approved).  And once a proof has been given,
\* an escrow that is shown as overdue is one whose lock has elapsed: the dates of the
\* proofs, which penalties and approvals leave alone and disputes do not reset, never run
\* ahead of the contract's own deadline (deadlineOf; deposit_funds, claim_timeout_refund).
SnapshotAgrees ==
    Initialized =>
        LET p == ProjectEscrow(0)
        IN  /\ p.locked = Locked
            /\ p.completedMilestones = approved
            /\ state = "Completed" /\ ~ Settled => p.percentComplete = 10000
            /\ p.health \in {"healthy", "at_risk"} => p.percentComplete < 10000
            /\ LatestProof > 0 /\ ProjectEscrow(LockSecs).overdue => LockElapsed

\* What the projection of a stream shows as withdrawable can be withdrawn, and nothing
\* else can, whatever streams, disputes and pauses came between; and what is left
\* vests until nothing remains (interpolateStream, "matching the on-chain vested_amount
\* helper"; stream_milestone_payout).
ProjectedIsWithdrawable ==
    \A i \in Ids : Streams(i) =>
        LET p == Projected(i)
        IN  /\ p.vested + p.remaining = milestones[i].payout - milestones[i].streamed
            /\ p.completed => p.remaining = 0
            /\ state \in {"Active", "Completed"} /\ ~ paused /\ ~ Settled =>
                   (p.vested > 0 <=> AcceptsStream({config.recipient}, i))

\* A stream pays what the projection showed in the moment before and leaves what it
\* said would remain; and the share of the payout that its elapsed ratio stands for is
\* never more than what has been paid (two roundings of the same fraction).
StreamsPayProjected ==
    [][\A i \in Ids :
          Streams(i) /\ milestones'[i].streamed # milestones[i].streamed =>
              LET p == Projected(i)
                  m == milestones'[i]
              IN  /\ m.streamed = milestones[i].streamed + p.vested
                  /\ m.payout = m.streamed + p.remaining
                  /\ (m.payout * p.elapsedRatioBps) \div BPS_SCALE <= m.streamed]_vars
=============================================================================
