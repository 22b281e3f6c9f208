----------------------------- MODULE EscrowMath -----------------------------
(***************************************************************************)
(* The pure arithmetic of the escrow contract: contracts/escrow/src/math.rs *)
(* and the totals the contract folds over its milestones.                   *)
(*                                                                          *)
(* Every operator takes amounts that are already known to be natural        *)
(* numbers: the contract rejects negative amounts before it gets here, and  *)
(* i128 is wide enough that the checked operations never overflow on the    *)
(* amounts a token can hold.                                                *)
(***************************************************************************)
EXTENDS Integers

BPS_SCALE == 10000

\* A pair of shares is accepted only when it consumes the whole scale.
FullBps(left, right) == left + right = BPS_SCALE

\* floor(amount * bps / 10_000)
ApplyBps(amount, bps) == (amount * bps) \div BPS_SCALE

\* The funder gets the floored share, the recipient everything else.
SplitAmount(amount, funderBps) ==
    LET funderAmt == ApplyBps(amount, funderBps)
    IN  [funder |-> funderAmt, recipient |-> amount - funderAmt]

ProtocolFee(gross, feeBps) ==
    LET fee == ApplyBps(gross, feeBps)
    IN  [fee |-> fee, net |-> gross - fee]

ApplyPenalty(gross, penaltyBps) ==
    LET slash == ApplyBps(gross, penaltyBps)
    IN  [slash |-> slash, remaining |-> gross - slash]

VestedAmount_RoundedUp(total, start, end, now) ==
    IF now <= start THEN 0
    ELSE IF now >= end THEN total
    ELSE (total * (now - start) + (end - start) - 1) \div (end - start)

\* What has vested of total at time now, linearly between start and end.
VestedAmount(total, start, end, now) ==
    IF now <= start THEN 0
    ELSE IF now >= end THEN total
    ELSE (total * (now - start)) \div (end - start)

\* f[1] + ... + f[n].  A recursive function and not a RECURSIVE operator, so
\* that the proofs of EscrowProofs can reason about it.
SumTo(f, n) ==
    LET prefix[k \in 0 .. n] == IF k = 0 THEN 0 ELSE prefix[k - 1] + f[k]
    IN  prefix[n]
=============================================================================
