---------------------------- MODULE EscrowClaims ----------------------------
(***************************************************************************)
(* What a comment of the contract says and the contract does not do.        *)
(***************************************************************************)
EXTENDS Escrow

\* vesting.rs:71 calls the unstreamed part of approved milestones "Tokens already
\* promised to recipients via approval but not yet streamed", and the timeout
\* refund leaves exactly those in the contract.  So once such a milestone has
\* vested in full, its recipient should be able to withdraw the rest, unless the
\* escrow is frozen or a settlement has distributed it otherwise.
PromisesRemainPayable ==
    \A i \in Ids :
        LET m == milestones[i]
        IN  /\ m.isApproved /\ m.streamed < m.payout
            /\ now >= m.completedAt + m.vestingSecs
            /\ ~ paused /\ state # "Disputed" /\ ~ Settled
            => AcceptsStream({config.recipient}, i)
=============================================================================
