--------------------------- MODULE EscrowSigned -----------------------------
(***************************************************************************)
(* Escrow with a history variable: the addresses that authorized the last   *)
(* invocation.  It restricts nothing; it lets a property say on whose       *)
(* signature a step happened.                                               *)
(***************************************************************************)
EXTENDS Escrow

VARIABLE signed

SignedInit == Init /\ signed = {}

SignedNext ==
    \/ CloseLedger /\ signed' = {}
    \/ \E auth \in AuthSets : Invocation(auth) /\ signed' = auth

SignedSpec == SignedInit /\ [][SignedNext]_<<vars, signed>>

Parties == {config.funder, config.recipient}

\* What settles a dispute: the arbitrator alone, or a quorum of the committee.
Adjudicated ==
    \/ config.arbitrator \in signed'
    \/ Cardinality(signed' \cap committee.members) >= committee.threshold

\* The tokens of a disputed escrow move only on an adjudicator's signature, and
\* the committee that may give it holds neither party, however it was replaced
\* and whoever raised the dispute (access.rs require_releaser and require_quorum,
\* multisig.rs configure_arbitrators).
DisputeNeedsAdjudicator ==
    [][state = "Disputed" /\ tokens' # tokens =>
          Adjudicated /\ ~ (signed' \subseteq Parties)]_<<vars, signed>>

\* The recipient is paid only for what somebody else signed: an adjudicator of a
\* dispute, the funder approving a milestone in that step, or, for a stream that
\* the recipient pulls itself, an approval in an earlier step.
\* The funder gets tokens back only on its own signature, once the lock has
\* elapsed or for a milestone delivered late, or on an adjudicator's.
PaidOnSignature ==
    [][/\ tokens'[config.recipient] > tokens[config.recipient] =>
             \/ state = "Disputed" /\ Adjudicated
             \/ /\ config.funder \in signed'
                /\ \E i \in Ids : milestones'[i].isApproved /\ ~ milestones[i].isApproved
             \/ /\ config.recipient \in signed'
                /\ \E i \in Ids : /\ milestones[i].isApproved
                                  /\ milestones'[i].streamed > milestones[i].streamed
       /\ book'.refunded > book.refunded =>
             \/ state = "Disputed" /\ Adjudicated
             \/ /\ config.funder \in signed'
                /\ \/ LockElapsed
                   \/ \E i \in Ids : Late(milestones[i])]_<<vars, signed>>
=============================================================================
