--------------------------- MODULE EscrowCustody ----------------------------
(* The escrow contract implements Custody. *)
EXTENDS Escrow

phase ==
    CASE state \in {"Uninitialized", "Pending"} -> "Unfunded"
      [] state = "Active" -> "Held"
      [] state = "Disputed" -> "Frozen"
      [] state \in {"Completed", "Cancelled"} -> "Closed"

\* A settlement distributes promised money too, and leaves the milestones as
\* they were: from then on they promise nothing.
promised == IF Settled THEN 0 ELSE UnstreamedObligation

Abstract == INSTANCE Custody WITH phase <- phase, pot <- Locked, promised <- promised

\* Every step of the contract is a step of the abstract pot or leaves it alone:
\* approvals, streams, penalties, disputes, settlements and the timeout refund
\* take from the pot only what Custody lets them take (lib.rs, vesting.rs,
\* penalty.rs, multisig.rs).
ImplementsCustody == Abstract!Spec
=============================================================================
