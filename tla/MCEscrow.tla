------------------------------ MODULE MCEscrow ------------------------------
(* Escrow, its refinement of Custody, its documented claims and the SDK's     *)
(* projections of it, on the small instances of EscrowInstances.            *)
EXTENDS EscrowCustody, EscrowClaims, EscrowProjections, EscrowInstances
=============================================================================
