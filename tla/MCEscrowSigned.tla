--------------------------- MODULE MCEscrowSigned ---------------------------
(* Escrow with the signatures of each step, on the instances of                *)
(* EscrowInstances.                                                         *)
EXTENDS EscrowSigned, EscrowInstances
=============================================================================
