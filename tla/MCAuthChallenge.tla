-------------------------- MODULE MCAuthChallenge --------------------------
(* AuthChallenge on two wallets.                                            *)
EXTENDS AuthChallenge, TLC

\* Wallets are interchangeable.
WalletSymmetry == Permutations(Wallets)
=============================================================================
