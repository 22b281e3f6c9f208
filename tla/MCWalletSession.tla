-------------------------- MODULE MCWalletSession --------------------------
(* WalletSession with two accounts in Freighter and one in xBull.           *)
EXTENDS WalletSession

CONSTANTS A, B, X, Mainnet

W(account, network) == [account |-> account, network |-> network]

\* Freighter switches its account, its network, or is locked; xBull may refuse.
MCWalletStates ==
    [freighter |-> {W(A, Testnet), W(B, Mainnet), W(None, None)},
     xbull |-> {W(X, Testnet), W(None, None)}]

MCNetworks == {Testnet, Mainnet}
=============================================================================
