SPECIFICATION FairSessionSpec
CONSTANTS
    A = A
    B = B
    X = X
    Testnet = Testnet
    Mainnet = Mainnet
    None = None
    Networks <- MCNetworks
    WalletStates <- MCWalletStates
    Slots = {s1, s2}
    MaxChanges = 2
INVARIANTS
    AccountOfItsWallet
    StoredIsShown
PROPERTIES
    SessionFollowsWallet
