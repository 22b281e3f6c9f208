SPECIFICATION AuthSpec
CONSTANTS
    Wallets = {w1, w2}
    CHALLENGE_TTL_MS = 2
    MAX_CHALLENGES = 2
    HandlerTime = 1
    MaxTime = 4
    MaxIssued = 4
SYMMETRY WalletSymmetry
INVARIANTS
    AuthTypeOK
    AcceptedOnceInTime
    KeptWhileItLives
    TableIsBounded
