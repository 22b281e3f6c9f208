SPECIFICATION Spec
CONSTANTS
    funder = funder
    recipient = recipient
    arbitrator = arbitrator
    juror = juror
    vault = vault
    contract = contract
    usdc = usdc
    Address <- MCAddress
    Contract = contract
    Sep41Assets = {usdc}
    N = 3
    LockSecs = 1
    DefaultPenaltyBps = 500
    MaxEvidence = 1
    ZeroHash = zero
    NoAmendment = NoAmendment
    AuthSets <- PartyAuths
    PartyChoices <- PartiesAndCollisions
    Schedules <- OrderedSchedule
    Allowances = {5, 6}
    SplitChoices = {}
    FeeChoices = {}
    PenaltyChoices = {}
    CommitteeChoices = {}
    SignerLists = {}
    AmendedPayouts = {0, 2}
    Hashes = {}
    Endowments <- BareEndowment
    StartTime = 1
    MaxTime = 2
INVARIANTS
    BookMatchesMilestones
    OrderListsAll
