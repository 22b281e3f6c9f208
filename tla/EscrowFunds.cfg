SPECIFICATION Spec
CONSTANTS
    funder = funder
    recipient = recipient
    arbitrator = arbitrator
    juror = juror
    vault = vault
    contract = contract
    usdc = usdc
    Address <- MCAddress
    Contract = contract
    Sep41Assets = {usdc}
    N = 2
    LockSecs = 2
    DefaultPenaltyBps = 500
    MaxEvidence = 1
    ZeroHash = zero
    NoAmendment = NoAmendment
    AuthSets <- PlainAuths
    PartyChoices <- MCParties
    Schedules <- FundSchedules
    Allowances = {6, 7}
    SplitChoices <- Halves
    FeeChoices <- Fees
    PenaltyChoices = {5000, 10000, 20000}
    CommitteeChoices = {}
    SignerLists = {}
    AmendedPayouts = {}
    Hashes = {}
    Endowments <- BareEndowment
    StartTime = 1
    MaxTime = 4
INVARIANTS
    TypeOK
    Solvent
    BookMatchesMilestones
    NeverPaidEarly
    ApprovedCountIsExact
    RefundIsPossible
    CompletedPaysOut
    SnapshotAgrees
    ProjectedIsWithdrawable
PROPERTIES
    
    ImplementsCustody
    StreamsPayProjected
