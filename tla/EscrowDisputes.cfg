SPECIFICATION SignedSpec
CONSTANTS
    funder = funder
    recipient = recipient
    arbitrator = arbitrator
    juror = juror
    vault = vault
    contract = contract
    usdc = usdc
    Address <- MCAddress
    Contract = contract
    Sep41Assets = {usdc}
    N = 2
    LockSecs = 1
    DefaultPenaltyBps = 500
    MaxEvidence = 1
    ZeroHash = zero
    NoAmendment = NoAmendment
    AuthSets <- CommitteeAuths
    PartyChoices <- MCParties
    Schedules <- SignedSchedules
    Allowances = {5}
    SplitChoices <- Halves
    FeeChoices = {}
    PenaltyChoices = {5000}
    CommitteeChoices <- Committees
    SignerLists <- Signatures
    AmendedPayouts = {}
    Hashes = {zero, photo, ledger}
    Endowments <- GiftedEndowment
    StartTime = 1
    MaxTime = 3
PROPERTIES
    DisputeNeedsAdjudicator
    PaidOnSignature
