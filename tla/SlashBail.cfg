CONSTANTS
    SessionsPerEra = 2
    HistoryDepths = {8}
    GenesisHistoryDepth = 8
    ForcingModes = {"NotForcing"}
    U32 = 16
    None = None
    MaxSession = 4
    Accuracy = 1000
    BondingDuration = 2
    SlashDeferDuration = 1
    MaxUnlockingChunks = 2
    ExistentialDeposit = 2
    MinNominatorBond = 2
    MinValidatorBond = 3
    GenesisBond = 4
    Amounts = {2}
    ExposedStakes = {0, 4}
    SlashAmounts = {1, 3}
    MaxFree = 4
    MaxPending = 1
SPECIFICATION LedgerSpec
INVARIANTS
    StakerCannotBail
