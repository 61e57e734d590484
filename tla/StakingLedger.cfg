CONSTANTS
    SessionsPerEra = 1
    HistoryDepths = {8}
    GenesisHistoryDepth = 8
    ForcingModes = {"NotForcing", "ForceNew"}
    U32 = 16
    None = None
    MaxSession = 3
    Accuracy = 1000
    BondingDuration = 3
    SlashDeferDuration = 1
    MaxUnlockingChunks = 2
    ExistentialDeposit = 2
    MinNominatorBond = 2
    MinValidatorBond = 3
    GenesisBond = 6
    Amounts = {2}
    ExposedStakes = {0, 6}
    SlashAmounts = {3}
    MaxFree = 6
    MaxPending = 2
SPECIFICATION LedgerSpec
INVARIANTS
    LedgerAddsUp
    StakeIsLocked
    SlashIsScheduled
    StakerCannotBail
