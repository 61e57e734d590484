CONSTANTS
    SessionsPerEra = 3
    HistoryDepths = {0, 1, 2, 3}
    GenesisHistoryDepth = 2
    ForcingModes = {"NotForcing", "ForceNew", "ForceNone", "ForceAlways"}
    U32 = 16
    None = None
    MaxSession = 8
SPECIFICATION ErasFairSpec
INVARIANTS
    EraPipeline
PROPERTIES
    PlannedEraStarts
    PredictionIsExact
