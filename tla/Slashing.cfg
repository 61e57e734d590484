CONSTANTS
    SessionsPerEra = 2
    HistoryDepths = {8}
    GenesisHistoryDepth = 8
    ForcingModes = {"NotForcing", "ForceNew", "ForceNone", "ForceAlways"}
    U32 = 16
    None = None
    MaxSession = 2
    Accuracy = 10
    Validators = {v1, v2}
    Nominators = {n1}
    ExposureOwn <- MCExposureOwn
    ExposureOthers <- MCExposureOthers
    ElectionResults = {{v1, v2}, {v2}}
    Fractions = {0, 5, 10}
    Strategies = {"WhenSlashed"}
    RewardProportion = 5
    OffendingThreshold = 8
    BondingDuration = 1
    MaxReports = 3
SPECIFICATION MCSpec
INVARIANTS
    SpansCoverWindow
    SpanPaysMaximum
    RewardWithinFraction
    OffendersStayDisabled
    OffendersForceEra
