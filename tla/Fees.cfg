CONSTANTS
    u1 = u1
    u2 = u2
    Users = {u1, u2}
    Author = author
    Fund = fund
    Treasury = treasury
    Wallet = wallet
    ExistentialDeposit = 2
    TotalSupply = 18
    AuthorBalance = 7
    Stash = 6
    InitialBalances <- MCInitialBalances
    Networks <- MCNetworks
    FeePerWeight = 1
    LengthFee = 0
    MaxWeight = 2
    Tips = {0, 1}
    Amounts = {1, 3}
    GasPrice = 1
    MaxGas = 1
    BurnDivisor = 2
    MaxSlashed = 2
    MaxReporters = 2
    Assets = {a1, a2}
    Locations = {l1, l2}
    Rates = {1, 3}
    Weights = {1, 2}
    Addresses = {9, 10, 12}
    NativeErc20Ids = {10, 11}
    IssuedAssets = {a2}
    MaxPayment = 3
    WeightPerSecond = 2
    Absent = Absent
    MaxBuys = 2
    Million = 100
    Inputs <- MCInputs
    TotalTokens = 40
    EraDurations = {1, 7, 12, 13}
    MillisecondsPerYear = 12
    MaxTaylorTerms = 30
    Tolerance = 2
SPECIFICATION MCSpec
INVARIANTS
    MoneyIsKept
    PaymentIsAccounted
    CurveIsSound
PROPERTIES
    CurveAgreesWithInflation
    MacroEnds
CHECK_DEADLOCK FALSE
