CONSTANTS
    Users = {u1, u2}
    e1 = e1
    e2 = e2
    EthAddresses = {e1, e2}
    GenesisBalance = 7
    ExistentialDeposit = 2
    None = None
    MaxNonce = 2
    BaseFee = 1
    BlockGasLimit = 3
    IntrinsicGas = 1
    BlockHashCount = 0
    Calls <- MCCalls
    Amounts = {5, 6}
    MaxBlock = 3
    U64 = 64
    WeightPerGas = 1
    TipUnit = 1
    Contracts = {e2}
    MaxPooled = 1
SPECIFICATION PoolSpec
SYMMETRY UserSymmetry
INVARIANTS
    ReadyIsNotEarly
    ValidatedExecutes
    BlockIsWhatWasExecuted
    HashWindow
    MappingsInverse
