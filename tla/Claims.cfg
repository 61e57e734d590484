CONSTANTS
    Networks = {bsc, eth}
    BSC = bsc
    Txs = {t1}
    EthAddresses = {e1}
    ZeroAddress = zero
    Accounts = {a1}
    Nodes = {n1, n2}
    Values = {3}
    MintFees = {2}
    BurnFees = {2}
    Limits = {4}
    GenesisBalance = 5
    ExistentialDeposit = 2
    None = None
    MaxUpgrades = 1
SPECIFICATION ClaimsFairSpec
INVARIANTS
    BridgeIsBacked
    MintedWithinLimit
PROPERTIES
    ClaimIsFinal
    ClaimsArePaid
