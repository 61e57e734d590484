CONSTANTS
    Users = {u1, u2}
    EthAddresses = {e1}
    GenesisBalance = 3
    ExistentialDeposit = 2
    None = None
    MaxNonce = 3
SPECIFICATION EvmSpec
PROPERTIES
    ClaimKeepsNonce
CHECK_DEADLOCK FALSE
