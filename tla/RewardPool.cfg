CONSTANTS
    Accounts = {a1, a2}
    Amounts = {1, 2}
    DexIncentiveReward = 4
    ExistentialReward = 2
    ExistentialDeposit = 2
    Accuracy = 1000
    MaxBalance = 12
    MaxBlock = 3
    Currencies = {1, 2}
    DexRewards <- MCDexRewards
    Pair <- MCPair
SPECIFICATION IncentivesSpec
INVARIANTS
    DebtIsVirtual
    UseableIsThere
    ShownIsCovered
PROPERTIES
    JoiningIsNeutral
    ShownIsPaid
CHECK_DEADLOCK FALSE
