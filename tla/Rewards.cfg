CONSTANTS
    SessionsPerEra = 1
    HistoryDepths = {1, 2}
    GenesisHistoryDepth = 2
    ForcingModes = {"NotForcing", "ForceNone"}
    U32 = 16
    None = None
    MaxSession = 2
    Accuracy = 10
    v1 = v1
    v2 = v2
    v3 = v3
    c1 = c1
    c2 = c2
    c3 = c3
    Stashes = {v1, v2}
    Controllers = {c1, c3}
    GenesisController <- MCGenesisController
    ElectionResults <- MCBackedElection
    Commissions = {5}
    Payees = {"Account"}
    Leavers = {v1, v2}
    MaxNominatorRewardedPerValidator = 1
    ExistentialDeposit = 2
    TotalIssuance = 6
    Payments = {1}
    MaxPoints = 1
SPECIFICATION Spec
INVARIANTS
    NoDoublePayout
    RewardsClaimable
    FundCoversRewards
PROPERTIES
    EndedEraIsRewarded
    FundFullyPromised
    ImplementsBudget
