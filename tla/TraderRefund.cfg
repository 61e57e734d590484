CONSTANTS
    Assets = {a1}
    Locations = {l1}
    Rates = {2}
    Weights = {1, 2}
    Addresses = {9, 10}
    NativeErc20Ids = {10}
    IssuedAssets = {a1}
    MaxPayment = 3
    WeightPerSecond = 2
    Absent = Absent
    MaxBuys = 2
SPECIFICATION TraderSpec
INVARIANTS
    RefundsWithinPayment
