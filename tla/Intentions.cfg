CONSTANTS
    v = v
    w = w
    n = n
    None = None
    Noop = Noop
    Unset = Unset
    Stashes = {v, w, n}
    Switchers = {w}
    Offenders = {v}
    Accuracy = 10
    ExistentialDeposit = 1
    MaxNominations = 2
    BagThresholds = {0, 1}
    VoteFactor = 1
    GenesisStatus <- MCGenesisStatus
    GenesisConfig <- MCGenesisConfig
    GenesisBond = 1
    Amounts = {1}
    TargetLists <- MCTargetLists
    Prefs <- MCPrefs
    ConfigOps <- MCConfigOps
    Caps = {None, 1}
    MaxActive = 1
    MaxEra = 1
SPECIFICATION Spec
INVARIANTS
    VoterListIsStakers
    SnapshotIsFair
PROPERTIES
    VoidVotesStayVoid
