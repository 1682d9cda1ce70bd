SPECIFICATION MCSpec
CONSTANTS
    Accounts = {a1}
    Roles = {minter}
    NftContracts = {n1, n2}
    FirstNft = n1
    WasmHashes = {w1}
    NoOne = NoOne
    Players = {p1}
    Game = game
    OtherMinters = {custodian}
    Tokens = {t1, t2}
    FirstToken = t1
    Amounts = {0, 1}
    Funds = 2
    EventIds = {e1}
    Windows <- MCWindows
    MaxTime = 3
    LastLevel = 2
    MaxQuestionCount = 2
    MaxQuestionsPerLevel = 2
    DefaultCap = 1
    CapInputs = {2}
    MaxConfigSteps = 3
INVARIANTS
    EconomyTypeOK
    RewardsAreEarned
    StakesAreBacked
PROPERTIES
    SlashIsFinal
CHECK_DEADLOCK FALSE
