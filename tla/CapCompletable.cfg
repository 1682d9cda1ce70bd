SPECIFICATION MCSpec
CONSTANTS
    Accounts = {a1}
    Roles = {}
    NftContracts = {n1, n2}
    FirstNft = n1
    WasmHashes = {}
    NoOne = NoOne
    NoRecord = NoRecord
    Players = {p1}
    Game = game
    OtherMinters = {custodian}
    LastLevel = 2
    MaxQuestionCount = 3
    MaxQuestionsPerLevel = 2
    DefaultCap = 2
    CapInputs = {1, 2}
    MaxLedger = 3
    MaxConfigSteps = 3
INVARIANTS
    LevelStaysCompletable
CHECK_DEADLOCK FALSE
