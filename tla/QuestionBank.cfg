SPECIFICATION Spec
CONSTANTS
    Accounts = {a1}
    Roles = {}
    NftContracts = {}
    WasmHashes = {}
    NoOne = NoOne
    LastLevel = 2
    MaxQuestionCount = 3
    MaxQuestionsPerLevel = 3
    DefaultCap = 2
    CapInputs = {1, 3, 4}
INVARIANTS
    TypeOK
    IndexInvariant
    LevelCapCoversIndex
PROPERTIES
    ImplementsLevelOrder
