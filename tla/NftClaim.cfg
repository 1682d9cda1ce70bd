SPECIFICATION FairSpec
CONSTANTS
    Claims = {c1, c2}
    Players = {p1}
    Accounts = {a1}
    Contract = n1
    Custodian = custodian
    Game = game
    Level = 1
    MaxRetries = 2
    HostRefuses = TRUE
    NoOne = NoOne
INVARIANTS
    ClaimTypeOK
    ConfirmedIsMinted
    MintedOnce
PROPERTIES
    AnsweredOnce
    EventuallyAnswered
CHECK_DEADLOCK FALSE
