SPECIFICATION Spec
CONSTANTS
    Claims = {c1}
    Players = {p1}
    Accounts = {a1}
    Contract = n1
    Custodian = custodian
    Game = game
    Level = 1
    MaxRetries = 3
    HostRefuses = FALSE
    NoOne = NoOne
INVARIANTS
    RetryResolvesToOriginal
CHECK_DEADLOCK FALSE
