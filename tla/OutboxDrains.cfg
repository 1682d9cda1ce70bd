SPECIFICATION Spec
CONSTANTS
    Workers = {w1, w2}
    NumEvents = 2
    Handled = {1, 2}
    MaxAttempts = 3
    BatchSize = 2
    MaxFaults = 0
INVARIANTS
    NotTwiceByConcurrentDrains
CHECK_DEADLOCK FALSE
