SPECIFICATION FairSpec
CONSTANTS
    Workers = {w1, w2}
    NumEvents = 2
    Handled = {1}
    MaxAttempts = 3
    BatchSize = 2
    MaxFaults = 1
INVARIANTS
    OutboxTypeOK
    ClaimIsExclusive
    AttemptsAreReal
    StrandedOnlyByFaults
PROPERTIES
    SettledStaysSettled
    EventuallySettled
CHECK_DEADLOCK FALSE
