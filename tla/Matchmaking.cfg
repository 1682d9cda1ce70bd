SPECIFICATION FairSpec
CONSTANTS
    Timers = {t1}
    Requests = {r1}
    Profiles <- MCProfiles
    NumEntries = 3
    Take = 3
    MaxFaults = 1
    NoProfile = NoProfile
    ann = ann
    bob = bob
    cem = cem
INVARIANTS
    MatchTypeOK
    MatchesAreCompatible
    MatchedIsNamed
    PairingIsStable
PROPERTIES
    PairsDoNotWait
CHECK_DEADLOCK FALSE
