SPECIFICATION ServicesSpec
CONSTANTS
    i1 = i1
    i2 = i2
    o1 = o1
    o2 = o2
    o3 = o3
    o4 = o4
    t3 = t3
    p1 = p1
    p2 = p2
    ContractIds <- MCContractIds
    NumChainEvents = 3
    MaxLedger = 2
    PollLimit = 2
    BackfillLimit = 1
    MaxBackfills = 1
    MaxIndexerFaults = 1
    Reviews = {v1}
    Requests = {t1, t2}
    MaxVersions = 2
    FlagThreshold = 1
    AutoFlagCount = 1
    Ratings = {1, 4}
    Rewards = {r1, r2}
    ClaimUsers = {u1, u2, u3}
    DedupeKeys = {k1}
    Claimers = {t1, t2}
    MaxClaims = 1
    Transactions = {t1, t2}
    FundAmounts = {2, 3}
    Rules <- MCRules
    FinisherCounts = {1, 3}
    MaxTransactions = 5
    Listings = {l1}
    Offers = {o1, o2, o3, o4}
    Offerors = {p1, p2}
    Offeror <- MCOfferor
    Traders = {t1, t2, t3}
    MaxMarketFaults = 1
    Instances = {b1, b2}
    Calls = {c1, c2}
    MaxWrites = 2
    MaxCacheFaults = 1
    StreakRequests = {t1, t2}
    MaxDay = 3
    ResetAfterDays = 1
    DaysInactive = 1
    Wallets = {w1, w2}
    LoginAccounts = {a1, a2}
    Challenges = {h1, h2}
    Logins = {t1, t2}
    FreighterAccounts = {g1}
    Topics = {s1, s2}
    Refreshes = {f1}
    MaxReloads = 1
SYMMETRY MCSymmetry
INVARIANTS
    ServicesTypeOK
    IndexIsComplete
    PublishedTextWasApproved
    ClaimsStayNearLimit
    PoolIsBacked
    TradesFollowAcceptance
    StaleOnlyByOthers
    StreakIsBacked
    ChallengeIsUsedOnce
    OnlyLateRefreshesClobber
CHECK_DEADLOCK FALSE
