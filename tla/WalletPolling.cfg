SPECIFICATION WalletSpec
CONSTANTS
    FreighterAccounts = {g1}
    Topics = {s1, s2}
    Refreshes = {f1}
    MaxReloads = 1
INVARIANT PollingKeepsWalletConnect
CHECK_DEADLOCK FALSE
