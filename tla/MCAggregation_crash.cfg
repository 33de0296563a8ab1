\* A worker that dies while it holds the lock of a unit.
CONSTANTS
    r1 = r1
    r2 = r2
    r3 = r3
    g1 = g1
    w1 = w1
    w2 = w2
    NoGroup = NoGroup
    NoJob = NoJob
    Requests = {r1}
    Groups = {g1}
    Workers = {w1, w2}
    Standalone = {w1}
    AccountsOf <- TwoAccounts
    ChainsOf <- MixedChains
    GroupOf <- Ungrouped
    MaxFaults = 0
    StaleJobs = FALSE
    MaxDisconnects = 0
    MaxCrashes = 1
    MaxRedeliver = 0
    MaxExpired = 0
SPECIFICATION Spec
PROPERTY SkippedIsDuplicate
\* The system stops once its requests are answered and its messages consumed.
CHECK_DEADLOCK FALSE
