\* The status that clients poll for, with one job and no failure at all.
CONSTANTS
    r1 = r1
    r2 = r2
    r3 = r3
    g1 = g1
    w1 = w1
    w2 = w2
    NoGroup = NoGroup
    NoJob = NoJob
    Requests = {r1}
    Groups = {g1}
    Workers = {w1, w2}
    Standalone = {w1}
    AccountsOf <- TwoAccounts
    ChainsOf <- MixedChains
    GroupOf <- Ungrouped
    MaxFaults = 0
    StaleJobs = FALSE
    MaxDisconnects = 0
    MaxCrashes = 0
    MaxRedeliver = 0
    MaxExpired = 0
SPECIFICATION FairSpec
PROPERTY FinalStatusVisible
\* The system stops once its requests are answered and its messages consumed.
CHECK_DEADLOCK FALSE
