\* One job of a wallet group while Redis and the broker lose attempts, with a
\* crash.
CONSTANTS
    r1 = r1
    r2 = r2
    r3 = r3
    g1 = g1
    w1 = w1
    w2 = w2
    NoGroup = NoGroup
    NoJob = NoJob
    Requests = {r1}
    Groups = {g1}
    Workers = {w1, w2}
    Standalone = {w1}
    AccountsOf <- TwoAccounts
    ChainsOf <- MixedChains
    GroupOf <- InGroup
    MaxFaults = 3
    StaleJobs = FALSE
    MaxDisconnects = 0
    MaxCrashes = 1
    MaxRedeliver = 0
    MaxExpired = 0
SPECIFICATION Spec
INVARIANTS
    CountersExact
    CompletionEarned
    CountedUnitsStored
    CompletionCounted
    FinalNotListed
\* The system stops once its requests are answered and its messages consumed.
CHECK_DEADLOCK FALSE
