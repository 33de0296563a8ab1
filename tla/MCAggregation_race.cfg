\* Three requests for the same account: the second, without a group, searches
\* the active jobs and may drop or expire them while they are worked on, the
\* others look a job up by their group.  One attempt fails, and the keys of a
\* job expire with work still queued.
CONSTANTS
    r1 = r1
    r2 = r2
    r3 = r3
    g1 = g1
    w1 = w1
    w2 = w2
    NoGroup = NoGroup
    NoJob = NoJob
    Requests = {r1, r2, r3}
    Groups = {g1}
    Workers = {w1}
    Standalone = {w1}
    AccountsOf <- OneAccount
    ChainsOf <- TwoServed
    GroupOf <- OneOutside
    MaxFaults = 1
    StaleJobs = TRUE
    MaxDisconnects = 0
    MaxCrashes = 0
    MaxRedeliver = 0
    MaxExpired = 1
SPECIFICATION Spec
INVARIANTS
    CountedUnitsStored
    FinalNotListed
PROPERTY FinalIsFrozen
\* The system stops once its requests are answered and its messages consumed.
CHECK_DEADLOCK FALSE
