\* One job of two messages under a redelivery and a dropped handler, with the
\* fairness of the broker and the tasks.
CONSTANTS
    r1 = r1
    r2 = r2
    r3 = r3
    g1 = g1
    w1 = w1
    w2 = w2
    NoGroup = NoGroup
    NoJob = NoJob
    Requests = {r1}
    Groups = {g1}
    Workers = {w1, w2}
    Standalone = {w1}
    AccountsOf <- TwoAccounts
    ChainsOf <- MixedChains
    GroupOf <- InGroup
    MaxFaults = 0
    StaleJobs = FALSE
    MaxDisconnects = 1
    MaxCrashes = 0
    MaxRedeliver = 1
    MaxExpired = 0
SPECIFICATION FairSpec
INVARIANTS
    TypeOK
    CountersExact
    CompletionEarned
    VerdictMatchesCounters
    CompletionSeesAllResults
    DailySnapshotComplete
    LockHolderAlive
PROPERTY FinalIsFrozen
PROPERTY LifecycleSpec
PROPERTY RequestsAnswered
PROPERTY JobsFinish
\* The system stops once its requests are answered and its messages consumed.
CHECK_DEADLOCK FALSE
