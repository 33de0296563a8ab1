\* A group with a worker and the snapshot job, over three days.
CONSTANTS
    None = None
    g1 = g1
    w1 = w1
    Groups = {g1}
    Accounts <- MCAccounts
    InitialGroups <- MCInitialGroups
    MaxFaults = 1
    Workers = {w1}
    Sweeper = Sweeper
    JobResults <- SomeResults
    LastTick = 2
    TicksPerDay = 1
    MaxSaves = 2
    Chains <- MCChains
    PairResults <- OnlySupplied
    RetentionDays = 1
    ActiveTicks = 2
    MaxSweeps = 1
SPECIFICATION Spec
INVARIANTS
    TypeOK
    DayAgrees
    HighWaterCarried
    PnlAddsUp
    SweepSavesAll
CHECK_DEADLOCK FALSE
