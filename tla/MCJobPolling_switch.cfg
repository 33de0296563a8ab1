\* The same, asking that every job the hook takes up is polled to its end.
CONSTANTS
    wallet = wallet
    group = group
    a1 = a1
    a2 = a2
    b1 = b1
    NoOne = NoOne
    NoJob = NoJob
    Identifiers = {wallet, group}
    Jobs = {a1, a2, b1}
    JobsOf <- TwoJobsAndOne
    maxAttempts = 3
    Hasty = TRUE
    MaxEnsures = 2
SPECIFICATION FairSpec
PROPERTY JobsPolled
\* The hook rests when nothing is polled and nothing selected.
CHECK_DEADLOCK FALSE
