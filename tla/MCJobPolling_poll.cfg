\* One or two calls of ensure by the page: a selection and a change of it, or a
\* retry.
CONSTANTS
    wallet = wallet
    group = group
    a1 = a1
    a2 = a2
    b1 = b1
    NoOne = NoOne
    NoJob = NoJob
    Identifiers = {wallet, group}
    Jobs = {a1, a2, b1}
    JobsOf <- TwoJobsAndOne
    maxAttempts = 3
    Hasty = TRUE
    MaxEnsures = 2
SPECIFICATION FairSpec
INVARIANTS
    TypeOK
    OwnerMatchesJob
PROPERTY PollingStops
PROPERTY CompletedIsQuiet
PROPERTY FirstJobPolled
\* The hook rests when nothing is polled and nothing selected.
CHECK_DEADLOCK FALSE
