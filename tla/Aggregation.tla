----------------------------- MODULE Aggregation -----------------------------
(***************************************************************************)
(* The aggregation pipeline: API handlers that start jobs, the broker, the *)
(* worker tasks and the job state in Redis, composed.                      *)
(***************************************************************************)
EXTENDS AggregationStart, AggregationWorker

CONSTANT MaxExpired  \* bound: jobs whose Redis keys outlive JOB_TTL_SECS

ASSUME AggregationAssumption == MaxExpired \in Nat

VARIABLE expired     \* history: the jobs whose keys have expired

vars == <<redisVars, queue, startVars, workerVars, expired>>

TypeOK ==
    /\ RedisTypeOK
    /\ BrokerTypeOK
    /\ StartTypeOK
    /\ WorkerTypeOK
    /\ expired \in SUBSET Requests

Init ==
    /\ RedisInit
    /\ queue = [m \in Messages |-> 0]
    /\ StartInit
    /\ WorkerInit
    /\ expired = {}

\* An hour without a write to a job: its hash, results, operations, locks and
\* group index, all written earlier with the same TTL, are gone.  The active
\* index has no TTL.
Expire(j) ==
    /\ meta[j].exists
    /\ api[j] \in {"done", "error"}
    /\ \A w \in Workers : work[w] # "idle" => task[w].job # j
    /\ Cardinality(expired) < MaxExpired
    /\ expired' = expired \cup {j}
    /\ meta' = [meta EXCEPT ![j] = EmptyMeta]
    /\ locks' = [locks EXCEPT ![j] = {}]
    /\ results' = [results EXCEPT ![j] = {}]
    /\ operations' = [operations EXCEPT ![j] = {}]
    /\ wgIndex' = [g \in Groups |-> IF wgIndex[g] = j THEN NoJob ELSE wgIndex[g]]
    /\ UNCHANGED <<active, faults, queue, startVars, workerVars>>

Handler(r) == HandlerStep(r) /\ UNCHANGED <<workerVars, expired>>

Task(w) == WorkerStep(w) /\ UNCHANGED <<startVars, expired>>

Environment ==
    \/ \E r \in Requests : Disconnect(r) /\ UNCHANGED <<workerVars, expired>>
    \/ \E w \in Workers : (Crash(w) \/ LoseChannel(w)) /\ UNCHANGED <<startVars, expired>>
    \/ \E j \in Requests : Expire(j)

Next ==
    \/ \E r \in Requests : Handler(r)
    \/ \E w \in Workers : Task(w)
    \/ Environment

Spec == Init /\ [][Next]_vars

\* Handlers and spawned tasks are driven by the Tokio runtime until they
\* return, and a consumer with a free permit takes what the broker delivers.
\* Nothing is assumed of clients, crashes, channels or expiry.
Fairness ==
    /\ \A r \in Requests : WF_vars(Handler(r))
    /\ \A w \in Workers : WF_vars(Task(w))

FairSpec == Spec /\ Fairness

----------------------------------------------------------------------------
(* Safety, whatever fails.                                                 *)

Counted(j) == countedOk[j] \cup countedBad[j]

\* What a job counts as succeeded can be read: the results of a unit are
\* stored before the unit is counted, and no failure, crash or redelivery in
\* between makes the counter run ahead of the results.
CountedUnitsStored ==
    \A j \in Requests \ expired : {UnitOf(m) : m \in countedOk[j]} \subseteq results[j]

\* A job is only reported completed or failed, or marked final, once its
\* counters have reached the expected total, and it never falls below again:
\* a retried create_job cannot reset what workers counted.
CompletionCounted ==
    \A j \in Requests \ expired :
        meta[j].final \/ meta[j].status \in {"completed", "failed"}
            => AllProcessed(meta[j])

\* A final job is not in the active index, although handlers keep setting
\* its status: no later request can be answered with it.
FinalNotListed ==
    \A j \in Requests : meta[j].final => j \notin active

----------------------------------------------------------------------------
(* Safety until the first failed Redis or broker attempt, and until the    *)
(* keys of the job expire.  Workers may have crashed, deliveries may have  *)
(* been requeued and handlers dropped.                                     *)

Undisturbed(j) == faults = 0 /\ j \notin expired

\* The counters of an undisturbed job are exactly the messages that were
\* counted, each once, however often they were delivered: the processing
\* lock admits one task per unit.
CountersExact ==
    \A j \in Requests : Undisturbed(j) =>
        /\ meta[j].succeeded = Cardinality(countedOk[j])
        /\ meta[j].failed = Cardinality(countedBad[j])
        /\ countedOk[j] \cap countedBad[j] = {}
        /\ Counted(j) \subseteq MessagesOf(j)

\* A job is reported completed or failed, or marked final, only when every
\* message of it has been counted.
CompletionEarned ==
    \A j \in Requests :
        Undisturbed(j) /\ (meta[j].final \/ meta[j].status \in {"completed", "failed"})
            => Counted(j) = MessagesOf(j)

\* The terminal status agrees with the counters: "completed" iff something
\* succeeded, although several tasks may write it.
VerdictMatchesCounters ==
    \A j \in Requests : Undisturbed(j) =>
        /\ (meta[j].status = "completed" => meta[j].succeeded > 0)
        /\ (meta[j].status = "failed" => meta[j].succeeded = 0)

\* Whoever reads a job as complete and then its results (check_job_completion
\* and, by the same get_snapshot, the API) sees the results of every unit that
\* succeeded: get_snapshot reads them after the counters.
CompletionSeesAllResults ==
    \A w \in Workers :
        work[w] \in {"complete", "markFinal", "save"} /\ Undisturbed(task[w].job)
            => {UnitOf(m) : m \in countedOk[task[w].job]} \subseteq seen[w].results

\* The portfolio snapshot saved for a group is never a part of the job it was
\* made from.
DailySnapshotComplete ==
    \A g \in Groups :
        daily[g].job # NoJob /\ Undisturbed(daily[g].job)
            => {UnitOf(m) : m \in countedOk[daily[g].job]} \subseteq daily[g].results

\* A task that holds the processing lock of its unit and has yet to count it.
Holding == {"fetch", "results", "operations", "countOk", "countFailed"}

AccountedFor(j, u) ==
    \/ \E m \in Counted(j) : UnitOf(m) = u
    \/ \E w \in Workers : work[w] \in Holding /\ task[w].job = j /\ UnitOf(task[w]) = u

\* No unit is lost: as long as no process has died, the holder of a unit's
\* processing lock has counted the unit or is still on its way to do so, so
\* a message that is skipped as a duplicate is one.
LockHolderAlive ==
    faults = 0 /\ crashes = 0 =>
        \A j \in Requests : \A u \in locks[j] : AccountedFor(j, u)

\* The same of the moment a message is skipped, in a system whose processes do
\* crash: what the log line "Skipping duplicate delivery ... (lock already
\* held)" says of every message that finds its lock held.
SkippedIsDuplicate ==
    [][\A w \in Workers :
         work[w] = "lock" /\ work'[w] = "ack" =>
            AccountedFor(task[w].job, UnitOf(task[w]))]_vars

\* A job that was marked final stays final and its counters stand still,
\* although handlers and tasks keep writing to its hash.
FinalIsFrozen ==
    [][\A j \in Requests : Undisturbed(j)' /\ meta[j].final =>
         /\ meta'[j].final
         /\ meta'[j].succeeded = meta[j].succeeded
         /\ meta'[j].failed = meta[j].failed]_vars

----------------------------------------------------------------------------
(* The promise of a job, and how the pipeline's state shows it.            *)

Verdict(j) ==
    IF ~meta[j].final THEN "open"
    ELSE IF meta[j].succeeded > 0 THEN "completed" ELSE "failed"

Lifecycle == INSTANCE JobLifecycle WITH
    Jobs      <- Requests,
    Work      <- [j \in Requests |-> MessagesOf(j)],
    waiting   <- [j \in Requests |-> MessagesOf(j) \ Counted(j)],
    succeeded <- countedOk,
    verdict   <- [j \in Requests |-> Verdict(j)]

\* While Redis and the broker answer and no key expires, the pipeline does
\* what JobLifecycle says, crashes, redeliveries and races included.
LifecycleSpec == Lifecycle!Spec

----------------------------------------------------------------------------
(* Liveness, under FairSpec.                                               *)

\* Every request gets its answer.
RequestsAnswered ==
    \A r \in Requests : <>(api[r] \in {"done", "error"})

\* A job whose handler answered with it becomes final.
JobsFinish ==
    \A r \in Requests : answer[r] = r ~> meta[r].final

\* The status a client polls for: a final job stops being "processing".
FinalStatusVisible ==
    \A r \in Requests : meta[r].final ~> meta[r].status \in Terminal

=============================================================================
