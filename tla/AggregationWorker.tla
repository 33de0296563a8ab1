-------------------------- MODULE AggregationWorker --------------------------
(***************************************************************************)
(* process_message and check_job_completion, run by a worker task for each *)
(* delivered message: by the standalone worker (worker/src/main.rs) and by *)
(* the copy inside the API process (api/src/worker/mod.rs), which consumes *)
(* the same queue but saves no portfolio snapshot.  One action per round   *)
(* trip to Redis; a member of Workers is one permit of the semaphore.      *)
(***************************************************************************)
EXTENDS Broker

CONSTANTS
    Workers,      \* task slots, of all worker processes
    Standalone,   \* the slots that belong to the standalone worker
    MaxCrashes,   \* bound: worker tasks lost with their process
    MaxRedeliver  \* bound: deliveries requeued under a running task

ASSUME WorkerAssumption ==
    /\ Standalone \subseteq Workers
    /\ MaxCrashes \in Nat
    /\ MaxRedeliver \in Nat

VARIABLES
    work,        \* where the task of each slot is
    task,        \* the message it processes
    attached,    \* whether the broker still holds the delivery for it
    seen,        \* what get_snapshot returned to check_job_completion
    cache,       \* units whose results are in the account cache
    daily,       \* per group: the job and results last saved as a snapshot
    countedOk,   \* history: the messages a job has counted as succeeded
    countedBad,  \* history: the messages a job has counted as failed
    crashes,     \* tasks lost so far, at most MaxCrashes
    redelivered  \* deliveries requeued so far, at most MaxRedeliver

counted == <<countedOk, countedBad>>
progressVars == <<seen, cache, daily, counted>>
workerVars == <<work, task, attached, progressVars, crashes, redelivered>>

WorkStates == {"idle", "lock", "fetch", "results", "operations", "countOk",
               "countFailed", "readJob", "readResults", "complete", "markFinal",
               "save", "ack", "nack"}

\* The part of a JobSnapshot that completion uses.
Snapshot == [succeeded : BOOLEAN, group : Groups \cup {NoGroup}, results : SUBSET Units]
NothingSeen == [succeeded |-> FALSE, group |-> NoGroup, results |-> {}]
NeverSaved == [job |-> NoJob, results |-> {}]

Step(w, state) == work' = [work EXCEPT ![w] = state]

WorkerTypeOK ==
    /\ work \in [Workers -> WorkStates]
    /\ task \in [Workers -> Messages \cup {NoJob}]
    /\ \A w \in Workers : work[w] # "idle" => task[w] \in Messages
    /\ attached \in [Workers -> BOOLEAN]
    /\ seen \in [Workers -> Snapshot]
    /\ cache \in SUBSET Units
    /\ daily \in [Groups -> [job : Requests \cup {NoJob}, results : SUBSET Units]]
    /\ countedOk \in [Requests -> SUBSET Messages]
    /\ countedBad \in [Requests -> SUBSET Messages]
    /\ crashes \in 0..MaxCrashes
    /\ redelivered \in 0..MaxRedeliver

WorkerInit ==
    /\ work = [w \in Workers |-> "idle"]
    /\ task = [w \in Workers |-> NoJob]
    /\ attached = [w \in Workers |-> FALSE]
    /\ seen = [w \in Workers |-> NothingSeen]
    /\ cache = {}
    /\ daily = [g \in Groups |-> NeverSaved]
    /\ countedOk = [r \in Requests |-> {}]
    /\ countedBad = [r \in Requests |-> {}]
    /\ crashes = 0
    /\ redelivered = 0

----------------------------------------------------------------------------
(* run_consumer hands a delivery to a free slot.                           *)

Deliver(w, m) ==
    /\ work[w] = "idle"
    /\ Take(m)
    /\ task' = [task EXCEPT ![w] = m]
    /\ attached' = [attached EXCEPT ![w] = TRUE]
    /\ Step(w, "lock")
    /\ UNCHANGED <<redisVars, progressVars, crashes, redelivered>>

(* process_message                                                         *)

\* A lock that is held means "duplicate delivery": the message is acked.
\* A lock that could not be taken or refused is ignored.
Lock(w) ==
    /\ work[w] = "lock"
    /\ \E answer \in {"yes", "no", "error"} :
         /\ AcquireLock(task[w].job, UnitOf(task[w]), answer)
         /\ Step(w, IF answer = "no" THEN "ack" ELSE "fetch")
    /\ UNCHANGED <<queue, task, attached, progressVars, crashes, redelivered>>

\* Faulty variant: a cache hit is counted without storing its results.
CacheHitUnstored(w) ==
    /\ work[w] = "fetch"
    /\ UnitOf(task[w]) \in cache
    /\ Step(w, "countOk")
    /\ UNCHANGED <<redisVars, queue, task, attached, progressVars, crashes, redelivered>>

\* A cache hit skips the chain; an entry that has expired or cannot be read
\* is a miss.
CacheHit(w) ==
    /\ work[w] = "fetch"
    /\ UnitOf(task[w]) \in cache
    /\ Step(w, "results")
    /\ UNCHANGED <<redisVars, queue, task, attached, progressVars, crashes, redelivered>>

\* Faulty variant: a unit whose attempts all failed is requeued, not counted.
ProcessRequeueing(w) ==
    /\ work[w] = "fetch"
    /\ \/ Step(w, "results") /\ cache' = cache \cup {UnitOf(task[w])}
       \/ Step(w, "nack") /\ UNCHANGED cache
    /\ UNCHANGED <<redisVars, queue, task, attached, seen, daily, counted,
                   crashes, redelivered>>

\* On a miss, up to MAX_PROCESS_RETRIES calls of processor.process, which
\* leave nothing behind when they fail; the results of the one that succeeds
\* are cached, or the write fails and is ignored.
Process(w) ==
    /\ work[w] = "fetch"
    /\ \/ /\ Step(w, "results")
          /\ \/ cache' = cache \cup {UnitOf(task[w])}
             \/ UNCHANGED cache
       \/ Step(w, "countFailed") /\ UNCHANGED cache
    /\ UNCHANGED <<redisVars, queue, task, attached, seen, daily, counted,
                   crashes, redelivered>>

\* Faulty variant: a failed write of the results is only logged.
StoreResultsIgnoringErrors(w) ==
    /\ work[w] = "results"
    /\ \E o \in WriteOutcomes : AddResults(task[w].job, UnitOf(task[w]), o)
    /\ Step(w, "operations")
    /\ UNCHANGED <<queue, task, attached, progressVars, crashes, redelivered>>

StoreResults(w) ==
    /\ work[w] = "results"
    /\ \E o \in WriteOutcomes :
         /\ AddResults(task[w].job, UnitOf(task[w]), o)
         /\ Step(w, IF o.ok THEN "operations" ELSE "nack")
    /\ UNCHANGED <<queue, task, attached, progressVars, crashes, redelivered>>

StoreOperations(w) ==
    /\ work[w] = "operations"
    /\ \E o \in WriteOutcomes :
         /\ AddOperations(task[w].job, UnitOf(task[w]), o)
         /\ Step(w, IF o.ok THEN "countOk" ELSE "nack")
    /\ UNCHANGED <<queue, task, attached, progressVars, crashes, redelivered>>

CountOk(w) ==
    /\ work[w] = "countOk"
    /\ \E o \in Outcomes :
         /\ IncrementCounters(task[w].job, 1, 0, o)
         /\ countedOk' = [countedOk EXCEPT ![task[w].job] =
                            Applied(o, @ \cup {task[w]}, @)]
         /\ Step(w, IF o.ok THEN "readJob" ELSE "nack")
    /\ UNCHANGED <<queue, task, attached, seen, cache, daily, countedBad,
                   crashes, redelivered>>

CountFailed(w) ==
    /\ work[w] = "countFailed"
    /\ \E o \in Outcomes :
         /\ IncrementCounters(task[w].job, 0, 1, o)
         /\ countedBad' = [countedBad EXCEPT ![task[w].job] =
                             Applied(o, @ \cup {task[w]}, @)]
         /\ Step(w, IF o.ok THEN "readJob" ELSE "nack")
    /\ UNCHANGED <<queue, task, attached, seen, cache, daily, countedOk,
                   crashes, redelivered>>

----------------------------------------------------------------------------
(* check_job_completion                                                    *)

\* Faulty variants: off by one in either direction.
AllProcessedEarly(job) == job.succeeded + job.failed + 1 >= job.expected

AllProcessedLate(job) == job.succeeded + job.failed > job.expected

\* The comparison of total_processed with expected_total.
AllProcessed(job) == job.succeeded + job.failed >= job.expected

\* Faulty variant: a job that cannot be read is taken for a complete one.
CheckProgressOptimistic(w) ==
    /\ work[w] = "readJob"
    /\ LET job == meta[task[w].job] IN
         \/ /\ Spend(0)
            /\ Step(w, IF job.exists /\ AllProcessed(job) THEN "readResults" ELSE "ack")
         \/ /\ Spend(MAX_RETRIES)
            /\ Step(w, "readResults")
    /\ UNCHANGED <<meta, active, wgIndex, locks, results, operations, queue, task,
                   attached, progressVars, crashes, redelivered>>

\* get_snapshot reads the job first and its results afterwards.
CheckProgress(w) ==
    /\ work[w] = "readJob"
    /\ LET job == meta[task[w].job] IN
         \/ /\ Spend(0)
            /\ seen' = [seen EXCEPT ![w] =
                          [succeeded |-> job.succeeded > 0, group |-> job.group,
                           results |-> {}]]
            /\ Step(w, IF job.exists /\ AllProcessed(job) THEN "readResults" ELSE "ack")
         \/ /\ Spend(MAX_RETRIES)
            /\ Step(w, "nack")
            /\ UNCHANGED seen
    /\ UNCHANGED <<meta, active, wgIndex, locks, results, operations, queue, task,
                   attached, cache, daily, counted, crashes, redelivered>>

\* Faulty variant: completion goes on without the job's results.
ReadResultsNever(w) ==
    /\ work[w] = "readResults"
    /\ Step(w, "complete")
    /\ UNCHANGED <<redisVars, queue, task, attached, progressVars, crashes, redelivered>>

ReadResults(w) ==
    /\ work[w] = "readResults"
    /\ \/ /\ Spend(0)
          /\ seen' = [seen EXCEPT ![w].results = results[task[w].job]]
          /\ Step(w, "complete")
       \/ /\ Spend(MAX_RETRIES)
          /\ Step(w, "nack")
          /\ UNCHANGED seen
    /\ UNCHANGED <<meta, active, wgIndex, locks, results, operations, queue, task,
                   attached, cache, daily, counted, crashes, redelivered>>

\* Faulty variant: a job that has been processed counts as completed.
FinalStatusCompleted(w) == IF work[w] = "complete" THEN "completed" ELSE "failed"

FinalStatus(w) == IF seen[w].succeeded THEN "completed" ELSE "failed"

\* Faulty variant: a failed status update does not stop the completion.
CompleteIgnoringErrors(w) ==
    /\ work[w] = "complete"
    /\ \E o \in WriteOutcomes : UpdateJobStatus(task[w].job, FinalStatus(w), o)
    /\ Step(w, "markFinal")
    /\ UNCHANGED <<queue, task, attached, progressVars, crashes, redelivered>>

Complete(w) ==
    /\ work[w] = "complete"
    /\ \E o \in WriteOutcomes :
         /\ UpdateJobStatus(task[w].job, FinalStatus(w), o)
         /\ Step(w, IF o.ok THEN "markFinal" ELSE "nack")
    /\ UNCHANGED <<queue, task, attached, progressVars, crashes, redelivered>>

\* Only the standalone worker goes on to save the portfolio of the group.
SavesSnapshot(w) ==
    /\ w \in Standalone
    /\ seen[w].group # NoGroup
    /\ seen[w].succeeded

Finalise(w) ==
    /\ work[w] = "markFinal"
    /\ \E o \in WriteOutcomes :
         /\ MarkFinal(task[w].job, o)
         /\ Step(w, IF ~o.ok THEN "nack" ELSE IF SavesSnapshot(w) THEN "save" ELSE "ack")
    /\ UNCHANGED <<queue, task, attached, progressVars, crashes, redelivered>>

\* save_daily_snapshot upserts today's snapshot of the group; a failure is
\* logged and the message is acked all the same.
SaveSnapshot(w) ==
    /\ work[w] = "save"
    /\ \/ daily' = [daily EXCEPT ![seen[w].group] =
                      [job |-> task[w].job, results |-> seen[w].results]]
       \/ UNCHANGED daily
    /\ Step(w, "ack")
    /\ UNCHANGED <<redisVars, queue, task, attached, seen, cache, counted,
                   crashes, redelivered>>

----------------------------------------------------------------------------
(* The acknowledgement.  On a channel that is gone both calls fail and only *)
(* a log line remains.                                                      *)

Free(w) ==
    /\ Step(w, "idle")
    /\ task' = [task EXCEPT ![w] = NoJob]
    /\ attached' = [attached EXCEPT ![w] = FALSE]
    /\ seen' = [seen EXCEPT ![w] = NothingSeen]
    /\ UNCHANGED <<cache, daily, counted>>

Ack(w) ==
    /\ work[w] = "ack"
    /\ Free(w)
    /\ UNCHANGED <<redisVars, queue, crashes, redelivered>>

Nack(w) ==
    /\ work[w] = "nack"
    /\ IF attached[w] THEN Requeue(task[w]) ELSE UNCHANGED queue
    /\ Free(w)
    /\ UNCHANGED <<redisVars, crashes, redelivered>>

TaskStep(w) ==
    \/ Lock(w) \/ CacheHit(w) \/ Process(w)
    \/ StoreResults(w) \/ StoreOperations(w)
    \/ CountOk(w) \/ CountFailed(w)
    \/ CheckProgress(w) \/ ReadResults(w) \/ Complete(w) \/ Finalise(w)
    \/ SaveSnapshot(w) \/ Ack(w) \/ Nack(w)

WorkerStep(w) == TaskStep(w) \/ \E m \in Messages : Deliver(w, m)

----------------------------------------------------------------------------
(* The environment of a worker.                                            *)

\* The worker process stops: the task is gone, the broker requeues its
\* unacknowledged delivery.  Nobody releases its lock.
Crash(w) ==
    /\ work[w] # "idle"
    /\ crashes < MaxCrashes
    /\ crashes' = crashes + 1
    /\ IF attached[w] THEN Requeue(task[w]) ELSE UNCHANGED queue
    /\ Free(w)
    /\ UNCHANGED <<redisVars, redelivered>>

\* The channel closes and the broker requeues the delivery, while the task
\* that was spawned for it goes on.
LoseChannel(w) ==
    /\ work[w] # "idle" /\ attached[w]
    /\ redelivered < MaxRedeliver
    /\ redelivered' = redelivered + 1
    /\ attached' = [attached EXCEPT ![w] = FALSE]
    /\ Requeue(task[w])
    /\ UNCHANGED <<redisVars, work, task, progressVars, crashes>>

=============================================================================
