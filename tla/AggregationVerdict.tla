-------------------------- MODULE AggregationVerdict --------------------------
(***************************************************************************)
(* While Redis and the broker answer, a job whose counters have reached    *)
(* its total stands still: what several tasks conclude from it agrees.     *)
(* Nor is a unit lost while no process dies either, and as long as no key  *)
(* expires the pipeline keeps the promise of JobLifecycle.                 *)
(***************************************************************************)
EXTENDS AggregationCounting

----------------------------------------------------------------------------
(* A job that is done stands still.                                        *)

Frozen(j) ==
    /\ meta'[j].exists /\ meta'[j].expected = meta[j].expected
    /\ meta'[j].succeeded = meta[j].succeeded /\ meta'[j].failed = meta[j].failed
    /\ countedOk'[j] = countedOk[j] /\ countedBad'[j] = countedBad[j]

\* Whoever holds a lock has a message that nobody has counted, and of a job
\* that is done there is none left.
LEMMA DoneHasNoHolder ==
    ASSUME Inv, NEW w \in Workers, work[w] \in Holding, NEW j \in Requests,
           task[w].job = j, Undisturbed(j)
    PROVE  ~Done(j)
  <1>1. SUFFICES ASSUME Done(j) PROVE FALSE
    OBVIOUS
  <1>2. Counted(j) = MessagesOf(j)
    BY <1>1, ProcessedMeansAll DEF Done
  <1>3. task[w] \in MessagesOf(j)
    BY MessageJob DEF Inv, TypeOK, WorkerTypeOK, Holding
  <1>4. \A m \in Counted(j) : UnitOf(m) # UnitOf(task[w])
    BY DEF Inv, LockInv, HoldersExclusive, Holds
  <1>5. QED
    BY <1>2, <1>3, <1>4

LEMMA TaskFreezes ==
    ASSUME Inv, NEW w \in Workers, TaskStep(w), faults' = 0,
           NEW j \in Requests, Undisturbed(j), Done(j)
    PROVE  Frozen(j)
  <1>1. TypeOK /\ meta[j] \in Meta
    BY DEF Inv, TypeOK, RedisTypeOK
  <1>2. TouchesOnly(w, task[w].job)
    BY <1>1, TaskTouches
  <1>3. CASE task[w].job # j
    BY <1>2, <1>3 DEF TouchesOnly, Frozen, Done
  <1>4. CASE task[w].job = j
    <2>1. meta'[j].exists /\ meta'[j].expected = meta[j].expected
      BY <1>2, <1>4 DEF TouchesOnly, Grown, Done
    <2>2. Takes(w, j) \/ Counts(w, j) \/ GoesOn(w, j)
      BY <1>1, <1>4, CalmTask
    <2>3. ~Counts(w, j)
      BY <1>4, DoneHasNoHolder DEF Counts
    <2>4. SameCounts(j)
      BY <2>2, <2>3 DEF Takes, GoesOn
    <2>5. QED
      BY <2>1, <2>4 DEF SameCounts, Frozen
  <1>5. QED
    BY <1>3, <1>4

LEMMA HandlerFreezes ==
    ASSUME Inv, NEW r \in Requests, Handler(r), NEW j \in Requests, Undisturbed(j), Done(j)
    PROVE  Frozen(j)
  <1>1. HandlerTouches(r) /\ UNCHANGED <<countedOk, countedBad>> /\ meta[j] \in Meta
    BY HandlerEffects DEF Handler, Inv, workerVars, progressVars, counted, TypeOK, RedisTypeOK
  <1>2. ~Fresh(j)
    BY DEF Fresh, Created, Undisturbed, Done
  <1>3. CASE Restated(j)
    BY <1>1, <1>3, WithStatusType DEF Restated, Statuses, Frozen
  <1>4. CASE meta'[j] = meta[j]
    BY <1>1, <1>4 DEF Frozen, Done
  <1>5. QED
    BY <1>1, <1>2, <1>3, <1>4 DEF HandlerTouches

\* Deliveries, requeues, crashes and dropped handlers change nothing of a job.
LEMMA EnvironmentIdle ==
    ASSUME \/ Environment
           \/ UNCHANGED vars
           \/ \E w \in Workers, m \in Messages : Deliver(w, m) /\ UNCHANGED <<startVars, expired>>,
           NEW j \in Requests, j \notin expired'
    PROVE  meta'[j] = meta[j] /\ countedOk'[j] = countedOk[j] /\ countedBad'[j] = countedBad[j]
  <1>1. CASE UNCHANGED vars
    BY <1>1 DEF vars, redisVars, workerVars, progressVars, counted
  <1>2. ASSUME NEW w \in Workers, NEW m \in Messages, Deliver(w, m)
        PROVE  UNCHANGED <<meta, countedOk, countedBad>>
    BY <1>2 DEF Deliver, redisVars, progressVars, counted
  <1>3. ASSUME NEW r \in Requests, Disconnect(r), UNCHANGED <<workerVars, expired>>
        PROVE  UNCHANGED <<meta, countedOk, countedBad>>
    BY <1>3 DEF Disconnect, redisVars, workerVars, progressVars, counted
  <1>4. ASSUME NEW w \in Workers, Crash(w) \/ LoseChannel(w)
        PROVE  UNCHANGED <<meta, countedOk, countedBad>>
    BY <1>4 DEF Crash, LoseChannel, Free, redisVars, progressVars, counted
  <1>5. ASSUME NEW k \in Requests, Expire(k)
        PROVE  meta'[j] = meta[j] /\ countedOk'[j] = countedOk[j] /\ countedBad'[j] = countedBad[j]
    BY <1>5 DEF Expire, workerVars, progressVars, counted
  <1>6. QED
    BY <1>1, <1>2, <1>3, <1>4, <1>5 DEF Environment

LEMMA DoneFreezes ==
    ASSUME Inv, [Next]_vars, NEW j \in Requests, Undisturbed(j)', Done(j)
    PROVE  Frozen(j) /\ Done(j)'
  <1>1. Undisturbed(j) /\ meta[j] \in Meta
    BY UndisturbedBefore DEF Inv, TypeOK, RedisTypeOK
  <1>2. faults' = 0 /\ j \notin expired'
    BY DEF Undisturbed
  <1>3. ASSUME NEW r \in Requests, Handler(r) PROVE Frozen(j)
    BY <1>1, <1>3, HandlerFreezes
  <1>4. ASSUME NEW w \in Workers, Task(w) PROVE Frozen(j)
    <2>1. CASE TaskStep(w)
      BY <1>1, <1>2, <2>1, TaskFreezes
    <2>2. ASSUME NEW m \in Messages, Deliver(w, m) PROVE Frozen(j)
      BY <1>2, <1>4, <2>2, EnvironmentIdle DEF Task, Frozen, Done
    <2>3. QED
      BY <1>4, <2>1, <2>2 DEF Task, WorkerStep
  <1>5. CASE Environment \/ UNCHANGED vars
    BY <1>2, <1>5, EnvironmentIdle DEF Frozen, Done
  <1>6. Frozen(j)
    BY <1>3, <1>4, <1>5 DEF Next
  <1>7. Done(j)'
    BY <1>6 DEF Frozen, Done, AllProcessed
  <1>8. QED
    BY <1>6, <1>7

\* A closed job is done.
LEMMA ClosedDone ==
    ASSUME Inv, NEW j \in Requests, Undisturbed(j),
           meta[j].final \/ meta[j].status \in {"completed", "failed"}
    PROVE  Done(j)
  <1>1. AllProcessed(meta[j])
    BY DEF Inv, Progress, CompletionCounted, Undisturbed
  <1>2. QED
    BY <1>1, ClosedExists DEF Done

\* A task that closes a job has found it done.
LEMMA ClosingDone ==
    ASSUME Inv, NEW w \in Workers, work[w] \in Closing, Undisturbed(task[w].job)
    PROVE  task[w].job \in Requests /\ Done(task[w].job)
  <1>1. task[w].job \in Requests /\ task[w].job \in Created
    BY MessageJob DEF Inv, TypeOK, WorkerTypeOK, Closing, Provenance, NamedJobsCreated
  <1>2. AllProcessed(meta[task[w].job])
    BY DEF Inv, Progress, ClosingProcessed, Undisturbed
  <1>3. QED
    BY <1>1, <1>2 DEF Created, Undisturbed, Done

\* The final flag is set and never taken back.
LEMMA TaskKeepsFinal ==
    ASSUME TypeOK, NEW w \in Workers, TaskStep(w), meta[task[w].job].final
    PROVE  meta'[task[w].job].final
  <1> DEFINE j == task[w].job
  <1>0. j \in Requests /\ meta[j] \in Meta /\ meta[j].final
    BY TaskTouches DEF TypeOK, RedisTypeOK
  <1>1. CASE UNCHANGED meta
    BY <1>0, <1>1
  <1>2. CASE CountOk(w)
    <2>1. \E o \in Outcomes : IncrementCounters(j, 1, 0, o)
      BY <1>2 DEF CountOk
    <2>2. QED
      BY <1>0, <2>1, IncrementWrites
  <1>3. CASE CountFailed(w)
    <2>1. \E o \in Outcomes : IncrementCounters(j, 0, 1, o)
      BY <1>3 DEF CountFailed
    <2>2. QED
      BY <1>0, <2>1, IncrementWrites
  <1>4. CASE Complete(w)
    <2>1. PICK o \in WriteOutcomes : UpdateJobStatus(j, FinalStatus(w), o)
      BY <1>4 DEF Complete
    <2>2. QED
      BY <1>0, <2>1, WithStatusType DEF UpdateJobStatus, Applied, FinalStatus, Statuses,
         TypeOK, RedisTypeOK
  <1>5. CASE Finalise(w)
    <2>1. PICK o \in WriteOutcomes : MarkFinal(j, o)
      BY <1>5 DEF Finalise
    <2>2. QED
      BY <1>0, <2>1, AsFinalType DEF MarkFinal, Applied, TypeOK, RedisTypeOK
  <1>6. CASE Lock(w) \/ StoreResults(w) \/ StoreOperations(w)
    BY <1>1, <1>6 DEF Lock, StoreResults, StoreOperations, AcquireLock, AddResults, AddOperations
  <1>7. CASE \/ CacheHit(w) \/ Process(w) \/ CheckProgress(w) \/ ReadResults(w)
             \/ SaveSnapshot(w) \/ Ack(w) \/ Nack(w)
    BY <1>1, <1>7 DEF CacheHit, Process, CheckProgress, ReadResults, SaveSnapshot, Ack, Nack,
       redisVars
  <1>8. QED
    BY <1>2, <1>3, <1>4, <1>5, <1>6, <1>7 DEF TaskStep

LEMMA FinalStays ==
    ASSUME Inv, [Next]_vars, NEW j \in Requests, Undisturbed(j)', meta[j].final
    PROVE  meta'[j].final
  <1>1. TypeOK /\ meta[j] \in Meta /\ j \in Created
    BY DEF Inv, TypeOK, RedisTypeOK, Provenance, CreatedJobs, Untouched, EmptyMeta
  <1>2. ASSUME NEW r \in Requests, Handler(r) PROVE meta'[j].final
    <2>1. meta'[j] = meta[j] \/ Restated(j)
      BY <1>1, <1>2, HandlerEffects DEF Handler, Inv, HandlerTouches, Fresh
    <2>2. QED
      BY <1>1, <2>1, WithStatusType DEF Restated, Statuses
  <1>3. ASSUME NEW w \in Workers, TaskStep(w) PROVE meta'[j].final
    BY <1>1, <1>3, TaskTouches, TaskKeepsFinal DEF TouchesOnly
  <1>4. CASE Environment \/ UNCHANGED vars
    BY <1>4, EnvironmentIdle DEF Undisturbed
  <1>5. ASSUME NEW w \in Workers, NEW m \in Messages, Deliver(w, m) PROVE meta'[j].final
    BY <1>5 DEF Deliver, redisVars
  <1>6. QED
    BY <1>2, <1>3, <1>4, <1>5 DEF Next, Task, WorkerStep

\* A job that was marked final stays final, and its counters stand still,
\* until something fails: the tasks that are still at work on it have nothing
\* left to count, and no handler resets it.
THEOREM FinalIsFrozenAlways == Spec => FinalIsFrozen
  <1>1. ASSUME Inv, [Next]_vars
        PROVE  \A j \in Requests : Undisturbed(j)' /\ meta[j].final =>
                   /\ meta'[j].final
                   /\ meta'[j].succeeded = meta[j].succeeded
                   /\ meta'[j].failed = meta[j].failed
    BY <1>1, UndisturbedBefore, ClosedDone, DoneFreezes, FinalStays DEF Inv, Frozen
  <1>2. QED
    BY <1>1, InvAlways, PTL DEF Spec, FinalIsFrozen

----------------------------------------------------------------------------
(* VerdictInv is invariant.                                                *)

\* What a task that closes its job has seen is still true.
Knows(w) ==
    /\ work[w] \in {"readResults", "complete"} /\ Undisturbed(task[w].job)
         => (seen[w].succeeded <=> meta[task[w].job].succeeded > 0)
    /\ work[w] \in {"complete", "markFinal", "save"} /\ Undisturbed(task[w].job)
         => {UnitOf(m) : m \in countedOk[task[w].job]} \subseteq seen[w].results

LEMMA KnowledgeParts ==
    SeenVerdict /\ CompletionSeesAllResults <=> \A w \in Workers : Knows(w)
  BY DEF SeenVerdict, CompletionSeesAllResults, Knows

Stays(w) == work'[w] = work[w] /\ task'[w] = task[w] /\ seen'[w] = seen[w]

\* A step of anybody else leaves a task where it is, or frees its slot.
LEMMA WhoMoves ==
    ASSUME TypeOK, [Next]_vars, NEW w \in Workers
    PROVE  Stays(w) \/ work'[w] \in {"idle", "lock"} \/ TaskStep(w)
  <1>1. CASE \/ \E r \in Requests : Handler(r)
             \/ UNCHANGED vars
             \/ \E j \in Requests : Expire(j)
             \/ \E r \in Requests : Disconnect(r) /\ UNCHANGED <<workerVars, expired>>
    BY <1>1 DEF Handler, vars, Expire, workerVars, progressVars, Stays
  <1>2. ASSUME NEW v \in Workers, TaskStep(v), v # w PROVE Stays(w)
    BY <1>2, TaskTouches DEF TouchesOnly, Stays
  <1>3. ASSUME NEW v \in Workers, NEW m \in Messages, Deliver(v, m)
        PROVE  Stays(w) \/ work'[w] \in {"idle", "lock"}
    BY <1>3 DEF Deliver, Step, progressVars, Stays, TypeOK, WorkerTypeOK
  <1>4. ASSUME NEW v \in Workers, Crash(v) \/ LoseChannel(v)
        PROVE  Stays(w) \/ work'[w] \in {"idle", "lock"}
    BY <1>4 DEF Crash, LoseChannel, Free, Step, progressVars, Stays, TypeOK, WorkerTypeOK
  <1>5. QED
    BY <1>1, <1>2, <1>3, <1>4 DEF Next, Task, WorkerStep, Environment

\* The steps that gather what completion works with, and use it.
Gathers(w) ==
    /\ work'[w] = "readResults" =>
         meta' = meta /\ (seen'[w].succeeded <=> meta[task[w].job].succeeded > 0)
    /\ work'[w] = "complete" =>
         /\ work[w] = "readResults" /\ seen'[w].succeeded = seen[w].succeeded
         /\ seen'[w].results = results[task[w].job]
    /\ work'[w] \in {"markFinal", "save"} =>
         work[w] \in {"complete", "markFinal"} /\ seen'[w] = seen[w]
    /\ work'[w] # "idle" => task'[w] = task[w]

LEMMA TaskGathers ==
    ASSUME TypeOK, NEW w \in Workers, TaskStep(w)
    PROVE  Gathers(w)
  <1> USE DEF Gathers, Step
  <1>0. /\ work \in [Workers -> WorkStates] /\ seen \in [Workers -> Snapshot]
        /\ task \in [Workers -> Messages \cup {NoJob}]
    BY DEF TypeOK, WorkerTypeOK
  <1>1. CASE Lock(w) \/ CacheHit(w) \/ Process(w) \/ StoreResults(w) \/ StoreOperations(w)
    BY <1>0, <1>1 DEF Lock, CacheHit, Process, StoreResults, StoreOperations
  <1>2. CASE CountOk(w) \/ CountFailed(w)
    BY <1>0, <1>2 DEF CountOk, CountFailed
  <1>3. CASE CheckProgress(w)
    <2>1. CASE /\ seen' = [seen EXCEPT ![w] =
                             [succeeded |-> meta[task[w].job].succeeded > 0,
                              group |-> meta[task[w].job].group, results |-> {}]]
               /\ work'[w] \in {"readResults", "ack"}
      <3>1. seen'[w].succeeded = (meta[task[w].job].succeeded > 0)
        BY <1>0, <2>1
      <3>2. meta' = meta /\ task' = task
        BY <1>3 DEF CheckProgress
      <3>3. QED
        BY <2>1, <3>1, <3>2
    <2>2. CASE work'[w] = "nack"
      BY <1>3, <2>2 DEF CheckProgress
    <2>3. QED
      BY <1>0, <1>3, <2>1, <2>2 DEF CheckProgress
  <1>4. CASE ReadResults(w)
    BY <1>0, <1>4 DEF ReadResults, Snapshot
  <1>5. CASE Complete(w) \/ Finalise(w) \/ SaveSnapshot(w)
    BY <1>0, <1>5 DEF Complete, Finalise, SaveSnapshot, progressVars
  <1>6. CASE Ack(w) \/ Nack(w)
    BY <1>0, <1>6 DEF Ack, Nack, Free
  <1>7. QED
    BY <1>1, <1>2, <1>3, <1>4, <1>5, <1>6 DEF TaskStep

LEMMA KnowsNext ==
    ASSUME Inv, VerdictInv, [Next]_vars, NEW w \in Workers
    PROVE  Knows(w)'
  <1>0. PICK j : j = task[w].job
    OBVIOUS
  <1>1. Knows(w) /\ TypeOK
    BY KnowledgeParts DEF VerdictInv, Inv
  <1>2. ASSUME work[w] \in Closing, Undisturbed(j)'
        PROVE  /\ Undisturbed(j) /\ j \in Requests
               /\ meta'[j].succeeded = meta[j].succeeded /\ countedOk'[j] = countedOk[j]
    <2>1. Undisturbed(j)
      BY <1>1, <1>2, UndisturbedBefore
    <2>2. j \in Requests /\ Done(j)
      BY <1>0, <1>2, <2>1, ClosingDone
    <2>3. Frozen(j)
      BY <1>2, <2>2, DoneFreezes
    <2>4. QED
      BY <2>1, <2>2, <2>3 DEF Frozen
  <1>3. CASE Stays(w)
    BY <1>0, <1>1, <1>2, <1>3 DEF Stays, Knows, Closing
  <1>4. CASE work'[w] \in {"idle", "lock"}
    BY <1>4 DEF Knows
  <1>5. CASE TaskStep(w) /\ work'[w] # "idle"
    <2>1. Gathers(w) /\ task'[w].job = j
      BY <1>0, <1>1, <1>5, TaskGathers DEF Gathers
    <2>2. CASE work'[w] = "readResults"
      BY <1>0, <2>1, <2>2 DEF Gathers, Knows
    <2>3. ASSUME work'[w] = "complete", Undisturbed(j)' PROVE Knows(w)'
      <3>1. work[w] = "readResults" /\ work[w] \in Closing
        BY <2>1, <2>3 DEF Gathers, Closing
      <3>2. /\ Undisturbed(j) /\ j \in Requests
            /\ meta'[j].succeeded = meta[j].succeeded /\ countedOk'[j] = countedOk[j]
        BY <1>2, <2>3, <3>1
      <3>3. {UnitOf(m) : m \in countedOk[j]} \subseteq results[j]
        BY <3>2 DEF Inv, Progress, CountedUnitsStored, Undisturbed
      <3>4. seen[w].succeeded <=> meta[j].succeeded > 0
        BY <1>0, <1>1, <3>1, <3>2 DEF Knows
      <3>5. seen'[w].succeeded <=> meta'[j].succeeded > 0
        BY <2>1, <2>3, <3>2, <3>4 DEF Gathers
      <3>6. {UnitOf(m) : m \in countedOk'[j]} \subseteq seen'[w].results
        BY <1>0, <2>1, <2>3, <3>2, <3>3 DEF Gathers
      <3>7. QED
        BY <2>1, <2>3, <3>5, <3>6 DEF Knows
    <2>4. ASSUME work'[w] \in {"markFinal", "save"}, Undisturbed(j)' PROVE Knows(w)'
      <3>1. work[w] \in {"complete", "markFinal"} /\ work[w] \in Closing /\ seen'[w] = seen[w]
        BY <2>1, <2>4 DEF Gathers, Closing
      <3>2. Undisturbed(j) /\ countedOk'[j] = countedOk[j]
        BY <1>2, <2>4, <3>1
      <3>3. {UnitOf(m) : m \in countedOk[j]} \subseteq seen[w].results
        BY <1>0, <1>1, <3>1, <3>2 DEF Knows
      <3>4. QED
        BY <2>1, <2>4, <3>1, <3>2, <3>3 DEF Knows
    <2>5. QED
      BY <2>1, <2>2, <2>3, <2>4 DEF Knows
  <1>6. QED
    BY <1>1, <1>3, <1>4, <1>5, WhoMoves

\* Only a task that completes the job gives it a terminal verdict.
LEMMA VerdictWritten ==
    ASSUME Inv, [Next]_vars, NEW j \in Requests, Undisturbed(j)',
           meta'[j].status \in {"completed", "failed"}
    PROVE  \/ meta'[j].status = meta[j].status
           \/ \E w \in Workers : /\ work[w] = "complete" /\ task[w].job = j
                                 /\ meta'[j].status = FinalStatus(w)
  <1>1. TypeOK /\ meta[j] \in Meta
    BY DEF Inv, TypeOK, RedisTypeOK
  <1>2. ASSUME NEW r \in Requests, Handler(r) PROVE meta'[j].status = meta[j].status
    <2>1. meta'[j] = meta[j] \/ Restated(j) \/ Fresh(j)
      BY <1>1, <1>2, HandlerEffects DEF Handler, Inv, HandlerTouches
    <2>2. ~Restated(j)
      BY <1>1, WithStatusType DEF Restated, Statuses
    <2>3. ~Fresh(j)
      BY DEF Fresh, NewMeta
    <2>4. QED
      BY <2>1, <2>2, <2>3
  <1>3. ASSUME NEW w \in Workers, TaskStep(w)
        PROVE  \/ meta'[j].status = meta[j].status
               \/ /\ work[w] = "complete" /\ task[w].job = j
                  /\ meta'[j].status = FinalStatus(w)
    <2>1. CASE task[w].job # j
      BY <1>1, <1>3, <2>1, TaskTouches DEF TouchesOnly
    <2>2. CASE task[w].job = j /\ work[w] # "complete"
      BY <1>1, <1>3, <2>2, TaskDoes DEF Does
    <2>3. CASE task[w].job = j /\ work[w] = "complete"
      <3>1. Complete(w)
        BY <1>3, <2>3 DEF TaskStep, Lock, CacheHit, Process, StoreResults, StoreOperations,
           CountOk, CountFailed, CheckProgress, ReadResults, Finalise, SaveSnapshot, Ack, Nack
      <3>2. PICK o \in WriteOutcomes : UpdateJobStatus(j, FinalStatus(w), o)
        BY <2>3, <3>1 DEF Complete
      <3>3. FinalStatus(w) \in Statuses
        BY DEF FinalStatus, Statuses
      <3>4. meta'[j].status \in {meta[j].status, FinalStatus(w)}
        BY <1>1, <3>2, <3>3, WithStatusType DEF UpdateJobStatus, Applied, TypeOK, RedisTypeOK
      <3>5. QED
        BY <2>3, <3>4
    <2>4. QED
      BY <2>1, <2>2, <2>3
  <1>4. CASE Environment \/ UNCHANGED vars
    BY <1>4, EnvironmentIdle DEF Undisturbed
  <1>5. ASSUME NEW w \in Workers, NEW m \in Messages, Deliver(w, m)
        PROVE  meta'[j].status = meta[j].status
    BY <1>5 DEF Deliver, redisVars
  <1>6. QED
    BY <1>2, <1>3, <1>4, <1>5 DEF Next, Task, WorkerStep

LEMMA VerdictMatchesNext ==
    ASSUME Inv, VerdictInv, [Next]_vars
    PROVE  VerdictMatchesCounters'
  <1> SUFFICES ASSUME NEW j \in Requests, Undisturbed(j)',
                      meta'[j].status \in {"completed", "failed"}
               PROVE  meta'[j].status = "completed" <=> meta'[j].succeeded > 0
    <2>1. \A j \in Requests : meta'[j].succeeded \in Nat
      BY TypeNext DEF Inv, TypeOK, RedisTypeOK, Meta
    <2>2. QED
      BY <2>1 DEF VerdictMatchesCounters
  <1>1. Undisturbed(j) /\ meta[j].succeeded \in Nat
    BY UndisturbedBefore DEF Inv, TypeOK, RedisTypeOK, Meta
  <1>2. CASE meta'[j].status = meta[j].status
    <2>1. Done(j)
      BY <1>1, <1>2, ClosedDone
    <2>2. meta'[j].succeeded = meta[j].succeeded
      BY <2>1, DoneFreezes DEF Frozen
    <2>3. QED
      BY <1>1, <1>2, <2>2 DEF VerdictInv, VerdictMatchesCounters
  <1>3. ASSUME NEW w \in Workers, work[w] = "complete", task[w].job = j,
               meta'[j].status = FinalStatus(w)
        PROVE  meta'[j].status = "completed" <=> meta'[j].succeeded > 0
    <2>1. Done(j)
      BY <1>1, <1>3, ClosingDone DEF Closing
    <2>2. meta'[j].succeeded = meta[j].succeeded
      BY <2>1, DoneFreezes DEF Frozen
    <2>3. seen[w].succeeded <=> meta[j].succeeded > 0
      BY <1>1, <1>3 DEF VerdictInv, SeenVerdict
    <2>4. QED
      BY <1>3, <2>2, <2>3 DEF FinalStatus
  <1>4. QED
    BY <1>2, <1>3, VerdictWritten

\* A snapshot is saved by a task that has closed its job.
LEMMA SavedBy ==
    ASSUME TypeOK, [Next]_vars, NEW g \in Groups
    PROVE  \/ daily'[g] = daily[g]
           \/ \E w \in Workers : /\ work[w] = "save"
                                 /\ daily'[g].job = task[w].job
                                 /\ daily'[g].results = seen[w].results
  <1>0. daily \in [Groups -> [job : Requests \cup {NoJob}, results : SUBSET Units]]
    BY DEF TypeOK, WorkerTypeOK
  <1>1. CASE \/ \E r \in Requests : Handler(r)
             \/ UNCHANGED vars
             \/ Environment
    BY <1>1 DEF Handler, vars, Environment, Expire, Disconnect, Crash, LoseChannel, Free,
       workerVars, progressVars
  <1>2. ASSUME NEW w \in Workers, SaveSnapshot(w)
        PROVE  \/ daily'[g] = daily[g]
               \/ /\ work[w] = "save" /\ daily'[g].job = task[w].job
                  /\ daily'[g].results = seen[w].results
    BY <1>0, <1>2 DEF SaveSnapshot
  <1>3. ASSUME NEW w \in Workers, Task(w), ~SaveSnapshot(w) PROVE daily'[g] = daily[g]
    BY <1>3 DEF Task, WorkerStep, TaskStep, Deliver, Lock, CacheHit, Process, StoreResults,
       StoreOperations, CountOk, CountFailed, CheckProgress, ReadResults, Complete, Finalise,
       Ack, Nack, Free, progressVars
  <1>4. QED
    BY <1>1, <1>2, <1>3 DEF Next

LEMMA SavedNext ==
    ASSUME Inv, VerdictInv, [Next]_vars
    PROVE  SavedProcessed' /\ DailySnapshotComplete'
  <1> SUFFICES ASSUME NEW g \in Groups, daily'[g].job # NoJob, Undisturbed(daily[g].job)'
               PROVE  /\ Done(daily[g].job)'
                      /\ {UnitOf(m) : m \in countedOk'[daily'[g].job]} \subseteq daily'[g].results
    BY DEF SavedProcessed, DailySnapshotComplete
  <1>1. TypeOK
    BY DEF Inv
  <1>2. PICK k : k = daily'[g].job
    OBVIOUS
  <1>3. Undisturbed(k)' /\ Undisturbed(k)
    BY <1>1, <1>2, UndisturbedBefore
  <1>4. /\ k \in Requests /\ Done(k)
        /\ {UnitOf(m) : m \in countedOk[k]} \subseteq daily'[g].results
    <2>1. CASE daily'[g] = daily[g]
      <3>1. k \in Requests
        BY <1>1, <1>2, <2>1 DEF TypeOK, WorkerTypeOK
      <3>2. QED
        BY <1>2, <1>3, <2>1, <3>1 DEF VerdictInv, SavedProcessed, DailySnapshotComplete
    <2>2. ASSUME NEW w \in Workers, work[w] = "save", daily'[g].job = task[w].job,
                 daily'[g].results = seen[w].results
          PROVE  /\ k \in Requests /\ Done(k)
                 /\ {UnitOf(m) : m \in countedOk[k]} \subseteq daily'[g].results
      <3>1. k = task[w].job /\ work[w] \in Closing
        BY <1>2, <2>2 DEF Closing
      <3>2. k \in Requests /\ Done(k)
        BY <1>3, <3>1, ClosingDone
      <3>3. QED
        BY <1>3, <2>2, <3>1, <3>2 DEF VerdictInv, CompletionSeesAllResults
    <2>3. QED
      BY <1>1, <2>1, <2>2, SavedBy
  <1>5. Frozen(k) /\ Done(k)'
    BY <1>3, <1>4, DoneFreezes
  <1>6. QED
    BY <1>2, <1>4, <1>5 DEF Frozen

LEMMA VerdictInit == Init => VerdictInv
  BY DEF Init, RedisInit, WorkerInit, EmptyMeta, NeverSaved, VerdictInv, SeenVerdict,
     VerdictMatchesCounters, SavedProcessed, CompletionSeesAllResults, DailySnapshotComplete

LEMMA VerdictAlways == Spec => [](Inv /\ VerdictInv)
  <1>1. Init => Inv /\ VerdictInv
    BY TypeInit, ProvenanceInit, ProgressInit, LockInit, VerdictInit DEF Inv
  <1>2. Inv /\ VerdictInv /\ [Next]_vars => (Inv /\ VerdictInv)'
    <2> SUFFICES ASSUME Inv, VerdictInv, [Next]_vars PROVE Inv' /\ VerdictInv'
      OBVIOUS
    <2>1. Inv'
      BY TypeNext, ProvenanceNext, ProgressNext, LockNext DEF Inv
    <2>2. \A w \in Workers : Knows(w)'
      BY KnowsNext
    <2>3. SeenVerdict' /\ CompletionSeesAllResults'
      BY <2>2 DEF SeenVerdict, CompletionSeesAllResults, Knows
    <2>4. QED
      BY <2>1, <2>3, VerdictMatchesNext, SavedNext DEF VerdictInv
  <1>3. QED
    BY <1>1, <1>2, PTL DEF Spec

\* Until something fails, the terminal status of a job agrees with its
\* counters, whichever of the tasks that found it complete wrote it last.
THEOREM VerdictMatchesCountersAlways == Spec => []VerdictMatchesCounters
  <1>1. VerdictInv => VerdictMatchesCounters
    BY DEF VerdictInv
  <1>2. QED
    BY <1>1, VerdictAlways, PTL

\* Whoever found a job complete and then read its results has read those of
\* every unit that succeeded.
THEOREM CompletionSeesAllResultsAlways == Spec => []CompletionSeesAllResults
  <1>1. VerdictInv => CompletionSeesAllResults
    BY DEF VerdictInv
  <1>2. QED
    BY <1>1, VerdictAlways, PTL

\* The snapshot saved for a group holds every result of the job it was made
\* from, and goes on doing so: the job counts nothing after it.
THEOREM DailySnapshotCompleteAlways == Spec => []DailySnapshotComplete
  <1>1. VerdictInv => DailySnapshotComplete
    BY DEF VerdictInv
  <1>2. QED
    BY <1>1, VerdictAlways, PTL


----------------------------------------------------------------------------
(* A holder counts its unit or goes on holding it.                         *)

LEMMA HolderGoesOn ==
    ASSUME TypeOK, NEW w \in Workers, TaskStep(w), faults' = 0, work[w] \in Holding
    PROVE  \/ work'[w] \in Holding /\ task'[w] = task[w]
           \/ task[w] \in countedOk'[task[w].job] \cup countedBad'[task[w].job]
  <1> USE DEF Holding, Step
  <1>0. /\ work \in [Workers -> WorkStates] /\ task[w].job \in Requests
        /\ countedOk \in [Requests -> SUBSET Messages]
        /\ countedBad \in [Requests -> SUBSET Messages] /\ faults \in Nat
    BY TaskTouches, JobManagerAssumption DEF TypeOK, WorkerTypeOK, RedisTypeOK
  <1>1. CASE CacheHit(w) \/ Process(w)
    BY <1>0, <1>1 DEF CacheHit, Process
  <1>2. CASE StoreResults(w)
    <2>1. PICK o \in WriteOutcomes : /\ AddResults(task[w].job, UnitOf(task[w]), o)
                                     /\ Step(w, IF o.ok THEN "operations" ELSE "nack")
      BY <1>2 DEF StoreResults
    <2>2. o.ok
      BY <1>0, <2>1, WriteOutcomeType, CalmOutcome DEF AddResults
    <2>3. QED
      BY <1>0, <1>2, <2>1, <2>2 DEF StoreResults
  <1>3. CASE StoreOperations(w)
    <2>1. PICK o \in WriteOutcomes : /\ AddOperations(task[w].job, UnitOf(task[w]), o)
                                     /\ Step(w, IF o.ok THEN "countOk" ELSE "nack")
      BY <1>3 DEF StoreOperations
    <2>2. o.ok
      BY <1>0, <2>1, WriteOutcomeType, CalmOutcome DEF AddOperations
    <2>3. QED
      BY <1>0, <1>3, <2>1, <2>2 DEF StoreOperations
  <1>4. CASE CountOk(w)
    <2>1. PICK o \in Outcomes :
            /\ IncrementCounters(task[w].job, 1, 0, o)
            /\ countedOk' = [countedOk EXCEPT ![task[w].job] =
                               Applied(o, @ \cup {task[w]}, @)]
      BY <1>4 DEF CountOk
    <2>2. o.applied = 1
      BY <1>0, <2>1, CalmOutcome DEF IncrementCounters
    <2>3. countedOk'[task[w].job] = countedOk[task[w].job] \cup {task[w]}
      BY <1>0, <2>1, <2>2 DEF Applied
    <2>4. QED
      BY <2>3
  <1>5. CASE CountFailed(w)
    <2>1. PICK o \in Outcomes :
            /\ IncrementCounters(task[w].job, 0, 1, o)
            /\ countedBad' = [countedBad EXCEPT ![task[w].job] =
                                Applied(o, @ \cup {task[w]}, @)]
      BY <1>5 DEF CountFailed
    <2>2. o.applied = 1
      BY <1>0, <2>1, CalmOutcome DEF IncrementCounters
    <2>3. countedBad'[task[w].job] = countedBad[task[w].job] \cup {task[w]}
      BY <1>0, <2>1, <2>2 DEF Applied
    <2>4. QED
      BY <2>3
  <1>6. QED
    BY <1>1, <1>2, <1>3, <1>4, <1>5 DEF TaskStep, Lock, CheckProgress, ReadResults, Complete,
       Finalise, SaveSnapshot, Ack, Nack

\* What was counted stays counted, whoever takes the step.
LEMMA CountedGrows ==
    ASSUME TypeOK, NEW w \in Workers, TaskStep(w), faults' = 0, NEW j \in Requests
    PROVE  Counted(j) \subseteq Counted(j)'
  <1>1. /\ countedOk \in [Requests -> SUBSET Messages]
        /\ countedBad \in [Requests -> SUBSET Messages]
    BY DEF TypeOK, WorkerTypeOK
  <1>2. CASE j # task[w].job
    BY <1>2, TaskTouches DEF TouchesOnly, Counted
  <1>3. CASE j = task[w].job
    <2>1. Takes(w, j) \/ Counts(w, j) \/ GoesOn(w, j)
      BY <1>3, CalmTask
    <2>2. QED
      BY <1>1, <2>1 DEF Takes, Counts, GoesOn, SameCounts, Counted
  <1>4. QED
    BY <1>2, <1>3

\* A step that leaves locks, counts and the holders alone, but for locks that
\* go and tasks that held nothing.
LEMMA QuietKeepsAccounts ==
    ASSUME LockHolderAlive, faults' = 0 /\ crashes' = 0 => faults = 0 /\ crashes = 0,
           UNCHANGED <<countedOk, countedBad>>,
           \A j \in Requests : locks'[j] \subseteq locks[j],
           \A w \in Workers :
               work[w] \in Holding => work'[w] = work[w] /\ task'[w] = task[w]
    PROVE  LockHolderAlive'
  <1>1. \A j \in Requests : \A u : AccountedFor(j, u) => AccountedFor(j, u)'
    BY DEF AccountedFor, Counted
  <1>2. QED
    BY <1>1 DEF LockHolderAlive

LEMMA TaskKeepsAccounts ==
    ASSUME TypeOK, LockHolderAlive, NEW w \in Workers, TaskStep(w), crashes' = crashes,
           faults' = 0, faults = 0
    PROVE  LockHolderAlive'
  <1>0. PICK k, v : k = task[w].job /\ v = UnitOf(task[w])
    OBVIOUS
  <1>1. k \in Requests /\ TouchesOnly(w, k) /\ work[w] # "idle"
    BY <1>0, TaskTouches
  <1>2. ASSUME NEW j \in Requests, NEW u, AccountedFor(j, u)
        PROVE  AccountedFor(j, u)'
    <2>1. CASE \E m \in Counted(j) : UnitOf(m) = u
      BY <2>1, CountedGrows DEF AccountedFor
    <2>2. ASSUME NEW x \in Workers, work[x] \in Holding, task[x].job = j, UnitOf(task[x]) = u
          PROVE  AccountedFor(j, u)'
      <3>1. CASE x = w
        <4>1. CASE work'[w] \in Holding /\ task'[w] = task[w]
          BY <2>2, <3>1, <4>1 DEF AccountedFor
        <4>2. CASE task[w] \in countedOk'[j] \cup countedBad'[j]
          BY <2>2, <3>1, <4>2 DEF AccountedFor, Counted
        <4>3. QED
          BY <2>2, <3>1, <4>1, <4>2, HolderGoesOn
      <3>2. CASE x # w
        BY <1>1, <2>2, <3>2 DEF TouchesOnly, AccountedFor
      <3>3. QED
        BY <3>1, <3>2
    <2>3. QED
      BY <1>2, <2>1, <2>2 DEF AccountedFor
  <1>3. ASSUME NEW j \in Requests, NEW u \in locks'[j]
        PROVE  u \in locks[j] \/ AccountedFor(j, u)'
    <2>1. CASE j # k
      BY <1>1, <1>3, <2>1 DEF TouchesOnly
    <2>2. CASE j = k /\ ~Takes(w, k)
      BY <1>0, <1>3, <2>2, CalmTask DEF Counts, GoesOn
    <2>3. CASE j = k /\ Takes(w, k)
      <3>1. u \in locks[k] \cup {v}
        BY <1>0, <1>1, <1>3, <2>3 DEF Takes, TypeOK, RedisTypeOK
      <3>2. work'[w] \in Holding /\ task'[w] = task[w]
        BY <1>1, <2>3 DEF Takes, Holding, TouchesOnly
      <3>3. AccountedFor(k, v)'
        BY <1>0, <3>2 DEF AccountedFor
      <3>4. QED
        BY <2>3, <3>1, <3>3 DEF AccountedFor
    <2>4. QED
      BY <2>1, <2>2, <2>3
  <1>4. QED
    BY <1>2, <1>3 DEF LockHolderAlive

LEMMA AccountsNext ==
    ASSUME Inv, LockHolderAlive, [Next]_vars
    PROVE  LockHolderAlive'
  <1>1. TypeOK /\ faults \in Nat /\ crashes \in Nat
    BY JobManagerAssumption, WorkerAssumption DEF Inv, TypeOK, RedisTypeOK, WorkerTypeOK
  <1>2. faults' = 0 => faults = 0
    BY <1>1, FaultsGrow
  <1>3. ASSUME NEW r \in Requests, Handler(r) PROVE LockHolderAlive'
    <2>1. UNCHANGED <<locks, work, task, countedOk, countedBad, crashes>>
      BY <1>3, HandlerEffects DEF Handler, Inv, HandlerTouches, workerVars, progressVars,
         counted
    <2>2. QED
      BY <1>2, <2>1, QuietKeepsAccounts
  <1>4. ASSUME NEW w \in Workers, TaskStep(w) PROVE LockHolderAlive'
    <2>1. crashes' = crashes
      BY <1>4 DEF TaskStep, Lock, CacheHit, Process, StoreResults, StoreOperations, CountOk,
         CountFailed, CheckProgress, ReadResults, Complete, Finalise, SaveSnapshot, Ack, Nack
    <2>2. CASE faults' = 0
      BY <1>1, <1>2, <1>4, <2>1, <2>2, TaskKeepsAccounts
    <2>3. CASE faults' # 0
      BY <2>3 DEF LockHolderAlive
    <2>4. QED
      BY <2>2, <2>3
  <1>5. ASSUME NEW w \in Workers, NEW m \in Messages, Deliver(w, m) PROVE LockHolderAlive'
    <2>1. UNCHANGED <<locks, countedOk, countedBad, crashes>> /\ work[w] = "idle"
      BY <1>5 DEF Deliver, redisVars, progressVars, counted
    <2>2. \A x \in Workers : work[x] \in Holding => work'[x] = work[x] /\ task'[x] = task[x]
      BY <1>1, <1>5 DEF Deliver, Step, Holding, TypeOK, WorkerTypeOK
    <2>3. QED
      BY <1>2, <2>1, <2>2, QuietKeepsAccounts
  <1>6. ASSUME NEW w \in Workers, Crash(w) PROVE LockHolderAlive'
    <2>1. crashes' # 0
      BY <1>1, <1>6 DEF Crash
    <2>2. QED
      BY <2>1 DEF LockHolderAlive
  <1>7. CASE \/ UNCHANGED vars
             \/ \E w \in Workers : LoseChannel(w)
             \/ \E r \in Requests : Disconnect(r) /\ UNCHANGED <<workerVars, expired>>
    <2>1. UNCHANGED <<locks, work, task, countedOk, countedBad, crashes>>
      BY <1>7 DEF vars, LoseChannel, Disconnect, redisVars, workerVars, progressVars, counted
    <2>2. QED
      BY <1>2, <2>1, QuietKeepsAccounts
  <1>8. ASSUME NEW j \in Requests, Expire(j) PROVE LockHolderAlive'
    <2>1. UNCHANGED <<work, task, countedOk, countedBad, crashes>>
      BY <1>8 DEF Expire, workerVars, progressVars, counted
    <2>2. \A k \in Requests : locks'[k] \subseteq locks[k]
      BY <1>1, <1>8 DEF Expire, TypeOK, RedisTypeOK
    <2>3. QED
      BY <1>2, <2>1, <2>2, QuietKeepsAccounts
  <1>9. QED
    BY <1>3, <1>4, <1>5, <1>6, <1>7, <1>8 DEF Next, Task, WorkerStep, Environment

\* Until something fails or a process dies, the lock of a unit is held by a
\* task on its way to count it, or the unit has been counted: no message is
\* skipped as a duplicate of work that nobody does.
THEOREM LockHolderAliveAlways == Spec => []LockHolderAlive
  <1>1. Init => Inv /\ LockHolderAlive
    <2>1. Init => LockHolderAlive
      BY DEF Init, RedisInit, LockHolderAlive
    <2>2. QED
      BY <2>1, TypeInit, ProvenanceInit, ProgressInit, LockInit DEF Inv
  <1>2. Inv /\ LockHolderAlive /\ [Next]_vars => (Inv /\ LockHolderAlive)'
    BY TypeNext, ProvenanceNext, ProgressNext, LockNext, AccountsNext DEF Inv
  <1>3. QED
    BY <1>1, <1>2, PTL DEF Spec

----------------------------------------------------------------------------
(* The refinement.  A message that is counted is a Tally, a job that is    *)
(* marked final for the first time a Close, any other step a stutter.      *)

Calm == faults = 0 /\ expired = {}

SameVerdict(j) ==
    /\ meta'[j].final <=> meta[j].final
    /\ meta[j].final => meta'[j].succeeded = meta[j].succeeded

LEMMA SameVerdictShows ==
    ASSUME NEW j \in Requests, SameVerdict(j)
    PROVE  Verdict(j)' = Verdict(j)
  BY DEF SameVerdict, Verdict

LEMMA StutterStep ==
    ASSUME UNCHANGED <<countedOk, countedBad>>, \A j \in Requests : SameVerdict(j)
    PROVE  UNCHANGED Lifecycle!vars
  <1>1. \A j \in Requests : Verdict(j)' = Verdict(j) /\ Counted(j)' = Counted(j)
    BY SameVerdictShows DEF Counted
  <1>2. QED
    BY <1>1 DEF Lifecycle!vars

LEMMA TallyStep ==
    ASSUME Inv, Calm, NEW w \in Workers, TaskStep(w), NEW j, j = task[w].job, Counts(w, j)
    PROVE  Lifecycle!Next
  <1>0. PICK m : m = task[w]
    OBVIOUS
  <1>1. /\ j \in Requests /\ m \in MessagesOf(j) /\ TouchesOnly(w, j)
        /\ work[w] \in Holding /\ Undisturbed(j) /\ TypeOK
    BY <1>0, TaskTouches, MessageJob DEF Inv, Calm, Undisturbed, Counts
  <1>2. m \notin Counted(j)
    BY <1>0, <1>1 DEF Inv, LockInv, HoldersExclusive, Holds
  <1>3. ~meta[j].final
    BY <1>1, ClosedDone, DoneHasNoHolder
  <1>4. ~meta'[j].final
    BY <1>1, <1>3, TaskDoes DEF Does, Holding
  <1>5. \A k \in Requests : Verdict(k)' = Verdict(k)
    BY <1>1, <1>3, <1>4 DEF Verdict, TouchesOnly
  <1>6. /\ countedOk \in [Requests -> SUBSET Messages]
        /\ countedBad \in [Requests -> SUBSET Messages]
    BY <1>1 DEF TypeOK, WorkerTypeOK
  <1>7. \/ countedOk' = [countedOk EXCEPT ![j] = @ \cup {m}] /\ UNCHANGED countedBad
        \/ countedBad' = [countedBad EXCEPT ![j] = @ \cup {m}] /\ UNCHANGED countedOk
    BY <1>0 DEF Counts
  <1>8. \A k \in Requests :
          Counted(k)' = IF k = j THEN Counted(k) \cup {m} ELSE Counted(k)
    BY <1>1, <1>6, <1>7 DEF Counted
  <1>9. [k \in Requests |-> MessagesOf(k) \ Counted(k)]' =
          [[k \in Requests |-> MessagesOf(k) \ Counted(k)] EXCEPT ![j] = @ \ {m}]
    BY <1>1, <1>8
  <1>10. Lifecycle!Tally(j, m)
    BY <1>1, <1>2, <1>5, <1>7, <1>9 DEF Lifecycle!Tally
  <1>11. QED
    BY <1>1, <1>10 DEF Lifecycle!Next

LEMMA CloseStep ==
    ASSUME Inv, NEW j \in Requests, Undisturbed(j), Done(j), ~meta[j].final, meta'[j].final,
           meta'[j].succeeded = meta[j].succeeded, UNCHANGED <<countedOk, countedBad>>,
           \A k \in Requests \ {j} : SameVerdict(k)
    PROVE  Lifecycle!Next
  <1>1. Counted(j) = MessagesOf(j)
    BY ProcessedMeansAll DEF Done
  <1>2. meta[j].succeeded = Cardinality(countedOk[j])
    BY DEF Inv, LockInv, CountersExact
  <1>3. IsFiniteSet(countedOk[j])
    BY <1>1, MessagesFinite, FS_Subset DEF Counted
  <1>4. meta'[j].succeeded > 0 <=> countedOk[j] # {}
    BY <1>2, <1>3, FS_EmptySet, FS_CardinalityType
  <1>5. Verdict(j) = "open"
        /\ Verdict(j)' = IF countedOk[j] # {} THEN "completed" ELSE "failed"
    BY <1>4 DEF Verdict
  <1>6. \A k \in Requests \ {j} : Verdict(k)' = Verdict(k)
    BY SameVerdictShows
  <1>7. \A k \in Requests : Counted(k)' = Counted(k)
    BY DEF Counted
  <1>8. Lifecycle!Close(j)
    BY <1>1, <1>5, <1>6, <1>7 DEF Lifecycle!Close
  <1>9. QED
    BY <1>8 DEF Lifecycle!Next

LEMMA TaskSimulates ==
    ASSUME Inv, Calm, faults' = 0, NEW w \in Workers, TaskStep(w)
    PROVE  Lifecycle!Next \/ UNCHANGED Lifecycle!vars
  <1>0. PICK j : j = task[w].job
    OBVIOUS
  <1>1. /\ j \in Requests /\ TouchesOnly(w, j) /\ Does(w, j) /\ Undisturbed(j)
        /\ Takes(w, j) \/ Counts(w, j) \/ GoesOn(w, j)
    BY <1>0, TaskTouches, TaskDoes, CalmTask DEF Inv, Calm, Undisturbed
  <1>2. \A k \in Requests \ {j} : SameVerdict(k)
    BY <1>1 DEF TouchesOnly, SameVerdict
  <1>3. CASE Counts(w, j)
    BY <1>0, <1>3, TallyStep
  <1>4. CASE SameCounts(j)
    <2>1. meta[j].final => meta'[j].final
      BY <1>0, TaskKeepsFinal DEF Inv
    <2>2. CASE meta[j].final \/ ~meta'[j].final
      BY <1>2, <1>4, <2>1, <2>2, StutterStep DEF SameCounts, SameVerdict
    <2>3. CASE ~meta[j].final /\ meta'[j].final
      <3>1. Done(j)
        BY <1>0, <1>1, <2>3, ClosingDone DEF Does, Closing
      <3>2. QED
        BY <1>1, <1>2, <1>4, <2>3, <3>1, CloseStep DEF SameCounts
    <2>4. QED
      BY <2>2, <2>3
  <1>5. QED
    BY <1>1, <1>3, <1>4 DEF Takes, GoesOn

LEMMA HandlerStutters ==
    ASSUME Inv, NEW r \in Requests, Handler(r)
    PROVE  UNCHANGED Lifecycle!vars
  <1>1. HandlerTouches(r) /\ UNCHANGED <<countedOk, countedBad>>
    BY HandlerEffects DEF Handler, Inv, workerVars, progressVars, counted
  <1>2. ASSUME NEW k \in Requests PROVE SameVerdict(k)
    <2>1. meta[k] \in Meta /\ (k \notin Created => meta[k] = EmptyMeta)
      BY DEF Inv, TypeOK, RedisTypeOK, Provenance, CreatedJobs, Untouched
    <2>2. CASE Restated(k)
      BY <2>1, <2>2, WithStatusType DEF Restated, Statuses, SameVerdict
    <2>3. CASE Fresh(k)
      BY <2>1, <2>3 DEF Fresh, NewMeta, EmptyMeta, SameVerdict
    <2>4. QED
      BY <1>1, <2>2, <2>3 DEF HandlerTouches, SameVerdict
  <1>3. QED
    BY <1>1, <1>2, StutterStep

LEMMA EnvironmentStutters ==
    ASSUME \/ Environment
           \/ UNCHANGED vars
           \/ \E w \in Workers, m \in Messages : Deliver(w, m) /\ UNCHANGED <<startVars, expired>>,
           expired' = {}
    PROVE  UNCHANGED Lifecycle!vars
  <1>1. \A j \in Requests : /\ meta'[j] = meta[j]
                            /\ countedOk'[j] = countedOk[j] /\ countedBad'[j] = countedBad[j]
    BY EnvironmentIdle
  <1>2. UNCHANGED <<countedOk, countedBad>>
    BY DEF Environment, Expire, Disconnect, Crash, LoseChannel, Free, Deliver, vars,
       workerVars, progressVars, counted
  <1>3. QED
    BY <1>1, <1>2, StutterStep DEF SameVerdict

LEMMA StepSimulates ==
    ASSUME Inv, Calm, Calm', [Next]_vars
    PROVE  [Lifecycle!Next]_(Lifecycle!vars)
  <1>1. faults' = 0 /\ expired' = {}
    BY DEF Calm
  <1>2. ASSUME NEW w \in Workers, Task(w) PROVE Lifecycle!Next \/ UNCHANGED Lifecycle!vars
    <2>1. CASE TaskStep(w)
      BY <1>1, <2>1, TaskSimulates
    <2>2. CASE \E m \in Messages : Deliver(w, m)
      BY <1>1, <1>2, <2>2, EnvironmentStutters DEF Task
    <2>3. QED
      BY <1>2, <2>1, <2>2 DEF Task, WorkerStep
  <1>3. CASE Environment \/ UNCHANGED vars
    BY <1>1, <1>3, EnvironmentStutters
  <1>4. QED
    BY <1>2, <1>3, HandlerStutters DEF Next

LEMMA InitSimulates == Init => Lifecycle!Init
  BY DEF Init, RedisInit, WorkerInit, EmptyMeta, Counted, Verdict, Lifecycle!Init

\* As long as no attempt fails and no key expires, the pipeline implements
\* JobLifecycle: every message of a job is tallied exactly once, and the job
\* gets the one verdict that its tallies call for when none is left.
THEOREM KeepsLifecycle == Spec /\ []Calm => LifecycleSpec
  <1>1. Inv /\ Calm /\ Calm' /\ [Next]_vars => [Lifecycle!Next]_(Lifecycle!vars)
    BY StepSimulates
  <1>2. QED
    BY <1>1, InitSimulates, InvAlways, PTL DEF Spec, LifecycleSpec, Lifecycle!Spec

=============================================================================
