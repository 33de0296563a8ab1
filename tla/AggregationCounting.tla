-------------------------- MODULE AggregationCounting --------------------------
(***************************************************************************)
(* While Redis and the broker answer, every message of a job is counted at *)
(* most once, and a job is closed when all of them have been.              *)
(***************************************************************************)
EXTENDS AggregationSafety

----------------------------------------------------------------------------
(* Disturbances are not undone.                                            *)

LEMMA SpendGrows ==
    ASSUME NEW n \in Nat, Spend(n), faults \in Nat
    PROVE  faults' >= faults /\ (faults' = 0 => n = 0)
  BY DEF Spend

LEMMA FaultsGrow == TypeOK /\ [Next]_vars => faults' >= faults /\ expired \subseteq expired'
  <1> SUFFICES ASSUME TypeOK, [Next]_vars PROVE faults' >= faults /\ expired \subseteq expired'
    OBVIOUS
  <1>0. faults \in Nat
    BY JobManagerAssumption DEF TypeOK, RedisTypeOK
  <1>1. ASSUME NEW r \in Requests, Handler(r)
        PROVE  faults' >= faults /\ expired \subseteq expired'
    <2>1. ASSUME UNCHANGED faults PROVE faults' >= faults
      BY <1>0, <2>1
    <2>2. ASSUME NEW n \in Nat, Spend(n) PROVE faults' >= faults
      BY <1>0, <2>2, SpendGrows
    <2>3. CASE FindActiveJob(r)
      <3>1. CASE ReadGroupIndex(r) \/ ReadGroupJob(r) \/ ReadActive(r) \/ ReadJob(r)
                 \/ NothingFound(r)
        BY <1>1, <2>1, <3>1 DEF ReadGroupIndex, ReadGroupJob, ReadActive, ReadJob,
           NothingFound, redisVars, Handler
      <3>2. ASSUME NEW j \in Requests,
                   DropInactive(r, j) \/ SeeStale(r, j) \/ SeeOther(r, j) \/ SeeSame(r, j)
            PROVE  faults' >= faults /\ expired \subseteq expired'
        BY <1>1, <2>1, <2>2, <3>2 DEF DropInactive, SeeStale, SeeOther, SeeSame, redisVars,
           Handler
      <3>3. CASE ExpireStale(r)
        <4>1. PICK set \in BOOLEAN, removed \in BOOLEAN :
                Spend((IF set THEN 0 ELSE 1) + (IF removed THEN 0 ELSE 1))
          BY <3>3 DEF ExpireStale
        <4>2. QED
          BY <1>1, <2>2, <4>1 DEF Handler
      <3>4. CASE SearchFails(r)
        BY <1>1, <2>2, <3>4 DEF SearchFails, Handler, MAX_RETRIES
      <3>5. QED
        BY <2>3, <3>1, <3>2, <3>3, <3>4 DEF FindActiveJob
    <2>4. CASE Create(r) \/ Index(r) \/ SetProcessing(r)
      <3>1. \E o \in Outcomes : Spend(Cost(o))
        BY <2>4, WriteOutcomeType DEF Create, Index, SetProcessing, CreateMeta, WriteIndexes,
           UpdateJobStatus
      <3>2. QED
        BY <1>1, <2>2, <3>1, CostType DEF Handler
    <2>5. CASE PublishNext(r)
      <3>1. PICK o \in PublishOutcomes : Spend(PublishCost(o))
        BY <2>5 DEF PublishNext, Publish
      <3>2. PublishCost(o) \in Nat
        BY DEF PublishOutcomes, PublishCost, MAX_RETRIES
      <3>3. QED
        BY <1>1, <2>2, <3>1, <3>2 DEF Handler
    <2>6. CASE PublishDone(r)
      BY <1>1, <2>1, <2>6 DEF PublishDone, redisVars, Handler
    <2>7. QED
      BY <1>1, <2>3, <2>4, <2>5, <2>6 DEF Handler, HandlerStep
  <1>2. ASSUME NEW w \in Workers, Task(w)
        PROVE  faults' >= faults /\ expired \subseteq expired'
    <2>1. CASE \/ CacheHit(w) \/ Process(w) \/ SaveSnapshot(w) \/ Ack(w) \/ Nack(w)
               \/ \E m \in Messages : Deliver(w, m)
      BY <1>0, <1>2, <2>1 DEF CacheHit, Process, SaveSnapshot, Ack, Nack, Deliver, redisVars,
         Task
    <2>2. CASE \/ StoreResults(w) \/ StoreOperations(w) \/ CountOk(w) \/ CountFailed(w)
               \/ Complete(w) \/ Finalise(w)
      <3>1. \E o \in Outcomes : Spend(Cost(o))
        BY <2>2, WriteOutcomeType DEF StoreResults, StoreOperations, CountOk, CountFailed,
           Complete, Finalise, AddResults, AddOperations, IncrementCounters,
           UpdateJobStatus, MarkFinal
      <3>2. QED
        BY <1>0, <1>2, <3>1, CostType, SpendGrows DEF Task
    <2>3. CASE Lock(w)
      <3>1. \E n \in Nat : Spend(n)
        BY <2>3 DEF Lock, AcquireLock, MAX_RETRIES
      <3>2. QED
        BY <1>0, <1>2, <3>1, SpendGrows DEF Task
    <2>4. CASE CheckProgress(w) \/ ReadResults(w)
      <3>1. \E n \in Nat : Spend(n)
        BY <2>4 DEF CheckProgress, ReadResults, MAX_RETRIES
      <3>2. QED
        BY <1>0, <1>2, <3>1, SpendGrows DEF Task
    <2>5. QED
      BY <1>2, <2>1, <2>2, <2>3, <2>4 DEF Task, WorkerStep, TaskStep
  <1>3. CASE Environment
    BY <1>0, <1>3 DEF Environment, Disconnect, Crash, LoseChannel, Expire, redisVars
  <1>4. CASE UNCHANGED vars
    BY <1>0, <1>4 DEF vars, redisVars
  <1>5. QED
    BY <1>1, <1>2, <1>3, <1>4 DEF Next

LEMMA UndisturbedBefore ==
    ASSUME TypeOK, [Next]_vars, NEW j, Undisturbed(j)'
    PROVE  Undisturbed(j)
  BY FaultsGrow, JobManagerAssumption DEF Undisturbed, TypeOK, RedisTypeOK

----------------------------------------------------------------------------
(* A step of a task while nothing fails.                                   *)

SameCounts(j) ==
    /\ meta'[j].succeeded = meta[j].succeeded /\ meta'[j].failed = meta[j].failed
    /\ UNCHANGED <<countedOk, countedBad>>

\* Taking the lock: it was free, and it is the task's from now on.
Takes(w, j) ==
    /\ work[w] = "lock" /\ work'[w] = "fetch"
    /\ UnitOf(task[w]) \notin locks[j]
    /\ locks' = [locks EXCEPT ![j] = @ \cup {UnitOf(task[w])}]
    /\ SameCounts(j)

\* Counting the message, once, and holding the lock no more.
Counts(w, j) ==
    /\ work[w] \in Holding /\ work'[w] = "readJob" /\ UNCHANGED locks
    /\ \/ /\ work[w] = "countOk"
          /\ countedOk' = [countedOk EXCEPT ![j] = @ \cup {task[w]}]
          /\ meta'[j].succeeded = meta[j].succeeded + 1
          /\ meta'[j].failed = meta[j].failed
          /\ UNCHANGED countedBad
       \/ /\ work[w] = "countFailed"
          /\ countedBad' = [countedBad EXCEPT ![j] = @ \cup {task[w]}]
          /\ meta'[j].failed = meta[j].failed + 1
          /\ meta'[j].succeeded = meta[j].succeeded
          /\ UNCHANGED countedOk

\* Anything else leaves locks and counts alone.
GoesOn(w, j) ==
    /\ work'[w] \in Holding => work[w] \in Holding
    /\ UNCHANGED locks
    /\ SameCounts(j)

LEMMA CalmOutcome ==
    ASSUME NEW o \in Outcomes, Spend(Cost(o)), faults \in Nat, faults' = 0
    PROVE  o.ok /\ o.applied = 1
  <1>1. Cost(o) = 0
    BY CostType, SpendGrows
  <1>2. QED
    BY <1>1 DEF Cost, Outcomes, MAX_RETRIES

LEMMA CalmTask ==
    ASSUME TypeOK, NEW w \in Workers, TaskStep(w), faults' = 0
    PROVE  LET j == task[w].job IN Takes(w, j) \/ Counts(w, j) \/ GoesOn(w, j)
  <1> DEFINE j == task[w].job
             u == UnitOf(task[w])
  <1>0. /\ j \in Requests /\ meta[j] \in Meta /\ faults \in Nat
        /\ u \in Units
    BY TaskTouches, MessageJob, JobManagerAssumption DEF TypeOK, RedisTypeOK
  <1> HIDE DEF j, u
  <1> SUFFICES Takes(w, j) \/ Counts(w, j) \/ GoesOn(w, j)
    BY DEF j
  <1> USE DEF Takes, Counts, GoesOn, SameCounts, Holding, Step
  <1>1. CASE Lock(w)
    <2>1. PICK a \in {"yes", "no", "error"} :
            /\ AcquireLock(j, u, a)
            /\ Step(w, IF a = "no" THEN "ack" ELSE "fetch")
      BY <1>1 DEF Lock, j, u
    <2>2. work[w] = "lock" /\ UNCHANGED <<meta, countedOk, countedBad>>
      BY <1>1, <2>1 DEF Lock, AcquireLock, progressVars, counted
    <2>3. CASE a = "yes"
      BY <2>1, <2>2, <2>3 DEF AcquireLock, TypeOK, WorkerTypeOK, u
    <2>4. CASE a = "no"
      <3>1. u \in locks[j]
        BY <1>0, <2>1, <2>4, SpendGrows DEF AcquireLock
      <3>2. locks' = locks
        <4>1. locks[j] \cup {u} = locks[j] /\ locks = [k \in Requests |-> locks[k]]
          BY <3>1 DEF TypeOK, RedisTypeOK
        <4>2. locks' = [locks EXCEPT ![j] = locks[j] \cup {u}]
          BY <2>1, <2>4 DEF AcquireLock
        <4>3. QED
          BY <4>1, <4>2
      <3>3. work'[w] = "ack"
        BY <2>1, <2>4 DEF TypeOK, WorkerTypeOK
      <3>4. QED
        BY <2>2, <3>2, <3>3
    <2>5. a # "error"
      BY <1>0, <2>1, SpendGrows DEF AcquireLock, MAX_RETRIES
    <2>6. QED
      BY <2>3, <2>4, <2>5
  <1>2. CASE CacheHit(w) \/ Process(w)
    BY <1>2 DEF CacheHit, Process, redisVars, progressVars, counted
  <1>3. CASE StoreResults(w)
    <2>1. PICK o \in WriteOutcomes : AddResults(j, u, o)
      BY <1>3 DEF StoreResults, j, u
    <2>2. QED
      BY <1>3, <2>1 DEF StoreResults, AddResults, progressVars, counted
  <1>4. CASE StoreOperations(w)
    <2>1. PICK o \in WriteOutcomes : AddOperations(j, u, o)
      BY <1>4 DEF StoreOperations, j, u
    <2>2. QED
      BY <1>4, <2>1 DEF StoreOperations, AddOperations, progressVars, counted
  <1>5. CASE CountOk(w)
    <2>1. PICK o \in Outcomes :
            /\ IncrementCounters(j, 1, 0, o)
            /\ countedOk' = [countedOk EXCEPT ![j] = Applied(o, @ \cup {task[w]}, @)]
            /\ Step(w, IF o.ok THEN "readJob" ELSE "nack")
      BY <1>5 DEF CountOk, j
    <2>2. o.ok /\ o.applied = 1
      BY <1>0, <2>1, CalmOutcome DEF IncrementCounters
    <2>3. meta'[j].succeeded = meta[j].succeeded + 1 /\ meta'[j].failed = meta[j].failed + 0
      BY <1>0, <2>1, <2>2, IncrementWrites
    <2>4. meta[j].failed + 0 = meta[j].failed
      BY <1>0 DEF Meta
    <2>5. work'[w] = "readJob"
      BY <2>1, <2>2 DEF TypeOK, WorkerTypeOK
    <2>6. locks' = locks
      BY <2>1 DEF IncrementCounters
    <2>7. countedOk' = [countedOk EXCEPT ![j] = @ \cup {task[w]}]
      BY <2>1, <2>2 DEF Applied
    <2>8. QED
      BY <1>5, <2>3, <2>4, <2>5, <2>6, <2>7 DEF CountOk
  <1>6. CASE CountFailed(w)
    <2>1. PICK o \in Outcomes :
            /\ IncrementCounters(j, 0, 1, o)
            /\ countedBad' = [countedBad EXCEPT ![j] = Applied(o, @ \cup {task[w]}, @)]
            /\ Step(w, IF o.ok THEN "readJob" ELSE "nack")
      BY <1>6 DEF CountFailed, j
    <2>2. o.ok /\ o.applied = 1
      BY <1>0, <2>1, CalmOutcome DEF IncrementCounters
    <2>3. meta'[j].succeeded = meta[j].succeeded + 0 /\ meta'[j].failed = meta[j].failed + 1
      BY <1>0, <2>1, <2>2, IncrementWrites
    <2>4. meta[j].succeeded + 0 = meta[j].succeeded
      BY <1>0 DEF Meta
    <2>5. work'[w] = "readJob"
      BY <2>1, <2>2 DEF TypeOK, WorkerTypeOK
    <2>6. locks' = locks
      BY <2>1 DEF IncrementCounters
    <2>7. countedBad' = [countedBad EXCEPT ![j] = @ \cup {task[w]}]
      BY <2>1, <2>2 DEF Applied
    <2>8. QED
      BY <1>6, <2>3, <2>4, <2>5, <2>6, <2>7 DEF CountFailed
  <1>7. CASE CheckProgress(w) \/ ReadResults(w)
    BY <1>7 DEF CheckProgress, ReadResults, counted, TypeOK, WorkerTypeOK
  <1>8. CASE Complete(w)
    <2>1. PICK o \in WriteOutcomes : UpdateJobStatus(j, FinalStatus(w), o)
      BY <1>8 DEF Complete, j
    <2>2. meta'[j].succeeded = meta[j].succeeded /\ meta'[j].failed = meta[j].failed
      BY <1>0, <2>1, WithStatusType DEF UpdateJobStatus, Applied, FinalStatus, Statuses,
         TypeOK, RedisTypeOK
    <2>3. QED
      BY <1>8, <2>1, <2>2 DEF Complete, UpdateJobStatus, progressVars, counted, TypeOK,
         WorkerTypeOK
  <1>9. CASE Finalise(w)
    <2>1. PICK o \in WriteOutcomes : MarkFinal(j, o)
      BY <1>9 DEF Finalise, j
    <2>2. meta'[j].succeeded = meta[j].succeeded /\ meta'[j].failed = meta[j].failed
      BY <1>0, <2>1, AsFinalType DEF MarkFinal, Applied, TypeOK, RedisTypeOK
    <2>3. QED
      BY <1>9, <2>1, <2>2 DEF Finalise, MarkFinal, progressVars, counted, TypeOK,
         WorkerTypeOK
  <1>10. CASE SaveSnapshot(w)
    BY <1>10 DEF SaveSnapshot, redisVars, counted, TypeOK, WorkerTypeOK
  <1>11. CASE Ack(w) \/ Nack(w)
    BY <1>11 DEF Ack, Nack, Free, redisVars, counted, TypeOK, WorkerTypeOK
  <1>12. QED
    BY <1>1, <1>2, <1>3, <1>4, <1>5, <1>6, <1>7, <1>8, <1>9, <1>10, <1>11 DEF TaskStep

----------------------------------------------------------------------------
(* LockInv is invariant.                                                   *)

LEMMA LockInit == Init => LockInv
  <1> SUFFICES ASSUME Init PROVE LockInv
    OBVIOUS
  <1>1. \A j \in Requests : /\ Counted(j) = {} /\ countedOk[j] = {} /\ countedBad[j] = {}
                            /\ meta[j].succeeded = 0 /\ meta[j].failed = 0
    BY DEF Init, RedisInit, WorkerInit, Counted, EmptyMeta
  <1>2. CountersExact
    BY <1>1, FS_EmptySet DEF CountersExact
  <1>3. HoldersExclusive
    BY DEF Init, WorkerInit, HoldersExclusive, Holds, Holding
  <1>4. CountedLocked
    BY <1>1 DEF CountedLocked
  <1>5. QED
    BY <1>2, <1>3, <1>4 DEF LockInv

\* A step that takes no lock and counts nothing.
LEMMA QuietKeepsLocks ==
    ASSUME LockInv,
           \A j \in Requests : Undisturbed(j)' =>
               /\ Undisturbed(j)
               /\ locks'[j] = locks[j]
               /\ countedOk'[j] = countedOk[j] /\ countedBad'[j] = countedBad[j]
               /\ meta'[j].succeeded = meta[j].succeeded
               /\ meta'[j].failed = meta[j].failed,
           \A w \in Workers :
               work'[w] \in Holding => work[w] \in Holding /\ task'[w] = task[w]
    PROVE  LockInv'
  <1>1. \A w \in Workers, j \in Requests : Holds(w, j)' => Holds(w, j) /\ task'[w] = task[w]
    BY DEF Holds
  <1>2. \A j \in Requests : Undisturbed(j)' => Counted(j)' = Counted(j)
    BY DEF Counted
  <1>3. HoldersExclusive'
    BY <1>1, <1>2 DEF LockInv, HoldersExclusive
  <1>4. CountedLocked'
    BY <1>2 DEF LockInv, CountedLocked
  <1>5. CountersExact'
    BY <1>2 DEF LockInv, CountersExact
  <1>6. QED
    BY <1>3, <1>4, <1>5 DEF LockInv

\* Nobody holds the lock that is free, so its taker is alone, and nobody has
\* counted the unit, so neither has the taker.
LEMMA TakesKeepsLocks ==
    ASSUME TypeOK, LockInv, NEW w \in Workers, TaskStep(w), Takes(w, task[w].job),
           \A k \in Requests : Undisturbed(k)' => Undisturbed(k)
    PROVE  LockInv'
  <1> DEFINE j == task[w].job
             u == UnitOf(task[w])
  <1>1. j \in Requests /\ work[w] # "idle" /\ TouchesOnly(w, j)
    BY TaskTouches
  <1>2. /\ task'[w] = task[w] /\ u \notin locks[j]
        /\ locks' = [locks EXCEPT ![j] = @ \cup {u}]
        /\ UNCHANGED <<countedOk, countedBad>>
    BY <1>1 DEF Takes, SameCounts, TouchesOnly
  <1>3. \A k \in Requests : meta'[k].succeeded = meta[k].succeeded
                           /\ meta'[k].failed = meta[k].failed
    BY <1>1 DEF Takes, SameCounts, TouchesOnly
  <1>4. \A k \in Requests : locks[k] \subseteq locks'[k] /\ Counted(k)' = Counted(k)
    BY <1>2 DEF Counted, TypeOK, RedisTypeOK
  <1>5. \A v \in Workers \ {w} : work'[v] = work[v] /\ task'[v] = task[v]
    BY <1>1 DEF TouchesOnly
  <1>6. u \in locks'[j]
    BY <1>1, <1>2 DEF TypeOK, RedisTypeOK
  <1> HIDE DEF u
  <1>7. HoldersExclusive'
    <2> SUFFICES ASSUME NEW v \in Workers, NEW k \in Requests, Undisturbed(k)', Holds(v, k)'
                 PROVE  /\ UnitOf(task'[v]) \in locks'[k]
                        /\ \A m \in Counted(k)' : UnitOf(m) # UnitOf(task'[v])
                        /\ \A x \in Workers \ {v} :
                             Holds(x, k)' => UnitOf(task'[x]) # UnitOf(task'[v])
      BY DEF HoldersExclusive
    <2>0. Undisturbed(k)
      OBVIOUS
    <2>1. CASE v = w
      <3>1. k = j /\ UnitOf(task'[v]) = u
        BY <1>2, <2>1 DEF Holds, u
      <3>2. \A m \in Counted(k)' : UnitOf(m) # u
        BY <1>2, <1>4, <2>0, <3>1 DEF LockInv, CountedLocked
      <3>3. ASSUME NEW x \in Workers \ {v}, Holds(x, k)' PROVE UnitOf(task'[x]) # u
        <4>1. Holds(x, k) /\ task'[x] = task[x]
          BY <1>5, <2>1, <3>3 DEF Holds
        <4>2. UnitOf(task[x]) \in locks[k]
          BY <2>0, <4>1 DEF LockInv, HoldersExclusive
        <4>3. QED
          BY <1>2, <3>1, <4>1, <4>2
      <3>4. QED
        BY <1>6, <3>1, <3>2, <3>3
    <2>2. CASE v # w
      <3>1. Holds(v, k) /\ task'[v] = task[v]
        BY <1>5, <2>2 DEF Holds
      <3>2. UnitOf(task[v]) \in locks[k] /\ \A m \in Counted(k) : UnitOf(m) # UnitOf(task[v])
        BY <2>0, <3>1 DEF LockInv, HoldersExclusive
      <3>3. ASSUME NEW x \in Workers \ {v}, Holds(x, k)'
            PROVE  UnitOf(task'[x]) # UnitOf(task[v])
        <4>1. CASE x = w
          <5>1. k = j /\ UnitOf(task'[x]) = u
            BY <1>2, <3>3, <4>1 DEF Holds, u
          <5>2. QED
            BY <1>2, <3>2, <5>1
        <4>2. CASE x # w
          <5>1. Holds(x, k) /\ task'[x] = task[x]
            BY <1>5, <3>3, <4>2 DEF Holds
          <5>2. QED
            BY <2>0, <3>1, <5>1 DEF LockInv, HoldersExclusive
        <4>3. QED
          BY <4>1, <4>2
      <3>4. QED
        BY <1>4, <3>1, <3>2, <3>3
    <2>3. QED
      BY <2>1, <2>2
  <1>8. CountedLocked'
    BY <1>4 DEF LockInv, CountedLocked
  <1>9. CountersExact'
    BY <1>2, <1>3, <1>4 DEF LockInv, CountersExact
  <1>10. QED
    BY <1>7, <1>8, <1>9 DEF LockInv

\* A holder counts a message nobody has counted, so the counter that goes up by
\* one is that of a set that got one member more.
LEMMA CountsKeepsLocks ==
    ASSUME TypeOK, LockInv, NEW w \in Workers, NEW m \in Messages, NEW j \in Requests,
           m = task[w], j = m.job, TaskStep(w), Counts(w, j),
           \A k \in Requests : Undisturbed(k)' => Undisturbed(k)
    PROVE  LockInv'
  <1> DEFINE u == UnitOf(m)
  <1>1. j \in Requests /\ m \in MessagesOf(j) /\ TouchesOnly(w, j)
    BY TaskTouches, MessageJob
  <1>2. locks' = locks /\ work[w] \in Holding /\ work'[w] = "readJob"
    BY DEF Counts
  <1>3. \A v \in Workers, k \in Requests :
          Holds(v, k)' => v # w /\ Holds(v, k) /\ task'[v] = task[v]
    BY <1>1, <1>2 DEF Holds, Holding, TouchesOnly
  <1>4. \A k \in Requests \ {j} :
          /\ countedOk'[k] = countedOk[k] /\ countedBad'[k] = countedBad[k]
          /\ meta'[k] = meta[k]
    BY <1>1 DEF TouchesOnly
  <1>5. Counted(j)' = Counted(j) \cup {m}
    <2>1. /\ countedOk \in [Requests -> SUBSET Messages]
          /\ countedBad \in [Requests -> SUBSET Messages]
      BY DEF TypeOK, WorkerTypeOK
    <2>2. CASE countedOk' = [countedOk EXCEPT ![j] = @ \cup {m}] /\ UNCHANGED countedBad
      BY <1>1, <2>1, <2>2 DEF Counted
    <2>3. CASE countedBad' = [countedBad EXCEPT ![j] = @ \cup {m}] /\ UNCHANGED countedOk
      BY <1>1, <2>1, <2>3 DEF Counted
    <2>4. QED
      BY <2>2, <2>3 DEF Counts
  <1>6. \A k \in Requests \ {j} : Counted(k)' = Counted(k)
    BY <1>4 DEF Counted
  <1> HIDE DEF u
  <1>7. Undisturbed(j) => /\ u \in locks[j] /\ \A n \in Counted(j) : UnitOf(n) # u
                          /\ \A v \in Workers \ {w} : Holds(v, j) => UnitOf(task[v]) # u
    BY <1>1, <1>2 DEF LockInv, HoldersExclusive, Holds, u
  <1>8. HoldersExclusive'
    <2> SUFFICES ASSUME NEW v \in Workers, NEW k \in Requests, Undisturbed(k)', Holds(v, k)'
                 PROVE  /\ UnitOf(task'[v]) \in locks'[k]
                        /\ \A n \in Counted(k)' : UnitOf(n) # UnitOf(task'[v])
                        /\ \A x \in Workers \ {v} :
                             Holds(x, k)' => UnitOf(task'[x]) # UnitOf(task'[v])
      BY DEF HoldersExclusive
    <2>1. v # w /\ Holds(v, k) /\ task'[v] = task[v] /\ Undisturbed(k)
      BY <1>3
    <2>2. /\ UnitOf(task[v]) \in locks[k]
          /\ \A n \in Counted(k) : UnitOf(n) # UnitOf(task[v])
          /\ \A x \in Workers \ {v} : Holds(x, k) => UnitOf(task[x]) # UnitOf(task[v])
      BY <2>1 DEF LockInv, HoldersExclusive
    <2>3. \A n \in Counted(k)' : UnitOf(n) # UnitOf(task[v])
      <3>1. CASE k = j
        BY <1>5, <1>7, <2>1, <2>2, <3>1 DEF u
      <3>2. CASE k # j
        BY <1>6, <2>2, <3>2
      <3>3. QED
        BY <3>1, <3>2
    <2>4. \A x \in Workers \ {v} : Holds(x, k)' => UnitOf(task'[x]) # UnitOf(task[v])
      BY <1>3, <2>2
    <2>5. QED
      BY <1>2, <2>1, <2>2, <2>3, <2>4
  <1>9. CountedLocked'
    <2> SUFFICES ASSUME NEW k \in Requests, Undisturbed(k)', NEW n \in Counted(k)'
                 PROVE  UnitOf(n) \in locks[k]
      BY <1>2 DEF CountedLocked
    <2>1. CASE n \in Counted(k)
      BY <2>1 DEF LockInv, CountedLocked
    <2>2. CASE n \notin Counted(k)
      <3>1. k = j /\ n = m
        BY <1>5, <1>6, <2>2
      <3>2. QED
        BY <1>7, <3>1 DEF u
    <2>3. QED
      BY <2>1, <2>2
  <1>10. CountersExact'
    <2> SUFFICES ASSUME NEW k \in Requests, Undisturbed(k)'
                 PROVE  /\ meta'[k].succeeded = Cardinality(countedOk'[k])
                        /\ meta'[k].failed = Cardinality(countedBad'[k])
                        /\ countedOk'[k] \cap countedBad'[k] = {}
                        /\ Counted(k)' \subseteq MessagesOf(k)
      BY DEF CountersExact
    <2>1. /\ Undisturbed(k)
          /\ meta[k].succeeded = Cardinality(countedOk[k])
          /\ meta[k].failed = Cardinality(countedBad[k])
          /\ countedOk[k] \cap countedBad[k] = {}
          /\ Counted(k) \subseteq MessagesOf(k)
      BY DEF LockInv, CountersExact
    <2>2. CASE k # j
      BY <1>4, <1>6, <2>1, <2>2
    <2>3. CASE k = j
      <3>1. m \notin countedOk[j] /\ m \notin countedBad[j]
        BY <1>7, <2>1, <2>3 DEF Counted, u
      <3>2. IsFiniteSet(countedOk[j]) /\ IsFiniteSet(countedBad[j])
        BY <2>1, <2>3, MessagesFinite, FS_Subset DEF Counted
      <3>3. /\ Cardinality(countedOk[j] \cup {m}) = Cardinality(countedOk[j]) + 1
            /\ Cardinality(countedBad[j] \cup {m}) = Cardinality(countedBad[j]) + 1
        BY <3>1, <3>2, FS_AddElement
      <3>4. Counted(j)' \subseteq MessagesOf(j)
        BY <1>1, <1>5, <2>1, <2>3
      <3>5. \/ /\ countedOk'[j] = countedOk[j] \cup {m} /\ countedBad'[j] = countedBad[j]
               /\ meta'[j].succeeded = meta[j].succeeded + 1
               /\ meta'[j].failed = meta[j].failed
            \/ /\ countedBad'[j] = countedBad[j] \cup {m} /\ countedOk'[j] = countedOk[j]
               /\ meta'[j].failed = meta[j].failed + 1
               /\ meta'[j].succeeded = meta[j].succeeded
        BY <1>1 DEF Counts, TypeOK, WorkerTypeOK
      <3>6. QED
        BY <2>1, <2>3, <3>1, <3>3, <3>4, <3>5
    <2>4. QED
      BY <2>2, <2>3
  <1>11. QED
    BY <1>8, <1>9, <1>10 DEF LockInv

LEMMA HandlerKeepsLocks ==
    ASSUME TypeOK, Provenance, LockInv, NEW r \in Requests, HandlerStep(r),
           UNCHANGED <<workerVars, expired>>,
           \A k \in Requests : Undisturbed(k)' => Undisturbed(k)
    PROVE  LockInv'
  <1>1. HandlerTouches(r) /\ UNCHANGED <<work, task, countedOk, countedBad>>
    BY HandlerEffects DEF workerVars, progressVars, counted
  <1>2. ASSUME NEW k \in Requests
        PROVE  meta'[k].succeeded = meta[k].succeeded /\ meta'[k].failed = meta[k].failed
    <2>1. CASE Fresh(k)
      BY <2>1 DEF Fresh, NewMeta, Provenance, CreatedJobs, Untouched, EmptyMeta
    <2>2. CASE Restated(k)
      BY <2>2, WithStatusType DEF Restated, Statuses, TypeOK, RedisTypeOK
    <2>3. QED
      BY <1>1, <2>1, <2>2 DEF HandlerTouches
  <1>3. QED
    BY <1>1, <1>2, QuietKeepsLocks DEF HandlerTouches

LEMMA TaskKeepsLocks ==
    ASSUME TypeOK, LockInv, NEW w \in Workers, TaskStep(w),
           \A k \in Requests : Undisturbed(k)' => Undisturbed(k)
    PROVE  LockInv'
  <1>1. PICK m \in Messages, j \in Requests : m = task[w] /\ j = m.job
    BY TaskTouches
  <1>2. TouchesOnly(w, j)
    BY <1>1, TaskTouches
  <1>3. CASE faults' = 0
    <2>1. CASE Takes(w, j)
      BY <1>1, <2>1, TakesKeepsLocks
    <2>2. CASE Counts(w, j)
      BY <1>1, <2>2, CountsKeepsLocks
    <2>3. CASE GoesOn(w, j)
      <3>1. \A k \in Requests :
              /\ countedOk'[k] = countedOk[k] /\ countedBad'[k] = countedBad[k]
              /\ meta'[k].succeeded = meta[k].succeeded /\ meta'[k].failed = meta[k].failed
              /\ locks'[k] = locks[k]
        BY <1>2, <2>3 DEF GoesOn, SameCounts, TouchesOnly
      <3>2. \A v \in Workers :
              work'[v] \in Holding => work[v] \in Holding /\ task'[v] = task[v]
        BY <1>2, <2>3 DEF GoesOn, TouchesOnly, Holding
      <3>3. QED
        BY <3>1, <3>2, QuietKeepsLocks
    <2>4. QED
      BY <1>1, <1>3, <2>1, <2>2, <2>3, CalmTask
  <1>4. CASE faults' # 0
    BY <1>4 DEF Undisturbed, LockInv, HoldersExclusive, CountedLocked, CountersExact
  <1>5. QED
    BY <1>3, <1>4

LEMMA LockNext == TypeOK /\ Provenance /\ LockInv /\ [Next]_vars => LockInv'
  <1> SUFFICES ASSUME TypeOK, Provenance, LockInv, [Next]_vars PROVE LockInv'
    OBVIOUS
  <1>0. \A k \in Requests : Undisturbed(k)' => Undisturbed(k)
    BY UndisturbedBefore
  <1>1. ASSUME NEW r \in Requests, Handler(r) PROVE LockInv'
    BY <1>0, <1>1, HandlerKeepsLocks DEF Handler
  <1>2. ASSUME NEW w \in Workers, Task(w) PROVE LockInv'
    <2>1. CASE TaskStep(w)
      BY <1>0, <2>1, TaskKeepsLocks
    <2>2. ASSUME NEW m \in Messages, Deliver(w, m) PROVE LockInv'
      <3>1. UNCHANGED <<meta, locks, countedOk, countedBad>>
        BY <2>2 DEF Deliver, redisVars, progressVars, counted
      <3>2. \A v \in Workers :
              work'[v] \in Holding => work[v] \in Holding /\ task'[v] = task[v]
        BY <2>2 DEF Deliver, Step, Holding, TypeOK, WorkerTypeOK
      <3>3. QED
        BY <1>0, <3>1, <3>2, QuietKeepsLocks
    <2>3. QED
      BY <1>2, <2>1, <2>2 DEF Task, WorkerStep
  <1>3. ASSUME NEW r \in Requests, Disconnect(r), UNCHANGED <<workerVars, expired>>
        PROVE  LockInv'
    BY <1>0, <1>3, QuietKeepsLocks DEF Disconnect, redisVars, workerVars, progressVars,
       counted
  <1>4. ASSUME NEW w \in Workers, Crash(w) \/ LoseChannel(w),
               UNCHANGED <<startVars, expired>>
        PROVE  LockInv'
    <2>1. UNCHANGED <<meta, locks, countedOk, countedBad>>
      BY <1>4 DEF Crash, LoseChannel, Free, redisVars, progressVars, counted
    <2>2. \A v \in Workers :
            work'[v] \in Holding => work[v] \in Holding /\ task'[v] = task[v]
      BY <1>4 DEF Crash, LoseChannel, Free, Step, Holding, TypeOK, WorkerTypeOK
    <2>3. QED
      BY <1>0, <2>1, <2>2, QuietKeepsLocks
  <1>5. ASSUME NEW j \in Requests, Expire(j) PROVE LockInv'
    <2>1. /\ \A k \in Requests \ {j} : meta'[k] = meta[k] /\ locks'[k] = locks[k]
          /\ UNCHANGED <<work, task, countedOk, countedBad>>
          /\ ~Undisturbed(j)'
      BY <1>5 DEF Expire, workerVars, progressVars, counted, Undisturbed
    <2>2. QED
      BY <1>0, <2>1, QuietKeepsLocks
  <1>6. CASE UNCHANGED vars
    BY <1>0, <1>6, QuietKeepsLocks DEF vars, redisVars, workerVars, progressVars, counted
  <1>7. QED
    BY <1>1, <1>2, <1>3, <1>4, <1>5, <1>6 DEF Next, Environment

----------------------------------------------------------------------------
(* The counters are exact, and completion is earned.                       *)

Inv == TypeOK /\ Provenance /\ Progress /\ LockInv

LEMMA InvAlways == Spec => []Inv
  <1>1. Init => Inv
    BY TypeInit, ProvenanceInit, ProgressInit, LockInit DEF Inv
  <1>2. Inv /\ [Next]_vars => Inv'
    BY TypeNext, ProvenanceNext, ProgressNext, LockNext DEF Inv
  <1>3. QED
    BY <1>1, <1>2, PTL DEF Spec

\* Until something fails, a job's counters are the numbers of messages counted
\* as succeeded and failed, each message once: the processing lock admits one
\* task per unit, however often the broker delivers.
THEOREM CountersExactAlways == Spec => []CountersExact
  <1>1. Inv => CountersExact
    BY DEF Inv, LockInv
  <1>2. QED
    BY <1>1, InvAlways, PTL

\* A job whose counters have reached the total has counted every message.
LEMMA ProcessedMeansAll ==
    ASSUME Inv, NEW j \in Requests, Undisturbed(j), meta[j].exists, AllProcessed(meta[j])
    PROVE  Counted(j) = MessagesOf(j)
  <1>1. /\ meta[j].succeeded = Cardinality(countedOk[j])
        /\ meta[j].failed = Cardinality(countedBad[j])
        /\ countedOk[j] \cap countedBad[j] = {}
        /\ Counted(j) \subseteq MessagesOf(j)
    BY DEF Inv, LockInv, CountersExact
  <1>2. meta[j].expected = Cardinality(MessagesOf(j))
    BY DEF Inv, Provenance, CreatedJobs, Undisturbed
  <1>3. IsFiniteSet(MessagesOf(j)) /\ Cardinality(MessagesOf(j)) \in Nat
    BY MessagesFinite
  <1>4. IsFiniteSet(countedOk[j]) /\ IsFiniteSet(countedBad[j])
    BY <1>1, <1>3, FS_Subset DEF Counted
  <1>5. Cardinality(Counted(j)) = Cardinality(countedOk[j]) + Cardinality(countedBad[j])
    <2>1. Cardinality(countedOk[j] \cap countedBad[j]) = 0
      BY <1>1, FS_EmptySet
    <2>2. Cardinality(countedOk[j]) \in Nat /\ Cardinality(countedBad[j]) \in Nat
      BY <1>4, FS_CardinalityType
    <2>3. Cardinality(countedOk[j] \cup countedBad[j]) =
            Cardinality(countedOk[j]) + Cardinality(countedBad[j])
              - Cardinality(countedOk[j] \cap countedBad[j])
      BY <1>4, FS_Union
    <2>4. QED
      BY <2>1, <2>2, <2>3 DEF Counted
  <1>6. Cardinality(Counted(j)) >= Cardinality(MessagesOf(j))
    BY <1>1, <1>2, <1>5 DEF AllProcessed
  <1>7. Cardinality(Counted(j)) =< Cardinality(MessagesOf(j))
        /\ (Cardinality(Counted(j)) = Cardinality(MessagesOf(j)) =>
              Counted(j) = MessagesOf(j))
    BY <1>1, <1>3, FS_Subset
  <1>8. Cardinality(Counted(j)) \in Nat
    BY <1>1, <1>3, FS_Subset, FS_CardinalityType
  <1>9. QED
    BY <1>3, <1>6, <1>7, <1>8

\* A job that was not created is not closed.
LEMMA ClosedExists ==
    ASSUME Inv, NEW j \in Requests, Undisturbed(j),
           meta[j].final \/ meta[j].status \in {"completed", "failed"}
    PROVE  meta[j].exists
  <1>1. j \in Created
    BY DEF Inv, Provenance, CreatedJobs, Untouched, EmptyMeta
  <1>2. QED
    BY <1>1 DEF Created, Undisturbed

\* Until something fails, a job is reported completed or failed, or marked
\* final, only when every message of it has been counted.
THEOREM CompletionEarnedAlways == Spec => []CompletionEarned
  <1>1. ASSUME Inv PROVE CompletionEarned
    <2> SUFFICES ASSUME NEW j \in Requests, Undisturbed(j),
                        meta[j].final \/ meta[j].status \in {"completed", "failed"}
                 PROVE  Counted(j) = MessagesOf(j)
      BY DEF CompletionEarned
    <2>1. AllProcessed(meta[j])
      BY <1>1 DEF Inv, Progress, CompletionCounted, Undisturbed
    <2>2. QED
      BY <1>1, <2>1, ClosedExists, ProcessedMeansAll
  <1>2. QED
    BY <1>1, InvAlways, PTL

=============================================================================
