--------------------------- MODULE AggregationSafety ---------------------------
(***************************************************************************)
(* The types and the safety properties of Aggregation hold, for every set  *)
(* of requests, account lists, workers and every bound on failures.        *)
(***************************************************************************)
EXTENDS AggregationInvariants, FiniteSetTheorems, TLAPS

----------------------------------------------------------------------------
(* Messages.                                                               *)

\* The messages of a job: their fields, and where they belong.
LEMMA MessageFacts ==
    ASSUME NEW r \in Requests, NEW m \in MessagesOf(r)
    PROVE  /\ m.job = r
           /\ m \in Messages
           /\ m \in MessagesOf(m.job)
           /\ UnitOf(m) \in Units
  BY DEF MessagesOf, Messages, Units, UnitsOf

LEMMA MessageJob ==
    ASSUME NEW m \in Messages
    PROVE  m.job \in Requests /\ m \in MessagesOf(m.job) /\ UnitOf(m) \in Units
  <1>1. PICK r \in Requests : m \in MessagesOf(r)
    BY DEF Messages
  <1>2. QED
    BY <1>1, MessageFacts

\* A job has finitely many messages, so its expected total is a number.
LEMMA MessagesFinite ==
    ASSUME NEW r \in Requests
    PROVE  IsFiniteSet(MessagesOf(r)) /\ Cardinality(MessagesOf(r)) \in Nat
  <1> DEFINE A == DOMAIN AccountsOf[r]
             C == DOMAIN ChainsOf[r]
             f == [p \in A \X C |-> [job |-> r, acct |-> p[1], chain |-> p[2]]]
             All == {f[p] : p \in A \X C}
  <1>1. IsFiniteSet(A) /\ IsFiniteSet(C)
    <2>1. A = 1..Len(AccountsOf[r]) /\ Len(AccountsOf[r]) \in Nat
      BY JobManagerAssumption
    <2>2. C = 1..Len(ChainsOf[r]) /\ Len(ChainsOf[r]) \in Nat
      BY JobManagerAssumption
    <2>3. QED
      BY <2>1, <2>2, FS_Interval
  <1>2. IsFiniteSet(A \X C)
    BY <1>1, FS_Product
  <1>3. IsFiniteSet(All)
    <2>1. f \in Surjection(A \X C, All)
      BY DEF Surjection
    <2>2. QED
      BY <1>2, <2>1, FS_Surjection
  <1>4. MessagesOf(r) \subseteq All
    <2> SUFFICES ASSUME NEW m \in MessagesOf(r) PROVE m \in All
      OBVIOUS
    <2>1. m \in [job : {r}, acct : A, chain : C]
      BY DEF MessagesOf
    <2>2. m = f[<<m.acct, m.chain>>] /\ <<m.acct, m.chain>> \in A \X C
      BY <2>1
    <2>3. QED
      BY <2>2
  <1>5. QED
    BY <1>3, <1>4, FS_Subset, FS_CardinalityType

----------------------------------------------------------------------------
(* Types.                                                                  *)

LEMMA MetaTypes ==
    /\ EmptyMeta \in Meta
    /\ \A r \in Requests : NewMeta(r) \in Meta
  BY MessagesFinite, JobManagerAssumption DEF EmptyMeta, NewMeta, Meta, Statuses

LEMMA TypeInit == Init => TypeOK
  <1> SUFFICES ASSUME Init PROVE TypeOK
    OBVIOUS
  <1>1. RedisTypeOK
    BY MetaTypes, JobManagerAssumption DEF Init, RedisInit, RedisTypeOK
  <1>2. BrokerTypeOK
    BY DEF Init, BrokerTypeOK
  <1>3. StartTypeOK
    <2>1. \A r \in Requests : MessagesOf(r) \in SUBSET Messages
      BY DEF Messages
    <2>2. QED
      BY <2>1, StartAssumption DEF Init, StartInit, StartTypeOK, ApiStates
  <1>4. WorkerTypeOK
    BY WorkerAssumption DEF Init, WorkerInit, WorkerTypeOK, WorkStates, NothingSeen,
       NeverSaved, Snapshot
  <1>5. QED
    BY <1>1, <1>2, <1>3, <1>4 DEF Init, TypeOK

LEMMA SpendType ==
    ASSUME RedisTypeOK, NEW n \in Nat, Spend(n)
    PROVE  faults' \in 0..MaxFaults
  BY JobManagerAssumption DEF RedisTypeOK, Spend

LEMMA CostType ==
    ASSUME NEW o \in Outcomes
    PROVE  Cost(o) \in Nat /\ o.applied \in Nat
  BY DEF Outcomes, Cost, MAX_RETRIES

LEMMA WriteOutcomeType == WriteOutcomes \subseteq Outcomes
  BY DEF WriteOutcomes

\* Each operation of JobManager keeps the types of the Redis state.
LEMMA CreateMetaType ==
    ASSUME RedisTypeOK, NEW r \in Requests, NEW o \in Outcomes, CreateMeta(r, o)
    PROVE  RedisTypeOK'
  <1>1. faults' \in 0..MaxFaults
    BY CostType, SpendType DEF CreateMeta
  <1>2. meta' \in [Requests -> Meta]
    BY MetaTypes DEF CreateMeta, RedisTypeOK, Applied
  <1>3. QED
    BY <1>1, <1>2 DEF CreateMeta, RedisTypeOK, Applied

LEMMA WriteIndexesType ==
    ASSUME RedisTypeOK, NEW r \in Requests, NEW o \in Outcomes, WriteIndexes(r, o)
    PROVE  RedisTypeOK'
  <1>1. faults' \in 0..MaxFaults
    BY CostType, SpendType DEF WriteIndexes
  <1>2. wgIndex' \in [Groups -> Requests \cup {NoJob}]
    BY JobManagerAssumption DEF WriteIndexes, RedisTypeOK, Applied
  <1>3. QED
    BY <1>1, <1>2 DEF WriteIndexes, RedisTypeOK

LEMMA WithStatusType ==
    ASSUME NEW job \in Meta, NEW status \in Statuses
    PROVE  /\ WithStatus(job, status) \in Meta
           /\ WithStatus(job, status).exists
           /\ WithStatus(job, status).status = status
           /\ WithStatus(job, status).expected = job.expected
           /\ WithStatus(job, status).succeeded = job.succeeded
           /\ WithStatus(job, status).failed = job.failed
           /\ WithStatus(job, status).final = job.final
  BY DEF WithStatus, Meta

LEMMA UpdateJobStatusType ==
    ASSUME RedisTypeOK, NEW j \in Requests, NEW status \in Statuses,
           NEW o \in Outcomes, UpdateJobStatus(j, status, o)
    PROVE  RedisTypeOK'
  <1>1. faults' \in 0..MaxFaults
    BY CostType, SpendType DEF UpdateJobStatus
  <1>2. meta' \in [Requests -> Meta]
    BY WithStatusType DEF UpdateJobStatus, RedisTypeOK, Applied
  <1>3. QED
    BY <1>1, <1>2 DEF UpdateJobStatus, RedisTypeOK, Applied

LEMMA AsFinalType ==
    ASSUME NEW job \in Meta
    PROVE  /\ AsFinal(job) \in Meta
           /\ AsFinal(job).exists
           /\ AsFinal(job).status = job.status
           /\ AsFinal(job).expected = job.expected
           /\ AsFinal(job).succeeded = job.succeeded
           /\ AsFinal(job).failed = job.failed
           /\ AsFinal(job).final
  BY DEF AsFinal, Meta

LEMMA MarkFinalType ==
    ASSUME RedisTypeOK, NEW j \in Requests, NEW o \in Outcomes, MarkFinal(j, o)
    PROVE  RedisTypeOK'
  <1>1. faults' \in 0..MaxFaults
    BY CostType, SpendType DEF MarkFinal
  <1>2. meta' \in [Requests -> Meta]
    BY AsFinalType DEF MarkFinal, RedisTypeOK, Applied
  <1>3. QED
    BY <1>1, <1>2 DEF MarkFinal, RedisTypeOK

LEMMA BumpedType ==
    ASSUME NEW job \in Meta, NEW s \in Nat, NEW f \in Nat
    PROVE  /\ Bumped(job, s, f) \in Meta
           /\ Bumped(job, s, f).exists
           /\ Bumped(job, s, f).status = job.status
           /\ Bumped(job, s, f).expected = job.expected
           /\ Bumped(job, s, f).succeeded = job.succeeded + s
           /\ Bumped(job, s, f).failed = job.failed + f
           /\ Bumped(job, s, f).final = job.final
  <1>1. job.succeeded + s \in Nat /\ job.failed + f \in Nat
    BY DEF Meta
  <1>2. QED
    BY <1>1 DEF Bumped, Meta

LEMMA IncrementCountersType ==
    ASSUME RedisTypeOK, NEW j \in Requests, NEW s \in Nat, NEW f \in Nat,
           NEW o \in Outcomes, IncrementCounters(j, s, f, o)
    PROVE  RedisTypeOK'
  <1>1. faults' \in 0..MaxFaults
    BY CostType, SpendType DEF IncrementCounters
  <1>2. meta' \in [Requests -> Meta]
    <2>1. meta[j] \in Meta
      BY DEF RedisTypeOK
    <2>2. s * o.applied \in Nat /\ f * o.applied \in Nat
      BY CostType
    <2>3. Bumped(meta[j], s * o.applied, f * o.applied) \in Meta
      BY <2>1, <2>2, BumpedType
    <2>4. QED
      BY <2>1, <2>3 DEF IncrementCounters, RedisTypeOK, Applied
  <1>3. QED
    BY <1>1, <1>2 DEF IncrementCounters, RedisTypeOK

LEMMA AddResultsType ==
    ASSUME RedisTypeOK, NEW j \in Requests, NEW u \in Units, NEW o \in Outcomes,
           AddResults(j, u, o) \/ AddOperations(j, u, o)
    PROVE  RedisTypeOK'
  <1>1. faults' \in 0..MaxFaults
    BY CostType, SpendType DEF AddResults, AddOperations
  <1>2. QED
    BY <1>1 DEF AddResults, AddOperations, RedisTypeOK, Applied

LEMMA AcquireLockType ==
    ASSUME RedisTypeOK, NEW j \in Requests, NEW u \in Units,
           NEW reply \in {"yes", "no", "error"}, AcquireLock(j, u, reply)
    PROVE  RedisTypeOK'
  <1>1. faults' \in 0..MaxFaults
    BY SpendType DEF AcquireLock, MAX_RETRIES
  <1>2. QED
    BY <1>1 DEF AcquireLock, RedisTypeOK

LEMMA PublishType ==
    ASSUME RedisTypeOK, BrokerTypeOK, NEW m \in Messages, NEW o \in PublishOutcomes,
           Publish(m, o)
    PROVE  faults' \in 0..MaxFaults /\ BrokerTypeOK'
  <1>1. PublishCost(o) \in Nat /\ o.copies \in Nat
    BY DEF PublishOutcomes, PublishCost, MAX_RETRIES
  <1>2. QED
    BY <1>1, SpendType DEF Publish, BrokerTypeOK

----------------------------------------------------------------------------
(* Types: every step of a handler.                                         *)

LEMMA HandlerType ==
    ASSUME TypeOK, NEW r \in Requests, HandlerStep(r)
    PROVE  RedisTypeOK' /\ BrokerTypeOK' /\ StartTypeOK'
  <1> USE DEF TypeOK
  <1>1. CASE ReadGroupIndex(r)
    <2>1. wgIndex[GroupOf[r]] \in Requests \cup {NoJob}
      BY <1>1, JobManagerAssumption DEF ReadGroupIndex, RedisTypeOK
    <2>2. QED
      BY <1>1, <2>1 DEF ReadGroupIndex, Goto, redisVars, RedisTypeOK, BrokerTypeOK,
         StartTypeOK, ApiStates
  <1>2. CASE ReadGroupJob(r)
    BY <1>2 DEF ReadGroupJob, Respond, Goto, redisVars, findVars, RedisTypeOK,
       BrokerTypeOK, StartTypeOK, ApiStates
  <1>3. CASE ReadActive(r)
    BY <1>3 DEF ReadActive, Goto, redisVars, RedisTypeOK, BrokerTypeOK, StartTypeOK,
       ApiStates
  <1>4. ASSUME NEW j \in Requests, DropInactive(r, j)
        PROVE  RedisTypeOK' /\ BrokerTypeOK' /\ StartTypeOK'
    <2>1. faults' \in 0..MaxFaults
      BY <1>4, SpendType DEF DropInactive
    <2>2. QED
      BY <1>4, <2>1 DEF DropInactive, Examined, RedisTypeOK, BrokerTypeOK, StartTypeOK
  <1>5. ASSUME NEW j \in Requests, SeeStale(r, j)
        PROVE  RedisTypeOK' /\ BrokerTypeOK' /\ StartTypeOK'
    <2>1. faults' \in 0..MaxFaults
      BY <1>5, SpendType DEF SeeStale
    <2>2. QED
      BY <1>5, <2>1 DEF SeeStale, Goto, RedisTypeOK, BrokerTypeOK, StartTypeOK, ApiStates
  <1>6. ASSUME NEW j \in Requests, SeeOther(r, j)
        PROVE  RedisTypeOK' /\ BrokerTypeOK' /\ StartTypeOK'
    <2>1. faults' \in 0..MaxFaults
      BY <1>6, SpendType DEF SeeOther
    <2>2. QED
      BY <1>6, <2>1 DEF SeeOther, Examined, RedisTypeOK, BrokerTypeOK, StartTypeOK
  <1>7. ASSUME NEW j \in Requests, SeeSame(r, j)
        PROVE  RedisTypeOK' /\ BrokerTypeOK' /\ StartTypeOK'
    BY <1>7 DEF SeeSame, Goto, redisVars, RedisTypeOK, BrokerTypeOK, StartTypeOK, ApiStates
  <1>8. CASE ExpireStale(r)
    <2>1. PICK set \in BOOLEAN, removed \in BOOLEAN :
            /\ Spend((IF set THEN 0 ELSE 1) + (IF removed THEN 0 ELSE 1))
            /\ meta' = IF set THEN [meta EXCEPT ![target[r]] = WithStatus(@, "timedOut")]
                       ELSE meta
            /\ active' = IF removed THEN active \ {target[r]} ELSE active
      BY <1>8 DEF ExpireStale
    <2>2. faults' \in 0..MaxFaults
      BY <2>1, SpendType
    <2>3. meta' \in [Requests -> Meta]
      BY <2>1, WithStatusType DEF RedisTypeOK, Statuses
    <2>4. active' \in SUBSET Requests
      BY <2>1 DEF RedisTypeOK
    <2>5. QED
      BY <1>8, <2>2, <2>3, <2>4 DEF ExpireStale, Examined, Goto, RedisTypeOK,
         BrokerTypeOK, StartTypeOK, ApiStates
  <1>9. CASE ReadJob(r)
    BY <1>9 DEF ReadJob, Respond, Goto, redisVars, findVars, RedisTypeOK,
       BrokerTypeOK, StartTypeOK, ApiStates
  <1>10. CASE NothingFound(r)
    BY <1>10 DEF NothingFound, Goto, redisVars, findVars, RedisTypeOK,
       BrokerTypeOK, StartTypeOK, ApiStates
  <1>11. CASE SearchFails(r)
    <2>1. faults' \in 0..MaxFaults
      BY <1>11, SpendType DEF SearchFails, MAX_RETRIES
    <2>2. QED
      BY <1>11, <2>1 DEF SearchFails, Goto, findVars, RedisTypeOK, BrokerTypeOK,
         StartTypeOK, ApiStates
  <1>12. CASE Create(r)
    <2>1. RedisTypeOK'
      BY <1>12, CreateMetaType, WriteOutcomeType DEF Create
    <2>2. QED
      BY <1>12, <2>1 DEF Create, Goto, findVars, BrokerTypeOK, StartTypeOK, ApiStates
  <1>13. CASE Index(r)
    <2>1. RedisTypeOK'
      BY <1>13, WriteIndexesType, WriteOutcomeType DEF Index
    <2>2. QED
      BY <1>13, <2>1 DEF Index, Goto, findVars, BrokerTypeOK, StartTypeOK, ApiStates
  <1>14. CASE PublishNext(r)
    <2>1. faults' \in 0..MaxFaults /\ BrokerTypeOK'
      BY <1>14, PublishType DEF PublishNext, StartTypeOK
    <2>2. QED
      BY <1>14, <2>1 DEF PublishNext, Goto, findVars, RedisTypeOK, StartTypeOK, ApiStates
  <1>15. CASE PublishDone(r)
    BY <1>15 DEF PublishDone, Goto, redisVars, findVars, RedisTypeOK,
       BrokerTypeOK, StartTypeOK, ApiStates
  <1>16. CASE SetProcessing(r)
    <2>1. RedisTypeOK'
      BY <1>16, UpdateJobStatusType, WriteOutcomeType DEF SetProcessing, Statuses
    <2>2. QED
      BY <1>16, <2>1 DEF SetProcessing, Respond, Goto, findVars, BrokerTypeOK,
         StartTypeOK, ApiStates
  <1>17. QED
    BY <1>1, <1>2, <1>3, <1>4, <1>5, <1>6, <1>7, <1>8, <1>9, <1>10, <1>11, <1>12,
       <1>13, <1>14, <1>15, <1>16 DEF HandlerStep, FindActiveJob

----------------------------------------------------------------------------
(* Types: every step of a worker task and of its environment.              *)

\* Giving a slot back.
LEMMA FreeType ==
    ASSUME WorkerTypeOK, NEW w \in Workers, Free(w),
           crashes' \in 0..MaxCrashes, redelivered' \in 0..MaxRedeliver
    PROVE  WorkerTypeOK'
  BY DEF Free, Step, counted, WorkerTypeOK, WorkStates, NothingSeen, Snapshot

LEMMA TaskType ==
    ASSUME TypeOK, NEW w \in Workers, TaskStep(w)
    PROVE  RedisTypeOK' /\ BrokerTypeOK' /\ WorkerTypeOK'
  <1> USE DEF TypeOK
  <1> DEFINE j == task[w].job
             u == UnitOf(task[w])
  <1>0. work[w] # "idle" => task[w] \in Messages /\ j \in Requests /\ u \in Units
    BY MessageJob DEF WorkerTypeOK
  <1> HIDE DEF j, u
  <1>1. CASE Lock(w)
    <2>1. PICK a \in {"yes", "no", "error"} : AcquireLock(j, u, a)
      BY <1>1 DEF Lock, j, u
    <2>2. RedisTypeOK'
      BY <1>0, <1>1, <2>1, AcquireLockType DEF Lock
    <2>3. QED
      BY <1>1, <2>2 DEF Lock, Step, progressVars, counted, BrokerTypeOK, WorkerTypeOK,
         WorkStates
  <1>2. CASE CacheHit(w)
    BY <1>2 DEF CacheHit, Step, redisVars, progressVars, counted, RedisTypeOK,
       BrokerTypeOK, WorkerTypeOK, WorkStates
  <1>3. CASE Process(w)
    <2>1. cache' \in SUBSET Units
      BY <1>0, <1>3 DEF Process, WorkerTypeOK, u
    <2>2. QED
      BY <1>3, <2>1 DEF Process, Step, redisVars, counted, RedisTypeOK, BrokerTypeOK,
         WorkerTypeOK, WorkStates
  <1>4. CASE StoreResults(w)
    <2>1. RedisTypeOK'
      BY <1>0, <1>4, AddResultsType, WriteOutcomeType DEF StoreResults, j, u
    <2>2. QED
      BY <1>4, <2>1 DEF StoreResults, Step, progressVars, counted, BrokerTypeOK,
         WorkerTypeOK, WorkStates
  <1>5. CASE StoreOperations(w)
    <2>1. RedisTypeOK'
      BY <1>0, <1>5, AddResultsType, WriteOutcomeType DEF StoreOperations, j, u
    <2>2. QED
      BY <1>5, <2>1 DEF StoreOperations, Step, progressVars, counted, BrokerTypeOK,
         WorkerTypeOK, WorkStates
  <1>6. CASE CountOk(w)
    <2>1. RedisTypeOK'
      BY <1>0, <1>6, IncrementCountersType DEF CountOk, j
    <2>2. countedOk' \in [Requests -> SUBSET Messages]
      BY <1>0, <1>6 DEF CountOk, Applied, WorkerTypeOK, j
    <2>3. QED
      BY <1>6, <2>1, <2>2 DEF CountOk, Step, BrokerTypeOK, WorkerTypeOK, WorkStates
  <1>7. CASE CountFailed(w)
    <2>1. RedisTypeOK'
      BY <1>0, <1>7, IncrementCountersType DEF CountFailed, j
    <2>2. countedBad' \in [Requests -> SUBSET Messages]
      BY <1>0, <1>7 DEF CountFailed, Applied, WorkerTypeOK, j
    <2>3. QED
      BY <1>7, <2>1, <2>2 DEF CountFailed, Step, BrokerTypeOK, WorkerTypeOK, WorkStates
  <1>8. CASE CheckProgress(w)
    <2>1. faults' \in 0..MaxFaults
      BY <1>8, SpendType DEF CheckProgress, MAX_RETRIES
    <2>2. meta[j] \in Meta
      BY <1>0, <1>8 DEF CheckProgress, RedisTypeOK
    <2> DEFINE s == [succeeded |-> meta[j].succeeded > 0, group |-> meta[j].group,
                     results |-> {}]
    <2>3. s \in Snapshot
      <3>1. (meta[j].succeeded > 0) \in BOOLEAN
        OBVIOUS
      <3>2. QED
        BY <2>2, <3>1, Zenon DEF Snapshot, Meta
    <2>4. seen' \in [Workers -> Snapshot]
      <3>1. seen' = [seen EXCEPT ![w] = s] \/ seen' = seen
        BY <1>8 DEF CheckProgress, j
      <3> HIDE DEF s
      <3>2. QED
        BY <2>3, <3>1 DEF WorkerTypeOK
    <2>5. QED
      BY <1>8, <2>1, <2>4 DEF CheckProgress, Step, counted, RedisTypeOK, BrokerTypeOK,
         WorkerTypeOK, WorkStates
  <1>9. CASE ReadResults(w)
    <2>1. faults' \in 0..MaxFaults
      BY <1>9, SpendType DEF ReadResults, MAX_RETRIES
    <2>2. results[j] \in SUBSET Units
      BY <1>0, <1>9 DEF ReadResults, RedisTypeOK
    <2>3. seen' \in [Workers -> Snapshot]
      BY <1>9, <2>2 DEF ReadResults, Snapshot, WorkerTypeOK, j
    <2>4. QED
      BY <1>9, <2>1, <2>3 DEF ReadResults, Step, counted, RedisTypeOK, BrokerTypeOK,
         WorkerTypeOK, WorkStates
  <1>10. CASE Complete(w)
    <2>1. FinalStatus(w) \in Statuses
      BY DEF FinalStatus, Statuses
    <2>2. RedisTypeOK'
      BY <1>0, <1>10, <2>1, UpdateJobStatusType, WriteOutcomeType DEF Complete, j
    <2>3. QED
      BY <1>10, <2>2 DEF Complete, Step, progressVars, counted, BrokerTypeOK,
         WorkerTypeOK, WorkStates
  <1>11. CASE Finalise(w)
    <2>1. RedisTypeOK'
      BY <1>0, <1>11, MarkFinalType, WriteOutcomeType DEF Finalise, j
    <2>2. QED
      BY <1>11, <2>1 DEF Finalise, Step, progressVars, counted, BrokerTypeOK,
         WorkerTypeOK, WorkStates
  <1>12. CASE SaveSnapshot(w)
    <2>1. [job |-> j, results |-> seen[w].results]
            \in [job : Requests \cup {NoJob}, results : SUBSET Units]
      BY <1>0, <1>12 DEF SaveSnapshot, WorkerTypeOK, Snapshot
    <2>2. daily' \in [Groups -> [job : Requests \cup {NoJob}, results : SUBSET Units]]
      BY <1>12, <2>1 DEF SaveSnapshot, WorkerTypeOK, j
    <2>3. QED
      BY <1>12, <2>2 DEF SaveSnapshot, Step, redisVars, counted, RedisTypeOK,
         BrokerTypeOK, WorkerTypeOK, WorkStates
  <1>13. CASE Ack(w)
    <2>1. WorkerTypeOK'
      BY <1>13, FreeType DEF Ack, WorkerTypeOK
    <2>2. QED
      BY <1>13, <2>1 DEF Ack, redisVars, RedisTypeOK, BrokerTypeOK
  <1>14. CASE Nack(w)
    <2>1. WorkerTypeOK'
      BY <1>14, FreeType DEF Nack, WorkerTypeOK
    <2>2. QED
      BY <1>14, <2>1 DEF Nack, Requeue, redisVars, RedisTypeOK, BrokerTypeOK
  <1>15. QED
    BY <1>1, <1>2, <1>3, <1>4, <1>5, <1>6, <1>7, <1>8, <1>9, <1>10, <1>11, <1>12,
       <1>13, <1>14 DEF TaskStep

LEMMA DeliverType ==
    ASSUME TypeOK, NEW w \in Workers, NEW m \in Messages, Deliver(w, m)
    PROVE  RedisTypeOK' /\ BrokerTypeOK' /\ WorkerTypeOK'
  <1>1. RedisTypeOK' /\ BrokerTypeOK'
    BY DEF Deliver, Take, redisVars, TypeOK, RedisTypeOK, BrokerTypeOK
  <1>2. WorkerTypeOK'
    BY DEF Deliver, Step, progressVars, counted, TypeOK, WorkerTypeOK, WorkStates
  <1>3. QED
    BY <1>1, <1>2

LEMMA LossType ==
    ASSUME TypeOK, NEW w \in Workers, Crash(w) \/ LoseChannel(w)
    PROVE  RedisTypeOK' /\ BrokerTypeOK' /\ WorkerTypeOK'
  <1>1. RedisTypeOK' /\ BrokerTypeOK'
    BY DEF Crash, LoseChannel, Requeue, redisVars, TypeOK, RedisTypeOK, BrokerTypeOK
  <1>2. CASE Crash(w)
    <2>1. crashes' \in 0..MaxCrashes /\ redelivered' \in 0..MaxRedeliver
      BY <1>2, WorkerAssumption DEF Crash, TypeOK, WorkerTypeOK
    <2>2. QED
      BY <1>1, <1>2, <2>1, FreeType DEF Crash, TypeOK
  <1>3. CASE LoseChannel(w)
    <2>1. redelivered' \in 0..MaxRedeliver
      BY <1>3, WorkerAssumption DEF LoseChannel, TypeOK, WorkerTypeOK
    <2>2. QED
      BY <1>1, <1>3, <2>1 DEF LoseChannel, progressVars, counted, TypeOK, WorkerTypeOK
  <1>4. QED
    BY <1>2, <1>3

LEMMA ExpireType ==
    ASSUME TypeOK, NEW j \in Requests, Expire(j)
    PROVE  TypeOK'
  <1>1. RedisTypeOK'
    BY MetaTypes DEF Expire, TypeOK, RedisTypeOK
  <1>2. BrokerTypeOK' /\ StartTypeOK' /\ WorkerTypeOK'
    BY DEF Expire, TypeOK, startVars, workerVars, progressVars, counted, BrokerTypeOK,
       StartTypeOK, WorkerTypeOK
  <1>3. QED
    BY <1>1, <1>2 DEF Expire, TypeOK

LEMMA TypeNext == TypeOK /\ [Next]_vars => TypeOK'
  <1> SUFFICES ASSUME TypeOK, [Next]_vars PROVE TypeOK'
    OBVIOUS
  <1>1. ASSUME UNCHANGED workerVars PROVE WorkerTypeOK'
    BY <1>1 DEF workerVars, progressVars, counted, TypeOK, WorkerTypeOK
  <1>2. ASSUME UNCHANGED startVars PROVE StartTypeOK'
    BY <1>2 DEF startVars, TypeOK, StartTypeOK
  <1>3. ASSUME NEW r \in Requests, Handler(r) PROVE TypeOK'
    BY <1>1, <1>3, HandlerType DEF Handler, TypeOK
  <1>4. ASSUME NEW w \in Workers, Task(w) PROVE TypeOK'
    BY <1>2, <1>4, TaskType, DeliverType DEF Task, WorkerStep, TypeOK
  <1>5. ASSUME NEW r \in Requests, Disconnect(r), UNCHANGED <<workerVars, expired>>
        PROVE  TypeOK'
    <2>1. StartTypeOK'
      BY <1>5, StartAssumption DEF Disconnect, Goto, findVars, TypeOK, StartTypeOK,
         ApiStates
    <2>2. RedisTypeOK' /\ BrokerTypeOK'
      BY <1>5 DEF Disconnect, redisVars, TypeOK, RedisTypeOK, BrokerTypeOK
    <2>3. QED
      BY <1>1, <1>5, <2>1, <2>2 DEF TypeOK
  <1>6. ASSUME NEW w \in Workers, Crash(w) \/ LoseChannel(w),
               UNCHANGED <<startVars, expired>>
        PROVE  TypeOK'
    BY <1>2, <1>6, LossType DEF TypeOK
  <1>7. CASE UNCHANGED vars
    <2>1. RedisTypeOK' /\ BrokerTypeOK'
      BY <1>7 DEF vars, redisVars, TypeOK, RedisTypeOK, BrokerTypeOK
    <2>2. QED
      BY <1>1, <1>2, <1>7, <2>1 DEF vars, TypeOK
  <1>8. QED
    BY <1>3, <1>4, <1>5, <1>6, <1>7, ExpireType DEF Next, Environment

\* Every variable keeps its type, whatever fails: in particular counters stay
\* numbers, and a task that is running always has a message of some request.
THEOREM TypeCorrect == Spec => []TypeOK
  BY TypeInit, TypeNext, PTL DEF Spec

----------------------------------------------------------------------------
(* Provenance                                                              *)

LEMMA ProvenanceInit == Init => Provenance
  <1> SUFFICES ASSUME Init PROVE Provenance
    OBVIOUS
  <1>1. Created = {}
    BY DEF Init, RedisInit, Created, EmptyMeta
  <1>2. HandlersCreateOnce
    BY <1>1 DEF Init, StartInit, HandlersCreateOnce, BeforeCreate, AfterCreate
  <1>3. NamedJobsCreated
    BY <1>1 DEF Init, RedisInit, StartInit, WorkerInit, NamedJobsCreated
  <1>4. CreatedJobs
    BY <1>1 DEF Init, RedisInit, WorkerInit, CreatedJobs, Untouched, EmptyMeta
  <1>5. QED
    BY <1>2, <1>3, <1>4 DEF Provenance

\* A step that leaves the hashes alone changes nothing about who was created.
LEMMA SameCreated ==
    ASSUME UNCHANGED <<meta, expired>>
    PROVE  Created' = Created
  BY DEF Created

LEMMA SameCreatedJobs ==
    ASSUME CreatedJobs, UNCHANGED <<meta, locks, counted, expired>>
    PROVE  CreatedJobs'
  BY DEF CreatedJobs, Created, Untouched, counted

\* Nor does one that writes to jobs that were created.
LEMMA TouchCreated ==
    ASSUME TypeOK, CreatedJobs, NEW j \in Created, UNCHANGED expired,
           \/ meta'[j] = meta[j]
           \/ meta'[j].exists /\ meta'[j].expected = meta[j].expected,
           \A k \in Requests \ {j} :
               /\ meta'[k] = meta[k] /\ locks'[k] = locks[k]
               /\ countedOk'[k] = countedOk[k] /\ countedBad'[k] = countedBad[k]
    PROVE  Created' = Created /\ CreatedJobs'
  <1>1. j \in Requests
    BY DEF Created, TypeOK
  <1>2. Created' = Created
    BY <1>1 DEF Created
  <1>3. CreatedJobs'
    BY <1>1, <1>2 DEF CreatedJobs, Untouched, Created
  <1>4. QED
    BY <1>2, <1>3

\* No search touches the messages, the tasks or the jobs of others.
LEMMA FindKeepsProvenance ==
    ASSUME TypeOK, Provenance, NEW r \in Requests, FindActiveJob(r),
           UNCHANGED <<workerVars, expired>>
    PROVE  Provenance'
  <1> USE DEF Provenance
  <1>0. UNCHANGED <<work, task, counted, expired>>
    BY DEF workerVars, progressVars
  <1>1. CASE ReadGroupIndex(r)
    <2>1. Created' = Created /\ CreatedJobs'
      BY <1>0, <1>1, SameCreated, SameCreatedJobs DEF ReadGroupIndex, redisVars
    <2>2. wgIndex[GroupOf[r]] \in Created \cup {NoJob}
      BY <1>1, JobManagerAssumption DEF ReadGroupIndex, NamedJobsCreated
    <2>3. NamedJobsCreated'
      BY <1>0, <1>1, <2>1, <2>2 DEF ReadGroupIndex, redisVars, NamedJobsCreated, TypeOK,
         StartTypeOK
    <2>4. HandlersCreateOnce'
      BY <1>1, <2>1 DEF ReadGroupIndex, Goto, HandlersCreateOnce, BeforeCreate,
         AfterCreate, TypeOK, StartTypeOK
    <2>5. QED
      BY <2>1, <2>3, <2>4
  <1>2. CASE ReadGroupJob(r) \/ ReadJob(r) \/ NothingFound(r) \/ SearchFails(r)
    <2>1. Created' = Created /\ CreatedJobs'
      BY <1>0, <1>2, SameCreated, SameCreatedJobs
         DEF ReadGroupJob, ReadJob, NothingFound, SearchFails, redisVars
    <2>2. NamedJobsCreated'
      BY <1>0, <1>2, <2>1 DEF ReadGroupJob, ReadJob, NothingFound, SearchFails, redisVars,
         findVars, NamedJobsCreated
    <2>3. HandlersCreateOnce'
      BY <1>2, <2>1 DEF ReadGroupJob, ReadJob, NothingFound, SearchFails, Respond, Goto,
         HandlersCreateOnce, BeforeCreate, AfterCreate, TypeOK, StartTypeOK
    <2>4. QED
      BY <2>1, <2>2, <2>3
  <1>3. CASE ReadActive(r)
    <2>1. Created' = Created /\ CreatedJobs'
      BY <1>0, <1>3, SameCreated, SameCreatedJobs DEF ReadActive, redisVars
    <2>2. NamedJobsCreated'
      BY <1>0, <1>3, <2>1 DEF ReadActive, redisVars, NamedJobsCreated, TypeOK, StartTypeOK
    <2>3. HandlersCreateOnce'
      BY <1>3, <2>1 DEF ReadActive, Goto, HandlersCreateOnce, BeforeCreate, AfterCreate,
         TypeOK, StartTypeOK
    <2>4. QED
      BY <2>1, <2>2, <2>3
  <1>4. ASSUME NEW j \in Requests,
               DropInactive(r, j) \/ SeeStale(r, j) \/ SeeOther(r, j) \/ SeeSame(r, j)
        PROVE  Provenance'
    <2>1. Created' = Created /\ CreatedJobs'
      BY <1>0, <1>4, SameCreated, SameCreatedJobs
         DEF DropInactive, SeeStale, SeeOther, SeeSame, redisVars
    <2>2. j \in Created
      BY <1>4 DEF DropInactive, SeeStale, SeeOther, SeeSame, NamedJobsCreated
    <2>3. UNCHANGED <<queue, wgIndex>> /\ active' \subseteq active
      BY <1>4 DEF DropInactive, SeeStale, SeeOther, SeeSame, redisVars
    <2>4. /\ candidates' \in {candidates, [candidates EXCEPT ![r] = @ \ {j}]}
          /\ target' \in {target, [target EXCEPT ![r] = j]}
      BY <1>4 DEF DropInactive, SeeStale, SeeOther, SeeSame, Examined
    <2>5. NamedJobsCreated'
      BY <1>0, <2>1, <2>2, <2>3, <2>4 DEF NamedJobsCreated, TypeOK, StartTypeOK
    <2>6. HandlersCreateOnce'
      BY <1>4, <2>1 DEF DropInactive, SeeStale, SeeOther, SeeSame, Goto, HandlersCreateOnce,
         BeforeCreate, AfterCreate, TypeOK, StartTypeOK
    <2>7. QED
      BY <2>1, <2>5, <2>6
  <1>5. CASE ExpireStale(r)
    <2>1. /\ meta' \in {meta, [meta EXCEPT ![target[r]] = WithStatus(@, "timedOut")]}
          /\ active' \subseteq active
          /\ UNCHANGED <<wgIndex, locks, queue, target, unsent>>
      BY <1>5 DEF ExpireStale
    <2>2. target[r] \in Created \cup {NoJob}
      BY DEF NamedJobsCreated
    <2>3. \A j \in Requests :
            \/ meta'[j] = meta[j]
            \/ j \in Created /\ meta'[j].exists /\ meta'[j].expected = meta[j].expected
      BY <2>1, <2>2, WithStatusType, JobManagerAssumption DEF TypeOK, RedisTypeOK, Statuses
    <2>4. Created' = Created
      BY <1>0, <2>3 DEF Created
    <2>5. CreatedJobs'
      BY <1>0, <2>1, <2>3, <2>4 DEF CreatedJobs, Untouched, counted, Created
    <2>6. NamedJobsCreated'
      BY <1>0, <1>5, <2>1, <2>4 DEF ExpireStale, Examined, NamedJobsCreated, TypeOK,
         StartTypeOK
    <2>7. HandlersCreateOnce'
      BY <1>5, <2>4 DEF ExpireStale, Goto, HandlersCreateOnce, BeforeCreate, AfterCreate,
         TypeOK, StartTypeOK
    <2>8. QED
      BY <2>5, <2>6, <2>7
  <1>6. QED
    BY <1>1, <1>2, <1>3, <1>4, <1>5 DEF FindActiveJob

\* Creating a job is the one step that makes a job exist, and it finds none.
LEMMA CreateKeepsProvenance ==
    ASSUME TypeOK, Provenance, NEW r \in Requests, Create(r),
           UNCHANGED <<workerVars, expired>>
    PROVE  Provenance'
  <1> USE DEF Provenance
  <1>0. UNCHANGED <<work, task, counted, expired>>
    BY DEF workerVars, progressVars
  <1>1. PICK o \in WriteOutcomes : /\ CreateMeta(r, o)
                                  /\ Goto(r, IF o.ok THEN "index" ELSE "error")
    BY DEF Create
  <1>2. r \notin Created /\ Untouched(r)
    BY DEF Create, HandlersCreateOnce, CreatedJobs, BeforeCreate
  <1>3. UNCHANGED <<wgIndex, locks, queue, candidates, target, unsent>>
    BY <1>1 DEF Create, CreateMeta, findVars
  <1>4. CASE o.applied = 0
    <2>1. UNCHANGED <<meta, active>> /\ ~o.ok
      BY <1>1, <1>4 DEF CreateMeta, Applied, WriteOutcomes, Outcomes, TypeOK, RedisTypeOK
    <2>2. Created' = Created /\ CreatedJobs'
      BY <1>0, <1>3, <2>1, SameCreated, SameCreatedJobs
    <2>3. QED
      BY <1>0, <1>1, <1>3, <2>1, <2>2 DEF Goto, NamedJobsCreated, HandlersCreateOnce,
         BeforeCreate, AfterCreate, TypeOK, StartTypeOK
  <1>5. CASE o.applied > 0
    <2>1. meta' = [meta EXCEPT ![r] = NewMeta(r)] /\ active' = active \cup {r}
      BY <1>1, <1>5 DEF CreateMeta, Applied
    <2>2. /\ meta'[r].exists /\ meta'[r].expected = Cardinality(MessagesOf(r))
          /\ \A k \in Requests \ {r} : meta'[k] = meta[k]
      BY <2>1 DEF NewMeta, TypeOK, RedisTypeOK
    <2>3. Created' = Created \cup {r}
      BY <1>0, <2>2 DEF Created
    <2>4. CreatedJobs'
      BY <1>0, <1>3, <2>2, <2>3 DEF CreatedJobs, Untouched, counted
    <2>5. NamedJobsCreated'
      BY <1>0, <1>3, <2>1, <2>3 DEF NamedJobsCreated
    <2>6. HandlersCreateOnce'
      BY <1>1, <1>3, <2>3 DEF Goto, HandlersCreateOnce, BeforeCreate, AfterCreate, TypeOK,
         StartTypeOK
    <2>7. QED
      BY <2>4, <2>5, <2>6
  <1>6. QED
    BY <1>4, <1>5 DEF WriteOutcomes

LEMMA PublishKeepsProvenance ==
    ASSUME TypeOK, Provenance, NEW r \in Requests,
           Index(r) \/ PublishNext(r) \/ PublishDone(r) \/ SetProcessing(r),
           UNCHANGED <<workerVars, expired>>
    PROVE  Provenance'
  <1> USE DEF Provenance
  <1>0. /\ UNCHANGED <<work, task, counted, expired, candidates, target>>
        /\ r \in Created
    BY DEF workerVars, progressVars, Index, PublishNext, PublishDone, SetProcessing,
       findVars, HandlersCreateOnce, AfterCreate
  <1>1. CASE Index(r)
    <2>1. PICK o \in WriteOutcomes : /\ WriteIndexes(r, o)
                                    /\ Goto(r, IF o.ok THEN "publish" ELSE "error")
      BY <1>1 DEF Index
    <2>2. Created' = Created /\ CreatedJobs'
      BY <1>0, <2>1, SameCreated, SameCreatedJobs DEF WriteIndexes
    <2>3. \A g \in Groups : wgIndex'[g] \in {wgIndex[g], r}
      BY <2>1 DEF WriteIndexes, Applied, TypeOK, RedisTypeOK
    <2>4. NamedJobsCreated'
      BY <1>0, <1>1, <2>1, <2>2, <2>3 DEF Index, WriteIndexes, NamedJobsCreated
    <2>5. HandlersCreateOnce'
      BY <1>0, <1>1, <2>1, <2>2 DEF Index, Goto, HandlersCreateOnce, BeforeCreate,
         AfterCreate, TypeOK, StartTypeOK
    <2>6. QED
      BY <2>2, <2>4, <2>5
  <1>2. CASE PublishNext(r)
    <2>1. PICK m \in unsent[r], o \in PublishOutcomes :
            /\ Publish(m, o)
            /\ unsent' = [unsent EXCEPT ![r] = @ \ {m}]
            /\ IF o.ok THEN UNCHANGED api ELSE Goto(r, "error")
      BY <1>2 DEF PublishNext
    <2>2. Created' = Created /\ CreatedJobs'
      BY <1>0, <1>2, SameCreated, SameCreatedJobs DEF PublishNext
    <2>3. m \in Messages /\ m.job = r
      BY MessageFacts DEF HandlersCreateOnce
    <2>4. \A n \in Messages \ {m} : queue'[n] = queue[n]
      BY <2>1 DEF Publish, TypeOK, BrokerTypeOK
    <2>5. NamedJobsCreated'
      BY <1>0, <1>2, <2>2, <2>3, <2>4 DEF PublishNext, NamedJobsCreated
    <2>6. HandlersCreateOnce'
      BY <1>2, <2>1, <2>2 DEF PublishNext, Goto, HandlersCreateOnce, BeforeCreate,
         AfterCreate, TypeOK, StartTypeOK
    <2>7. QED
      BY <2>2, <2>5, <2>6
  <1>3. CASE PublishDone(r)
    <2>1. Created' = Created /\ CreatedJobs'
      BY <1>0, <1>3, SameCreated, SameCreatedJobs DEF PublishDone, redisVars
    <2>2. NamedJobsCreated'
      BY <1>0, <1>3, <2>1 DEF PublishDone, redisVars, NamedJobsCreated
    <2>3. HandlersCreateOnce'
      BY <1>0, <1>3, <2>1 DEF PublishDone, Goto, HandlersCreateOnce, BeforeCreate,
         AfterCreate, TypeOK, StartTypeOK
    <2>4. QED
      BY <2>1, <2>2, <2>3
  <1>4. CASE SetProcessing(r)
    <2>1. PICK o \in WriteOutcomes :
            /\ UpdateJobStatus(r, "processing", o)
            /\ IF o.ok THEN Respond(r, r) ELSE Goto(r, "error") /\ UNCHANGED answer
      BY <1>4 DEF SetProcessing
    <2>2. meta' \in {meta, [meta EXCEPT ![r] = WithStatus(@, "processing")]}
      BY <2>1 DEF UpdateJobStatus, Applied, TypeOK, RedisTypeOK
    <2>3. UNCHANGED <<active, wgIndex, locks, queue, unsent>>
      BY <1>4, <2>1 DEF SetProcessing, UpdateJobStatus, Terminal
    <2>4. Created' = Created /\ CreatedJobs'
      BY <1>0, <2>2, <2>3, TouchCreated, WithStatusType
         DEF TypeOK, RedisTypeOK, Statuses, counted
    <2>5. NamedJobsCreated'
      BY <1>0, <2>3, <2>4 DEF NamedJobsCreated
    <2>6. HandlersCreateOnce'
      BY <1>4, <2>1, <2>3, <2>4 DEF SetProcessing, Respond, Goto, HandlersCreateOnce,
         BeforeCreate, AfterCreate, TypeOK, StartTypeOK
    <2>7. QED
      BY <2>4, <2>5, <2>6
  <1>5. QED
    BY <1>1, <1>2, <1>3, <1>4

----------------------------------------------------------------------------
(* What a step of a task may touch.                                        *)

\* A job hash that was written to: its total stands and its counters grow.
Grown(new, old) ==
    \/ new = old
    \/ /\ new.exists /\ new.expected = old.expected
       /\ new.succeeded >= old.succeeded /\ new.failed >= old.failed

\* A task writes to the job of its message only, and moves itself only.
TouchesOnly(w, j) ==
    /\ active' \subseteq active /\ UNCHANGED wgIndex
    /\ Grown(meta'[j], meta[j])
    /\ results[j] \subseteq results'[j]
    /\ \A k \in Requests \ {j} :
         /\ meta'[k] = meta[k] /\ locks'[k] = locks[k] /\ results'[k] = results[k]
         /\ countedOk'[k] = countedOk[k] /\ countedBad'[k] = countedBad[k]
    /\ \A v \in Workers \ {w} :
         work'[v] = work[v] /\ task'[v] = task[v] /\ seen'[v] = seen[v]
    /\ \/ UNCHANGED <<queue, task>>
       \/ work'[w] = "idle" /\ queue' \in {queue, [queue EXCEPT ![task[w]] = @ + 1]}

LEMMA StatusGrows ==
    ASSUME NEW job \in Meta, NEW status \in Statuses
    PROVE  Grown(WithStatus(job, status), job)
  <1>1. job.succeeded \in Nat /\ job.failed \in Nat
    BY DEF Meta
  <1>2. QED
    BY <1>1, WithStatusType DEF Grown

LEMMA FinalGrows ==
    ASSUME NEW job \in Meta
    PROVE  Grown(AsFinal(job), job)
  <1>1. job.succeeded \in Nat /\ job.failed \in Nat
    BY DEF Meta
  <1>2. QED
    BY <1>1, AsFinalType DEF Grown

LEMMA BumpGrows ==
    ASSUME NEW job \in Meta, NEW s \in Nat, NEW f \in Nat
    PROVE  Grown(Bumped(job, s, f), job)
  <1> DEFINE new == Bumped(job, s, f)
  <1>1. job.succeeded \in Nat /\ job.failed \in Nat
    BY DEF Meta
  <1>2. /\ new.exists /\ new.expected = job.expected
        /\ new.succeeded = job.succeeded + s /\ new.failed = job.failed + f
    BY BumpedType
  <1> HIDE DEF new
  <1>3. Grown(new, job)
    BY <1>1, <1>2 DEF Grown
  <1>4. QED
    BY <1>3 DEF new

LEMMA TaskTouches ==
    ASSUME TypeOK, NEW w \in Workers, TaskStep(w)
    PROVE  /\ work[w] # "idle"
           /\ task[w] \in Messages /\ task[w].job \in Requests
           /\ TouchesOnly(w, task[w].job)
  <1> DEFINE j == task[w].job
             u == UnitOf(task[w])
  <1>0. work[w] # "idle" /\ task[w] \in Messages /\ j \in Requests
    <2>1. work[w] # "idle"
      BY DEF TaskStep, Lock, CacheHit, Process, StoreResults, StoreOperations, CountOk,
         CountFailed, CheckProgress, ReadResults, Complete, Finalise, SaveSnapshot, Ack,
         Nack
    <2>2. QED
      BY <2>1, MessageJob DEF TypeOK, WorkerTypeOK
  <1>a. meta[j] \in Meta
    BY <1>0 DEF TypeOK, RedisTypeOK
  <1>b. \A x \in Meta : Grown(x, x)
    BY DEF Grown
  <1> HIDE DEF j, u
  <1> USE DEF TouchesOnly, Step, TypeOK, RedisTypeOK, WorkerTypeOK
  <1>1. CASE Lock(w)
    <2>1. PICK a \in {"yes", "no", "error"} : AcquireLock(j, u, a)
      BY <1>1 DEF Lock, j, u
    <2>2. QED
      BY <1>0, <1>1, <1>a, <1>b, <2>1 DEF Lock, AcquireLock, progressVars, counted, j
  <1>2. CASE CacheHit(w) \/ Process(w)
    BY <1>0, <1>2, <1>a, <1>b DEF CacheHit, Process, redisVars, progressVars, counted, j
  <1>3. CASE StoreResults(w)
    <2>1. PICK o \in WriteOutcomes : AddResults(j, u, o)
      BY <1>3 DEF StoreResults, j, u
    <2>2. QED
      BY <1>0, <1>3, <1>a, <1>b, <2>1
         DEF StoreResults, AddResults, Applied, progressVars, counted, j
  <1>4. CASE StoreOperations(w)
    <2>1. PICK o \in WriteOutcomes : AddOperations(j, u, o)
      BY <1>4 DEF StoreOperations, j, u
    <2>2. QED
      BY <1>0, <1>4, <1>a, <1>b, <2>1
         DEF StoreOperations, AddOperations, progressVars, counted, j
  <1>5. CASE CountOk(w)
    <2>1. PICK o \in Outcomes : IncrementCounters(j, 1, 0, o)
      BY <1>5 DEF CountOk, j
    <2>2. Grown(meta'[j], meta[j]) /\ \A k \in Requests \ {j} : meta'[k] = meta[k]
      BY <1>0, <1>a, <1>b, <2>1, CostType, BumpGrows DEF IncrementCounters, Applied
    <2>3. \A k \in Requests \ {j} : countedOk'[k] = countedOk[k]
      BY <1>5 DEF CountOk, j
    <2>4. QED
      BY <1>0, <1>5, <2>1, <2>2, <2>3 DEF CountOk, IncrementCounters, j
  <1>6. CASE CountFailed(w)
    <2>1. PICK o \in Outcomes : IncrementCounters(j, 0, 1, o)
      BY <1>6 DEF CountFailed, j
    <2>2. Grown(meta'[j], meta[j]) /\ \A k \in Requests \ {j} : meta'[k] = meta[k]
      BY <1>0, <1>a, <1>b, <2>1, CostType, BumpGrows DEF IncrementCounters, Applied
    <2>3. \A k \in Requests \ {j} : countedBad'[k] = countedBad[k]
      BY <1>6 DEF CountFailed, j
    <2>4. QED
      BY <1>0, <1>6, <2>1, <2>2, <2>3 DEF CountFailed, IncrementCounters, j
  <1>7. CASE CheckProgress(w) \/ ReadResults(w)
    BY <1>0, <1>7, <1>a, <1>b DEF CheckProgress, ReadResults, counted, j
  <1>8. CASE Complete(w)
    <2>1. PICK o \in WriteOutcomes : UpdateJobStatus(j, FinalStatus(w), o)
      BY <1>8 DEF Complete, j
    <2>2. FinalStatus(w) \in Statuses
      BY DEF FinalStatus, Statuses
    <2>3. Grown(meta'[j], meta[j]) /\ \A k \in Requests \ {j} : meta'[k] = meta[k]
      BY <1>0, <1>a, <1>b, <2>1, <2>2, StatusGrows DEF UpdateJobStatus, Applied
    <2>4. QED
      BY <1>0, <1>8, <2>1, <2>3 DEF Complete, UpdateJobStatus, Applied, progressVars,
         counted, j
  <1>9. CASE Finalise(w)
    <2>1. PICK o \in WriteOutcomes : MarkFinal(j, o)
      BY <1>9 DEF Finalise, j
    <2>2. Grown(meta'[j], meta[j]) /\ \A k \in Requests \ {j} : meta'[k] = meta[k]
      BY <1>0, <1>a, <1>b, <2>1, FinalGrows DEF MarkFinal, Applied
    <2>3. QED
      BY <1>0, <1>9, <2>1, <2>2 DEF Finalise, MarkFinal, progressVars, counted, j
  <1>10. CASE SaveSnapshot(w)
    BY <1>0, <1>10, <1>a, <1>b DEF SaveSnapshot, redisVars, counted, j
  <1>11. CASE Ack(w) \/ Nack(w)
    BY <1>0, <1>11, <1>a, <1>b DEF Ack, Nack, Free, Requeue, redisVars, counted, j
  <1>12. QED
    BY <1>0, <1>1, <1>2, <1>3, <1>4, <1>5, <1>6, <1>7, <1>8, <1>9, <1>10, <1>11
       DEF TaskStep, j

LEMMA TaskKeepsProvenance ==
    ASSUME TypeOK, Provenance, NEW w \in Workers, TaskStep(w),
           UNCHANGED <<startVars, expired>>
    PROVE  Provenance'
  <1> DEFINE j == task[w].job
  <1> USE DEF Provenance
  <1>1. work[w] # "idle" /\ task[w] \in Messages /\ j \in Requests /\ TouchesOnly(w, j)
    BY TaskTouches
  <1>2. j \in Created
    BY <1>1 DEF NamedJobsCreated
  <1>3. Created' = Created /\ CreatedJobs'
    BY <1>1, <1>2, TouchCreated DEF TouchesOnly, Grown
  <1>4. \A m \in Messages : queue'[m] > 0 => m.job \in Created
    BY <1>1, <1>2 DEF TouchesOnly, NamedJobsCreated, TypeOK, BrokerTypeOK
  <1>5. \A v \in Workers : work'[v] # "idle" => task'[v].job \in Created
    BY <1>1, <1>2 DEF TouchesOnly, NamedJobsCreated
  <1>6. NamedJobsCreated'
    BY <1>1, <1>3, <1>4, <1>5 DEF TouchesOnly, NamedJobsCreated, startVars
  <1>7. HandlersCreateOnce'
    BY <1>3 DEF HandlersCreateOnce, startVars
  <1>8. QED
    BY <1>3, <1>6, <1>7

----------------------------------------------------------------------------
(* Provenance is invariant.                                                *)

LEMMA DeliverKeepsProvenance ==
    ASSUME TypeOK, Provenance, NEW w \in Workers, NEW m \in Messages, Deliver(w, m),
           UNCHANGED <<startVars, expired>>
    PROVE  Provenance'
  <1> USE DEF Provenance
  <1>0. UNCHANGED <<redisVars, counted, startVars, expired>>
    BY DEF Deliver, progressVars
  <1>1. Created' = Created /\ CreatedJobs'
    BY <1>0, SameCreated, SameCreatedJobs DEF redisVars
  <1>2. \A n \in Messages : queue'[n] > 0 => queue[n] > 0
    BY DEF Deliver, Take, TypeOK, BrokerTypeOK
  <1>3. m.job \in Created
    BY DEF Deliver, Take, NamedJobsCreated
  <1>4. \A v \in Workers : work'[v] # "idle" => task'[v].job \in Created
    BY <1>3 DEF Deliver, Step, NamedJobsCreated, TypeOK, WorkerTypeOK
  <1>5. NamedJobsCreated'
    BY <1>0, <1>1, <1>2, <1>4 DEF NamedJobsCreated, redisVars, startVars
  <1>6. HandlersCreateOnce'
    BY <1>0, <1>1 DEF HandlersCreateOnce, startVars
  <1>7. QED
    BY <1>1, <1>5, <1>6

LEMMA EnvironmentKeepsProvenance ==
    ASSUME TypeOK, Provenance, Environment
    PROVE  Provenance'
  <1> USE DEF Provenance
  <1>1. ASSUME NEW r \in Requests, Disconnect(r), UNCHANGED <<workerVars, expired>>
        PROVE  Provenance'
    <2>1. Created' = Created /\ CreatedJobs'
      BY <1>1, SameCreated, SameCreatedJobs DEF Disconnect, redisVars, workerVars,
         progressVars
    <2>2. NamedJobsCreated'
      BY <1>1, <2>1 DEF Disconnect, findVars, redisVars, workerVars, NamedJobsCreated
    <2>3. HandlersCreateOnce'
      BY <1>1, <2>1 DEF Disconnect, Goto, HandlersCreateOnce, BeforeCreate, AfterCreate,
         TypeOK, StartTypeOK
    <2>4. QED
      BY <2>1, <2>2, <2>3
  <1>2. ASSUME NEW w \in Workers, Crash(w) \/ LoseChannel(w),
               UNCHANGED <<startVars, expired>>
        PROVE  Provenance'
    <2>1. Created' = Created /\ CreatedJobs'
      BY <1>2, SameCreated, SameCreatedJobs DEF Crash, LoseChannel, Free, redisVars,
         progressVars, counted
    <2>2. task[w] \in Messages /\ task[w].job \in Created
      BY <1>2 DEF Crash, LoseChannel, NamedJobsCreated, TypeOK, WorkerTypeOK
    <2>3. queue' \in {queue, [queue EXCEPT ![task[w]] = @ + 1]}
      BY <1>2 DEF Crash, LoseChannel, Requeue
    <2>4. \A n \in Messages : queue'[n] > 0 => n.job \in Created
      BY <2>2, <2>3 DEF NamedJobsCreated, TypeOK, BrokerTypeOK
    <2>5. \A v \in Workers : work'[v] # "idle" => work[v] # "idle" /\ task'[v] = task[v]
      BY <1>2 DEF Crash, LoseChannel, Free, Step, TypeOK, WorkerTypeOK
    <2>6. NamedJobsCreated'
      BY <1>2, <2>1, <2>4, <2>5 DEF NamedJobsCreated, Crash, LoseChannel, redisVars,
         startVars
    <2>7. HandlersCreateOnce'
      BY <1>2, <2>1 DEF HandlersCreateOnce, startVars
    <2>8. QED
      BY <2>1, <2>6, <2>7
  <1>3. ASSUME NEW j \in Requests, Expire(j)
        PROVE  Provenance'
    <2>1. /\ meta[j].exists /\ meta' = [meta EXCEPT ![j] = EmptyMeta]
          /\ expired' = expired \cup {j} /\ locks' = [locks EXCEPT ![j] = {}]
          /\ UNCHANGED <<active, queue, startVars, work, task, counted>>
      BY <1>3 DEF Expire, workerVars, progressVars
    <2>2. Created' = Created
      BY <2>1 DEF Created, TypeOK, RedisTypeOK
    <2>3. CreatedJobs'
      BY <2>1, <2>2 DEF CreatedJobs, Untouched, Created, counted, TypeOK, RedisTypeOK
    <2>4. NamedJobsCreated'
      BY <1>3, <2>1, <2>2 DEF Expire, NamedJobsCreated, startVars
    <2>5. HandlersCreateOnce'
      BY <2>1, <2>2 DEF HandlersCreateOnce, startVars
    <2>6. QED
      BY <2>3, <2>4, <2>5
  <1>4. QED
    BY <1>1, <1>2, <1>3 DEF Environment

LEMMA ProvenanceNext == TypeOK /\ Provenance /\ [Next]_vars => Provenance'
  <1> SUFFICES ASSUME TypeOK, Provenance, [Next]_vars PROVE Provenance'
    OBVIOUS
  <1>1. ASSUME NEW r \in Requests, Handler(r) PROVE Provenance'
    BY <1>1, FindKeepsProvenance, CreateKeepsProvenance, PublishKeepsProvenance
       DEF Handler, HandlerStep
  <1>2. ASSUME NEW w \in Workers, Task(w) PROVE Provenance'
    BY <1>2, TaskKeepsProvenance, DeliverKeepsProvenance DEF Task, WorkerStep
  <1>3. CASE UNCHANGED vars
    BY <1>3 DEF vars, redisVars, startVars, workerVars, progressVars, counted, Provenance,
       HandlersCreateOnce, NamedJobsCreated, CreatedJobs, Created, Untouched
  <1>4. QED
    BY <1>1, <1>2, <1>3, EnvironmentKeepsProvenance DEF Next

\* Whatever an index, a running search, the queue or a task names is a job that
\* its own handler created, and it is created once: nothing ever resets it.
THEOREM ProvenanceAlways == Spec => []Provenance
  <1>1. TypeOK /\ Provenance /\ [Next]_vars => (TypeOK /\ Provenance)'
    BY TypeNext, ProvenanceNext
  <1>2. QED
    BY <1>1, TypeInit, ProvenanceInit, PTL DEF Spec

----------------------------------------------------------------------------
(* What a step of a handler may touch, and what a step of a task may do.   *)

Fresh(k) == k \notin Created /\ meta'[k] = NewMeta(k)

Restated(k) ==
    \E status \in {"timedOut", "processing"} : meta'[k] = WithStatus(meta[k], status)

HandlerTouches(r) ==
    /\ UNCHANGED <<locks, results>>
    /\ \A k \in Requests : meta'[k] = meta[k] \/ Restated(k) \/ (k = r /\ Fresh(k))
    /\ active' \subseteq active \/ (active' = active \cup {r} /\ Fresh(r))

LEMMA HandlerEffects ==
    ASSUME TypeOK, Provenance, NEW r \in Requests, HandlerStep(r)
    PROVE  HandlerTouches(r)
  <1> USE DEF HandlerTouches, TypeOK, RedisTypeOK
  <1>1. CASE \/ ReadGroupIndex(r) \/ ReadGroupJob(r) \/ ReadActive(r) \/ ReadJob(r)
             \/ NothingFound(r) \/ SearchFails(r) \/ PublishNext(r) \/ PublishDone(r)
    BY <1>1 DEF ReadGroupIndex, ReadGroupJob, ReadActive, ReadJob, NothingFound,
       SearchFails, PublishNext, PublishDone, redisVars
  <1>2. ASSUME NEW j \in Requests,
               DropInactive(r, j) \/ SeeStale(r, j) \/ SeeOther(r, j) \/ SeeSame(r, j)
        PROVE  HandlerTouches(r)
    BY <1>2 DEF DropInactive, SeeStale, SeeOther, SeeSame, redisVars
  <1>3. CASE ExpireStale(r)
    <2>1. /\ meta' \in {meta, [meta EXCEPT ![target[r]] = WithStatus(@, "timedOut")]}
          /\ active' \subseteq active /\ UNCHANGED <<locks, results>>
      BY <1>3 DEF ExpireStale
    <2>2. \A k \in Requests :
            meta'[k] = meta[k] \/ meta'[k] = WithStatus(meta[k], "timedOut")
      BY <2>1
    <2>3. QED
      BY <2>1, <2>2 DEF Restated
  <1>4. CASE Create(r)
    <2>1. r \notin Created
      BY <1>4 DEF Create, Provenance, HandlersCreateOnce, BeforeCreate
    <2>2. PICK o \in WriteOutcomes : CreateMeta(r, o)
      BY <1>4 DEF Create
    <2>3. QED
      BY <2>1, <2>2 DEF CreateMeta, Applied, Fresh
  <1>5. CASE Index(r)
    BY <1>5 DEF Index, WriteIndexes
  <1>6. CASE SetProcessing(r)
    <2>1. PICK o \in WriteOutcomes : UpdateJobStatus(r, "processing", o)
      BY <1>6 DEF SetProcessing
    <2>2. /\ meta' \in {meta, [meta EXCEPT ![r] = WithStatus(@, "processing")]}
          /\ UNCHANGED <<active, locks, results>>
      BY <2>1 DEF UpdateJobStatus, Applied, Terminal
    <2>3. QED
      BY <2>2 DEF Restated
  <1>7. QED
    BY <1>1, <1>2, <1>3, <1>4, <1>5, <1>6 DEF HandlerStep, FindActiveJob

\* The order of a task's work, as far as Progress depends on it.
Does(w, j) ==
    /\ work'[w] = "markFinal" => work[w] = "complete" /\ j \notin active'
    /\ work'[w] = "readResults" => AllProcessed(meta[j]) /\ meta' = meta
    /\ work'[w] \in {"complete", "markFinal", "save"} => work[w] \in Closing
    /\ work'[w] = "operations" => UnitOf(task[w]) \in results'[j]
    /\ work'[w] = "countOk" => work[w] = "operations"
    /\ meta'[j].final => meta[j].final \/ work[w] = "markFinal"
    /\ meta'[j].status = meta[j].status \/ work[w] = "complete"
    /\ \/ countedOk'[j] = countedOk[j]
       \/ work[w] = "countOk" /\ countedOk'[j] = countedOk[j] \cup {task[w]}

LEMMA BumpedJob ==
    ASSUME NEW j \in Requests, meta[j] \in Meta, NEW a \in Nat, NEW b \in Nat,
           meta'[j] = Bumped(meta[j], a, b)
    PROVE  /\ meta'[j].final = meta[j].final /\ meta'[j].status = meta[j].status
           /\ meta'[j].expected = meta[j].expected
           /\ meta'[j].succeeded = meta[j].succeeded + a
           /\ meta'[j].failed = meta[j].failed + b
  <1>1. /\ Bumped(meta[j], a, b).final = meta[j].final
        /\ Bumped(meta[j], a, b).status = meta[j].status
        /\ Bumped(meta[j], a, b).expected = meta[j].expected
        /\ Bumped(meta[j], a, b).succeeded = meta[j].succeeded + a
        /\ Bumped(meta[j], a, b).failed = meta[j].failed + b
    BY BumpedType
  <1>2. QED
    BY <1>1

\* Counting changes nothing of a job but its counters.
LEMMA IncrementWrites ==
    ASSUME TypeOK, NEW j \in Requests, NEW s \in Nat, NEW f \in Nat, NEW o \in Outcomes,
           IncrementCounters(j, s, f, o)
    PROVE  /\ meta'[j].final = meta[j].final /\ meta'[j].status = meta[j].status
           /\ o.applied = 1 => /\ meta'[j].succeeded = meta[j].succeeded + s
                               /\ meta'[j].failed = meta[j].failed + f
  <1>1. meta[j] \in Meta
    BY DEF TypeOK, RedisTypeOK
  <1>2. CASE o.applied > 0
    <2>1. PICK a \in Nat, b \in Nat :
            a = s * o.applied /\ b = f * o.applied /\ (o.applied = 1 => a = s /\ b = f)
      BY CostType
    <2>2. meta'[j] = Bumped(meta[j], a, b)
      BY <1>2, <2>1 DEF IncrementCounters, Applied, TypeOK, RedisTypeOK
    <2>3. /\ meta'[j].final = meta[j].final /\ meta'[j].status = meta[j].status
          /\ meta'[j].succeeded = meta[j].succeeded + a
          /\ meta'[j].failed = meta[j].failed + b
      BY <1>1, <2>1, <2>2, BumpedJob
    <2>4. QED
      BY <2>1, <2>3
  <1>3. CASE ~(o.applied > 0)
    BY <1>3 DEF IncrementCounters, Applied, TypeOK, RedisTypeOK
  <1>4. QED
    BY <1>2, <1>3

LEMMA TaskDoes ==
    ASSUME TypeOK, NEW w \in Workers, TaskStep(w)
    PROVE  Does(w, task[w].job)
  <1> DEFINE j == task[w].job
             u == UnitOf(task[w])
  <1>0. j \in Requests /\ meta[j] \in Meta
    BY TaskTouches DEF TypeOK, RedisTypeOK
  <1> HIDE DEF j, u
  <1> SUFFICES Does(w, j)
    BY DEF j
  <1> USE DEF Does, Step, TypeOK, RedisTypeOK, WorkerTypeOK
  <1>1. CASE Lock(w)
    <2>1. \E a \in {"yes", "no", "error"} : AcquireLock(j, u, a)
      BY <1>1 DEF Lock, j, u
    <2>2. QED
      BY <1>1, <2>1 DEF Lock, AcquireLock, progressVars, counted
  <1>2. CASE CacheHit(w) \/ Process(w)
    BY <1>2 DEF CacheHit, Process, redisVars, progressVars, counted
  <1>3. CASE StoreResults(w)
    <2>1. PICK o \in WriteOutcomes :
            /\ AddResults(j, u, o)
            /\ Step(w, IF o.ok THEN "operations" ELSE "nack")
      BY <1>3 DEF StoreResults, j, u
    <2>2. o.ok => u \in results'[j]
      BY <1>0, <2>1 DEF AddResults, Applied, WriteOutcomes, Outcomes
    <2>3. QED
      BY <1>3, <2>1, <2>2 DEF StoreResults, AddResults, progressVars, counted, u
  <1>4. CASE StoreOperations(w)
    <2>1. PICK o \in WriteOutcomes : AddOperations(j, u, o)
      BY <1>4 DEF StoreOperations, j, u
    <2>2. QED
      BY <1>4, <2>1 DEF StoreOperations, AddOperations, progressVars, counted
  <1>5. CASE CountOk(w)
    <2>1. PICK o \in Outcomes :
            /\ IncrementCounters(j, 1, 0, o)
            /\ countedOk' = [countedOk EXCEPT ![j] = Applied(o, @ \cup {task[w]}, @)]
      BY <1>5 DEF CountOk, j
    <2>2. meta'[j].final = meta[j].final /\ meta'[j].status = meta[j].status
      BY <1>0, <2>1, IncrementWrites
    <2>3. countedOk'[j] \in {countedOk[j], countedOk[j] \cup {task[w]}}
      BY <1>0, <2>1 DEF Applied
    <2>4. QED
      BY <1>5, <2>2, <2>3 DEF CountOk
  <1>6. CASE CountFailed(w)
    <2>1. PICK o \in Outcomes : IncrementCounters(j, 0, 1, o)
      BY <1>6 DEF CountFailed, j
    <2>2. meta'[j].final = meta[j].final /\ meta'[j].status = meta[j].status
      BY <1>0, <2>1, IncrementWrites
    <2>3. QED
      BY <1>6, <2>2 DEF CountFailed
  <1>7. CASE CheckProgress(w) \/ ReadResults(w)
    BY <1>7 DEF CheckProgress, ReadResults, Closing, counted, j
  <1>8. CASE Complete(w)
    <2>1. PICK o \in WriteOutcomes :
            /\ UpdateJobStatus(j, FinalStatus(w), o)
            /\ Step(w, IF o.ok THEN "markFinal" ELSE "nack")
      BY <1>8 DEF Complete, j
    <2>2. meta'[j].final = meta[j].final
      BY <1>0, <2>1, WithStatusType DEF UpdateJobStatus, Applied, FinalStatus, Statuses
    <2>3. o.ok => j \notin active'
      BY <2>1 DEF UpdateJobStatus, Applied, FinalStatus, Terminal, WriteOutcomes, Outcomes
    <2>4. QED
      BY <1>8, <2>1, <2>2, <2>3 DEF Complete, progressVars, counted, Closing
  <1>9. CASE Finalise(w)
    <2>1. PICK o \in WriteOutcomes : MarkFinal(j, o)
      BY <1>9 DEF Finalise, j
    <2>2. meta'[j].status = meta[j].status
      BY <1>0, <2>1, AsFinalType DEF MarkFinal, Applied
    <2>3. QED
      BY <1>9, <2>2 DEF Finalise, progressVars, counted, Closing
  <1>10. CASE SaveSnapshot(w)
    BY <1>10 DEF SaveSnapshot, redisVars, counted
  <1>11. CASE Ack(w) \/ Nack(w)
    BY <1>11 DEF Ack, Nack, Free, redisVars, counted
  <1>12. QED
    BY <1>1, <1>2, <1>3, <1>4, <1>5, <1>6, <1>7, <1>8, <1>9, <1>10, <1>11 DEF TaskStep

----------------------------------------------------------------------------
(* Progress                                                                *)

LEMMA ProgressInit == Init => Progress
  BY DEF Init, RedisInit, WorkerInit, Progress, ClosingUnlisted, FinalNotListed,
     ClosingProcessed, CompletionCounted, ResultsBeforeCount, CountedUnitsStored, Closing,
     EmptyMeta

\* Once reached, the expected total stays reached.
LEMMA GrownProcessed ==
    ASSUME NEW old \in Meta, NEW new \in Meta, Grown(new, old), AllProcessed(old)
    PROVE  AllProcessed(new)
  BY DEF Grown, AllProcessed, Meta

LEMMA HandlerKeepsProgress ==
    ASSUME TypeOK, Provenance, Progress, NEW r \in Requests, HandlerStep(r),
           UNCHANGED <<workerVars, expired>>
    PROVE  Progress'
  <1> USE DEF Progress
  <1>1. /\ HandlerTouches(r)
        /\ UNCHANGED <<work, task, countedOk, countedBad, expired>>
    BY HandlerEffects DEF workerVars, progressVars, counted
  <1>2. ASSUME NEW k \in Requests
        PROVE  /\ meta'[k].final => meta[k].final
               /\ meta'[k].status \in {"completed", "failed"} =>
                    meta'[k].status = meta[k].status
               /\ AllProcessed(meta[k]) /\ k \in Created => AllProcessed(meta'[k])
               /\ k \in active' \ active => k \notin Created /\ ~meta'[k].final
    <2>1. CASE Fresh(k)
      <3>1. ~meta'[k].final /\ meta'[k].status = "pending" /\ k \notin Created
        BY <2>1 DEF Fresh, NewMeta
      <3>2. QED
        BY <3>1
    <2>2. CASE ~Fresh(k)
      <3>1. meta[k] \in Meta
        BY DEF TypeOK, RedisTypeOK
      <3>2. meta'[k] = meta[k] \/ Restated(k)
        BY <1>1, <2>2 DEF HandlerTouches
      <3>3. /\ meta'[k].final = meta[k].final
            /\ meta'[k].status = meta[k].status
               \/ meta'[k].status \in {"timedOut", "processing"}
            /\ meta'[k].expected = meta[k].expected
            /\ meta'[k].succeeded = meta[k].succeeded
            /\ meta'[k].failed = meta[k].failed
        BY <3>1, <3>2, WithStatusType DEF Restated, Statuses
      <3>4. k \in active' => k \in active
        BY <1>1, <2>2 DEF HandlerTouches
      <3>5. QED
        BY <3>3, <3>4 DEF AllProcessed
    <2>3. QED
      BY <2>1, <2>2
  <1>3. \A w \in Workers : work[w] # "idle" =>
          task[w].job \in Requests /\ task[w].job \in Created
    BY MessageJob DEF TypeOK, WorkerTypeOK, Provenance, NamedJobsCreated
  <1>4. ClosingUnlisted'
    BY <1>1, <1>2, <1>3 DEF ClosingUnlisted
  <1>5. FinalNotListed'
    BY <1>2 DEF FinalNotListed
  <1>6. ClosingProcessed'
    BY <1>1, <1>2, <1>3 DEF ClosingProcessed, Closing
  <1>7. CompletionCounted'
    <2> SUFFICES ASSUME NEW j \in Requests \ expired,
                        meta'[j].final \/ meta'[j].status \in {"completed", "failed"}
                 PROVE  AllProcessed(meta'[j])
      BY <1>1 DEF CompletionCounted
    <2>1. meta[j].final \/ meta[j].status \in {"completed", "failed"}
      BY <1>2
    <2>2. j \in Created
      BY <2>1 DEF Provenance, CreatedJobs, Untouched, EmptyMeta
    <2>3. QED
      BY <1>2, <2>1, <2>2 DEF CompletionCounted
  <1>8. ResultsBeforeCount' /\ CountedUnitsStored'
    BY <1>1 DEF ResultsBeforeCount, CountedUnitsStored, HandlerTouches
  <1>9. QED
    BY <1>4, <1>5, <1>6, <1>7, <1>8

LEMMA TaskKeepsProgress ==
    ASSUME TypeOK, TypeOK', Progress, NEW w \in Workers, TaskStep(w), UNCHANGED expired
    PROVE  Progress'
  <1> DEFINE j == task[w].job
  <1> USE DEF Progress
  <1>1. /\ work[w] # "idle" /\ task[w] \in Messages /\ j \in Requests
        /\ TouchesOnly(w, j)
    BY TaskTouches
  <1>2. Does(w, j)
    BY TaskDoes
  <1>3. meta \in [Requests -> Meta] /\ meta' \in [Requests -> Meta]
    BY DEF TypeOK, RedisTypeOK
  <1>4. work'[w] # "idle" => task'[w] = task[w]
    BY <1>1 DEF TouchesOnly
  <1> HIDE DEF j
  <1>5. \A k \in Requests : AllProcessed(meta[k]) => AllProcessed(meta'[k])
    <2>1. \A k \in Requests : Grown(meta'[k], meta[k])
      BY <1>1 DEF TouchesOnly, Grown
    <2>2. QED
      BY <1>3, <2>1, GrownProcessed
  <1>6. ClosingUnlisted'
    BY <1>1, <1>2, <1>4 DEF ClosingUnlisted, TouchesOnly, Does, j
  <1>7. FinalNotListed'
    BY <1>1, <1>2 DEF FinalNotListed, ClosingUnlisted, TouchesOnly, Does, j
  <1>8. ClosingProcessed'
    <2>1. ASSUME NEW v \in Workers \ {w}, work'[v] \in Closing, task'[v].job \notin expired
          PROVE  AllProcessed(meta'[task'[v].job])
      <3>1. work[v] \in Closing /\ task'[v] = task[v]
        BY <1>1, <2>1 DEF TouchesOnly
      <3>2. task[v].job \in Requests
        BY <3>1, MessageJob DEF TypeOK, WorkerTypeOK, Closing
      <3>3. QED
        BY <1>5, <2>1, <3>1, <3>2 DEF ClosingProcessed
    <2>2. ASSUME work'[w] \in Closing, task'[w].job \notin expired
          PROVE  AllProcessed(meta'[task'[w].job])
      <3>1. task'[w].job = j
        BY <1>4, <2>2 DEF Closing, j
      <3>2. AllProcessed(meta[j])
        <4>1. CASE work'[w] = "readResults"
          BY <1>2, <4>1 DEF Does
        <4>2. CASE work'[w] # "readResults"
          BY <1>2, <2>2, <3>1, <4>2 DEF Does, Closing, ClosingProcessed, j
        <4>3. QED
          BY <4>1, <4>2
      <3>3. QED
        BY <1>1, <1>5, <3>1, <3>2
    <2>3. QED
      BY <2>1, <2>2 DEF ClosingProcessed
  <1>9. CompletionCounted'
    <2> SUFFICES ASSUME NEW k \in Requests \ expired,
                        meta'[k].final \/ meta'[k].status \in {"completed", "failed"}
                 PROVE  AllProcessed(meta'[k])
      BY DEF CompletionCounted
    <2>1. CASE meta[k].final \/ meta[k].status \in {"completed", "failed"}
      BY <1>5, <2>1 DEF CompletionCounted
    <2>2. CASE ~(meta[k].final \/ meta[k].status \in {"completed", "failed"})
      <3>1. k = j
        BY <1>1, <2>2 DEF TouchesOnly
      <3>2. work[w] \in Closing
        BY <1>2, <2>2, <3>1 DEF Does, Closing
      <3>3. QED
        BY <1>5, <3>1, <3>2 DEF ClosingProcessed, j
    <2>3. QED
      BY <2>1, <2>2
  <1>10. \A k \in Requests : results[k] \subseteq results'[k]
    BY <1>1 DEF TouchesOnly
  <1>11. ResultsBeforeCount'
    <2>1. ASSUME NEW v \in Workers \ {w}, work'[v] \in {"operations", "countOk"},
                 task'[v].job \notin expired
          PROVE  UnitOf(task'[v]) \in results'[task'[v].job]
      <3>1. work[v] = work'[v] /\ task'[v] = task[v]
        BY <1>1, <2>1 DEF TouchesOnly
      <3>2. task[v].job \in Requests
        BY <2>1, <3>1, MessageJob DEF TypeOK, WorkerTypeOK
      <3>3. QED
        BY <1>10, <2>1, <3>1, <3>2 DEF ResultsBeforeCount
    <2>2. ASSUME work'[w] \in {"operations", "countOk"}, task'[w].job \notin expired
          PROVE  UnitOf(task'[w]) \in results'[task'[w].job]
      <3>1. task'[w] = task[w] /\ task'[w].job = j
        BY <1>4, <2>2 DEF j
      <3>2. UnitOf(task[w]) \in results'[j]
        BY <1>1, <1>2, <1>10, <2>2, <3>1 DEF Does, ResultsBeforeCount, j
      <3>3. QED
        BY <3>1, <3>2
    <2>3. QED
      BY <2>1, <2>2 DEF ResultsBeforeCount
  <1>12. CountedUnitsStored'
    <2> SUFFICES ASSUME NEW k \in Requests \ expired, NEW m \in countedOk'[k]
                 PROVE  UnitOf(m) \in results'[k]
      BY DEF CountedUnitsStored
    <2>1. CASE m \in countedOk[k]
      BY <1>10, <2>1 DEF CountedUnitsStored
    <2>2. CASE m \notin countedOk[k]
      <3>1. k = j /\ m = task[w] /\ work[w] = "countOk"
        BY <1>1, <1>2, <2>2 DEF TouchesOnly, Does
      <3>2. QED
        BY <1>10, <3>1 DEF ResultsBeforeCount, j
    <2>3. QED
      BY <2>1, <2>2
  <1>13. QED
    BY <1>6, <1>7, <1>8, <1>9, <1>11, <1>12

\* Steps that leave the jobs alone and start no task half way.
LEMMA IdleStepKeepsProgress ==
    ASSUME Progress,
           UNCHANGED <<meta, active, results, countedOk, expired>>,
           \A v \in Workers :
               \/ work'[v] \in {"idle", "lock"}
               \/ work'[v] = work[v] /\ task'[v] = task[v]
    PROVE  Progress'
  BY DEF Progress, ClosingUnlisted, FinalNotListed, ClosingProcessed, CompletionCounted,
     ResultsBeforeCount, CountedUnitsStored, Closing

LEMMA ExpireKeepsProgress ==
    ASSUME TypeOK, Provenance, Progress, NEW j \in Requests, Expire(j)
    PROVE  Progress'
  <1> USE DEF Progress
  <1>1. /\ meta' = [meta EXCEPT ![j] = EmptyMeta] /\ results' = [results EXCEPT ![j] = {}]
        /\ expired' = expired \cup {j}
        /\ UNCHANGED <<active, work, task, countedOk>>
    BY DEF Expire, workerVars, progressVars, counted
  <1>2. \A k \in Requests \ {j} : meta'[k] = meta[k] /\ results'[k] = results[k]
    BY <1>1
  <1>3. ~meta'[j].final
    BY <1>1 DEF EmptyMeta, TypeOK, RedisTypeOK
  <1>4. \A w \in Workers : work[w] # "idle" => task[w].job \in Requests
    BY MessageJob DEF TypeOK, WorkerTypeOK
  <1>5. ClosingUnlisted' /\ FinalNotListed'
    BY <1>1, <1>2, <1>3 DEF ClosingUnlisted, FinalNotListed
  <1>6. ClosingProcessed' /\ CompletionCounted'
    BY <1>1, <1>2, <1>4 DEF ClosingProcessed, CompletionCounted, Closing
  <1>7. ResultsBeforeCount' /\ CountedUnitsStored'
    BY <1>1, <1>2, <1>4 DEF ResultsBeforeCount, CountedUnitsStored
  <1>8. QED
    BY <1>5, <1>6, <1>7

LEMMA ProgressNext == TypeOK /\ TypeOK' /\ Provenance /\ Progress /\ [Next]_vars => Progress'
  <1> SUFFICES ASSUME TypeOK, TypeOK', Provenance, Progress, [Next]_vars PROVE Progress'
    OBVIOUS
  <1>1. ASSUME NEW r \in Requests, Handler(r) PROVE Progress'
    BY <1>1, HandlerKeepsProgress DEF Handler
  <1>2. ASSUME NEW w \in Workers, Task(w) PROVE Progress'
    <2>1. CASE TaskStep(w)
      BY <1>2, <2>1, TaskKeepsProgress DEF Task
    <2>2. ASSUME NEW m \in Messages, Deliver(w, m) PROVE Progress'
      BY <1>2, <2>2, IdleStepKeepsProgress DEF Task, Deliver, Step, redisVars, progressVars,
         counted, TypeOK, WorkerTypeOK
    <2>3. QED
      BY <1>2, <2>1, <2>2 DEF Task, WorkerStep
  <1>3. ASSUME NEW r \in Requests, Disconnect(r), UNCHANGED <<workerVars, expired>>
        PROVE  Progress'
    BY <1>3, IdleStepKeepsProgress DEF Disconnect, redisVars, workerVars, progressVars,
       counted
  <1>4. ASSUME NEW w \in Workers, Crash(w) \/ LoseChannel(w),
               UNCHANGED <<startVars, expired>>
        PROVE  Progress'
    <2>1. \A v \in Workers : work'[v] = "idle" \/ (work'[v] = work[v] /\ task'[v] = task[v])
      BY <1>4 DEF Crash, LoseChannel, Free, Step, TypeOK, WorkerTypeOK
    <2>2. UNCHANGED <<meta, active, results, countedOk, expired>>
      BY <1>4 DEF Crash, LoseChannel, Free, redisVars, progressVars, counted
    <2>3. QED
      BY <2>1, <2>2, IdleStepKeepsProgress
  <1>5. CASE UNCHANGED vars
    BY <1>5, IdleStepKeepsProgress DEF vars, redisVars, workerVars, progressVars, counted
  <1>6. QED
    BY <1>1, <1>2, <1>3, <1>4, <1>5, ExpireKeepsProgress DEF Next, Environment

LEMMA ProgressAlways == Spec => [](TypeOK /\ Provenance /\ Progress)
  <1> DEFINE Inv == TypeOK /\ Provenance /\ Progress
  <1>1. Init => Inv
    BY TypeInit, ProvenanceInit, ProgressInit
  <1>2. Inv /\ [Next]_vars => Inv'
    BY TypeNext, ProvenanceNext, ProgressNext
  <1>3. QED
    BY <1>1, <1>2, PTL DEF Spec

\* The results of whatever a job counts as succeeded can be read, whatever
\* Redis, the broker, the workers and the clients do.
THEOREM CountedUnitsStoredAlways == Spec => []CountedUnitsStored
  <1>1. Progress => CountedUnitsStored
    BY DEF Progress
  <1>2. QED
    BY <1>1, ProgressAlways, PTL

\* A job is only closed once its counters have reached its expected total.
THEOREM CompletionCountedAlways == Spec => []CompletionCounted
  <1>1. Progress => CompletionCounted
    BY DEF Progress
  <1>2. QED
    BY <1>1, ProgressAlways, PTL

\* A final job is never in the active index.
THEOREM FinalNotListedAlways == Spec => []FinalNotListed
  <1>1. Progress => FinalNotListed
    BY DEF Progress
  <1>2. QED
    BY <1>1, ProgressAlways, PTL

=============================================================================
