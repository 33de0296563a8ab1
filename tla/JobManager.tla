----------------------------- MODULE JobManager -----------------------------
(***************************************************************************)
(* The Redis state of aggregation jobs and the operations of JobManager on *)
(* it.  A request's job is named by the request (AggregationJob::new draws *)
(* a fresh UUID for every request that gets that far).                     *)
(*                                                                         *)
(* Every write goes through with_retry: up to MAX_RETRIES attempts, each   *)
(* running the WHOLE command block.  An attempt that fails or times out    *)
(* may still have been applied by Redis, so a call is summarised by        *)
(* [ok, applied]: what it returned and how many of its attempts took       *)
(* effect.  The commands of one attempt are taken as one step.             *)
(***************************************************************************)
EXTENDS Addresses, FiniteSets

CONSTANTS
    Requests,     \* POST /aggregations calls, each naming its own job
    Groups,       \* wallet groups
    NoGroup,      \* the request names no wallet group
    NoJob,        \* no job id
    AccountsOf,   \* [Requests -> Seq(Address)]: the resolved account list
    ChainsOf,     \* [Requests -> Seq(Chain)]: the requested chains
    GroupOf,      \* [Requests -> Groups \cup {NoGroup}]
    MaxFaults     \* bound: failed Redis and broker attempts in a behaviour

ASSUME JobManagerAssumption ==
    /\ IsFiniteSet(Requests)
    /\ NoJob \notin Requests
    /\ NoGroup \notin Groups
    /\ AccountsOf \in [Requests -> Seq(Address)]
    /\ ChainsOf \in [Requests -> Seq(Chain)]
    /\ GroupOf \in [Requests -> Groups \cup {NoGroup}]
    /\ MaxFaults \in Nat

VARIABLES
    meta,        \* the hash defi10:agg:meta:<job>
    active,      \* the set defi10:agg:index:active
    wgIndex,     \* defi10:agg:index:wg:<group>, the group's latest job
    locks,       \* the units of a job whose processing lock exists
    results,     \* the units of a job with results in results_h
    operations,  \* the units of a job with operations in the list
    faults       \* failed attempts so far, at most MaxFaults

redisVars == <<meta, active, wgIndex, locks, results, operations, faults>>

----------------------------------------------------------------------------
(* Messages of a job: one per account and chain that are compatible.       *)

Message == [job : Requests, acct : Nat, chain : Nat]

MessagesOf(r) ==
    {m \in [job : {r}, acct : DOMAIN AccountsOf[r], chain : DOMAIN ChainsOf[r]] :
        IsChainCompatible(AccountsOf[r][m.acct], ChainsOf[r][m.chain])}

Messages == UNION {MessagesOf(r) : r \in Requests}

\* The unit of work of a message, as the lock key, the cache key and the
\* key of a stored result name it: the account in lower case.
UnitOf(m) == <<ToLower(AccountsOf[m.job][m.acct]), ChainsOf[m.job][m.chain]>>

UnitsOf(r) == {UnitOf(m) : m \in MessagesOf(r)}

Units == UNION {UnitsOf(r) : r \in Requests}

----------------------------------------------------------------------------
(* The job hash.  get_job_inner reads a missing field as its default, so a *)
(* missing hash is EmptyMeta and a write to it makes it exist.             *)

Statuses == {"pending", "processing", "completed", "failed", "timedOut"}

Terminal == {"completed", "failed", "timedOut"}

Meta == [exists : BOOLEAN, status : Statuses \cup {"absent"},
         accounts : Seq(Address), group : Groups \cup {NoGroup}, expected : Nat,
         succeeded : Nat, failed : Nat, final : BOOLEAN]

EmptyMeta == [exists |-> FALSE, status |-> "absent", accounts |-> <<>>,
              group |-> NoGroup, expected |-> 0,
              succeeded |-> 0, failed |-> 0, final |-> FALSE]

\* AggregationJob::new, as create_job writes it.
NewMeta(r) == [exists |-> TRUE, status |-> "pending", accounts |-> AccountsOf[r],
               group |-> GroupOf[r], expected |-> Cardinality(MessagesOf(r)),
               succeeded |-> 0, failed |-> 0, final |-> FALSE]

\* AggregationJob::is_active, on a job read by get_job (where a missing
\* status reads as pending).
IsActive(job) == ~job.final /\ job.status \in {"pending", "processing", "absent"}

\* processedCount: increment_counters adds to it whatever it adds to the
\* other counters, in the same block.
Processed(job) == job.succeeded + job.failed

RedisTypeOK ==
    /\ meta \in [Requests -> Meta]
    /\ active \in SUBSET Requests
    /\ wgIndex \in [Groups -> Requests \cup {NoJob}]
    /\ locks \in [Requests -> SUBSET Units]
    /\ results \in [Requests -> SUBSET Units]
    /\ operations \in [Requests -> SUBSET Units]
    /\ faults \in 0..MaxFaults

RedisInit ==
    /\ meta = [r \in Requests |-> EmptyMeta]
    /\ active = {}
    /\ wgIndex = [g \in Groups |-> NoJob]
    /\ locks = [r \in Requests |-> {}]
    /\ results = [r \in Requests |-> {}]
    /\ operations = [r \in Requests |-> {}]
    /\ faults = 0

----------------------------------------------------------------------------
(* with_retry                                                              *)

MAX_RETRIES == 3

Outcomes == {o \in [ok : BOOLEAN, applied : 0..MAX_RETRIES] : o.ok => o.applied > 0}

\* The failed attempts behind an outcome, at least.
Cost(o) == IF o.ok THEN o.applied - 1 ELSE MAX_RETRIES

\* Outcomes of a block whose repetition changes nothing.
WriteOutcomes == {o \in Outcomes : o.applied \in {0, 1}}

Spend(n) == faults' = faults + n /\ faults' =< MaxFaults

Applied(o, new, old) == IF o.applied > 0 THEN new ELSE old

----------------------------------------------------------------------------
(* Operations.  Each sets all of redisVars.                                *)

\* First block of create_job: the hash and the active index.
CreateMeta(r, o) ==
    /\ Spend(Cost(o))
    /\ meta' = [meta EXCEPT ![r] = Applied(o, NewMeta(r), @)]
    /\ active' = Applied(o, active \cup {r}, active)
    /\ UNCHANGED <<wgIndex, locks, results, operations>>

\* The index blocks of create_job.  The per-wallet index is written the
\* same way and nothing reads it.
WriteIndexes(r, o) ==
    /\ Spend(Cost(o))
    /\ wgIndex' = IF GroupOf[r] = NoGroup THEN wgIndex
                  ELSE [wgIndex EXCEPT ![GroupOf[r]] = Applied(o, r, @)]
    /\ UNCHANGED <<meta, active, locks, results, operations>>

\* Faulty variant: a status update reopens a final job.
WithStatusReopening(job, status) ==
    [job EXCEPT !.exists = TRUE, !.status = status, !.final = FALSE]

WithStatus(job, status) == [job EXCEPT !.exists = TRUE, !.status = status]

\* Faulty variant: a terminal status leaves the job in the active index.
UpdateJobStatusKeepingIndex(j, status, o) ==
    /\ Spend(Cost(o))
    /\ meta' = [meta EXCEPT ![j] = Applied(o, WithStatus(@, status), @)]
    /\ UNCHANGED <<active, wgIndex, locks, results, operations>>

\* update_job_status: unconditional, whatever the job's status is.
UpdateJobStatus(j, status, o) ==
    /\ Spend(Cost(o))
    /\ meta' = [meta EXCEPT ![j] = Applied(o, WithStatus(@, status), @)]
    /\ active' = IF status \in Terminal
                 THEN Applied(o, active \ {j}, active) ELSE active
    /\ UNCHANGED <<wgIndex, locks, results, operations>>

AsFinal(job) == [job EXCEPT !.exists = TRUE, !.final = TRUE]

MarkFinal(j, o) ==
    /\ Spend(Cost(o))
    /\ meta' = [meta EXCEPT ![j] = Applied(o, AsFinal(@), @)]
    /\ UNCHANGED <<active, wgIndex, locks, results, operations>>

\* Faulty variant: the failed counter is decremented.
BumpedBackwards(job, succeeded, failed) ==
    [job EXCEPT !.exists = TRUE,
                !.succeeded = job.succeeded + succeeded,
                !.failed = job.failed - failed]

Bumped(job, succeeded, failed) ==
    [job EXCEPT !.exists = TRUE,
                !.succeeded = job.succeeded + succeeded,
                !.failed = job.failed + failed]

\* increment_counters: HINCRBY again on every attempt.
IncrementCounters(j, succeeded, failed, o) ==
    /\ Spend(Cost(o))
    /\ meta' = [meta EXCEPT ![j] =
                  Applied(o, Bumped(@, succeeded * o.applied, failed * o.applied), @)]
    /\ UNCHANGED <<active, wgIndex, locks, results, operations>>

\* add_result for every result of a unit: HSET on the unit's own fields.
AddResults(j, unit, o) ==
    /\ Spend(Cost(o))
    /\ results' = [results EXCEPT ![j] = Applied(o, @ \cup {unit}, @)]
    /\ UNCHANGED <<meta, active, wgIndex, locks, operations>>

AddOperations(j, unit, o) ==
    /\ Spend(Cost(o))
    /\ operations' = [operations EXCEPT ![j] = Applied(o, @ \cup {unit}, @)]
    /\ UNCHANGED <<meta, active, wgIndex, locks, results>>

\* Faulty variant: SET without NX always succeeds.
AcquireLockUnconditionally(j, unit, answer) ==
    /\ answer = "yes" /\ Spend(0)
    /\ locks' = [locks EXCEPT ![j] = @ \cup {unit}]
    /\ UNCHANGED <<meta, active, wgIndex, results, operations>>

\* try_acquire_processing_lock: SET NX, so an attempt that was applied but
\* not answered makes the next attempt see its own lock and answer FALSE.
\* The answer is "error" when every attempt failed.
AcquireLock(j, unit, answer) ==
    /\ \/ answer = "yes" /\ unit \notin locks[j] /\ Spend(0)
       \/ answer = "no" /\ Spend(IF unit \in locks[j] THEN 0 ELSE 1)
       \/ answer = "error" /\ Spend(MAX_RETRIES)
    /\ \/ locks' = [locks EXCEPT ![j] = @ \cup {unit}]
       \/ answer = "error" /\ UNCHANGED locks
    /\ UNCHANGED <<meta, active, wgIndex, results, operations>>

=============================================================================
