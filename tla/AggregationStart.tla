--------------------------- MODULE AggregationStart ---------------------------
(***************************************************************************)
(* start_aggregation, the handler of POST /api/v1/aggregations: look for   *)
(* an active job of the same wallet group or accounts, otherwise create a  *)
(* job, publish its messages and set its status to processing.  One action *)
(* per Redis or broker round trip: other requests and the workers act      *)
(* between any two of them.  Requests start with their accounts resolved.  *)
(***************************************************************************)
EXTENDS Broker

CONSTANTS
    StaleJobs,      \* whether a job without progress may get 5 minutes old
    MaxDisconnects  \* bound: handlers dropped half way (client or API gone)

ASSUME StartAssumption ==
    /\ StaleJobs \in BOOLEAN
    /\ MaxDisconnects \in Nat
    /\ \A r \in Requests : AccountsOf[r] # <<>>

VARIABLES
    api,          \* where the handler of each request is
    candidates,   \* find_active_job: ids of SMEMBERS not examined yet
    target,       \* find_active_job: the job it is examining
    unsent,       \* publish_job: messages not published yet
    answer,       \* the job id in the response, NoJob before it
    disconnects   \* handlers dropped so far, at most MaxDisconnects

findVars  == <<candidates, target>>
startVars == <<api, candidates, target, unsent, answer, disconnects>>

ApiStates == {"start", "readGroupJob", "scan", "expire", "readJob", "create",
              "index", "publish", "setProcessing", "done", "error"}

Goto(r, state) == api' = [api EXCEPT ![r] = state]

Respond(r, j) ==
    /\ Goto(r, "done")
    /\ answer' = [answer EXCEPT ![r] = j]

StartTypeOK ==
    /\ api \in [Requests -> ApiStates]
    /\ candidates \in [Requests -> SUBSET Requests]
    /\ target \in [Requests -> Requests \cup {NoJob}]
    /\ unsent \in [Requests -> SUBSET Messages]
    /\ answer \in [Requests -> Requests \cup {NoJob}]
    /\ disconnects \in 0..MaxDisconnects

StartInit ==
    /\ api = [r \in Requests |-> "start"]
    /\ candidates = [r \in Requests |-> {}]
    /\ target = [r \in Requests |-> NoJob]
    /\ unsent = [r \in Requests |-> MessagesOf(r)]
    /\ answer = [r \in Requests |-> NoJob]
    /\ disconnects = 0

----------------------------------------------------------------------------
(* find_active_job with a wallet group: the group's index, then the job.   *)

ReadGroupIndex(r) ==
    /\ api[r] = "start" /\ GroupOf[r] # NoGroup
    /\ target' = [target EXCEPT ![r] = wgIndex[GroupOf[r]]]
    /\ Goto(r, IF wgIndex[GroupOf[r]] = NoJob THEN "create" ELSE "readGroupJob")
    /\ UNCHANGED <<redisVars, queue, candidates, unsent, answer, disconnects>>

ReadGroupJob(r) ==
    /\ api[r] = "readGroupJob"
    /\ LET job == meta[target[r]] IN
         IF job.exists /\ IsActive(job)
         THEN Respond(r, target[r])
         ELSE Goto(r, "create") /\ UNCHANGED answer
    /\ UNCHANGED <<redisVars, queue, findVars, unsent, disconnects>>

----------------------------------------------------------------------------
(* find_active_job without a group: every id of the active index in turn.  *)

ReadActive(r) ==
    /\ api[r] = "start" /\ GroupOf[r] = NoGroup
    /\ candidates' = [candidates EXCEPT ![r] = active]
    /\ Goto(r, "scan")
    /\ UNCHANGED <<redisVars, queue, target, unsent, answer, disconnects>>

Examined(r, j) == candidates' = [candidates EXCEPT ![r] = @ \ {j}]

\* The status field is not pending or processing, or could not be read
\* (.ok() turns the error into None): the id is removed from the index,
\* which may fail unnoticed.
DropInactive(r, j) ==
    /\ api[r] = "scan" /\ j \in candidates[r]
    /\ \E removed \in BOOLEAN :
         /\ Spend((IF meta[j].status \in {"pending", "processing"} THEN 1 ELSE 0)
                  + (IF removed THEN 0 ELSE 1))
         /\ active' = IF removed THEN active \ {j} ELSE active
    /\ Examined(r, j)
    /\ UNCHANGED <<meta, wgIndex, locks, results, operations, queue,
                   api, target, unsent, answer, disconnects>>

\* No progress for five minutes.  A processed count that could not be read
\* counts as none.
SeeStale(r, j) ==
    /\ api[r] = "scan" /\ j \in candidates[r]
    /\ StaleJobs
    /\ meta[j].status \in {"pending", "processing"}
    /\ Spend(IF Processed(meta[j]) = 0 THEN 0 ELSE 1)
    /\ target' = [target EXCEPT ![r] = j]
    /\ Goto(r, "expire")
    /\ UNCHANGED <<meta, active, wgIndex, locks, results, operations, queue,
                   candidates, unsent, answer, disconnects>>

\* HSET status timedOut and SREM, each of which may fail unnoticed.
ExpireStale(r) ==
    /\ api[r] = "expire"
    /\ \E set, removed \in BOOLEAN :
         /\ Spend((IF set THEN 0 ELSE 1) + (IF removed THEN 0 ELSE 1))
         /\ meta' = IF set THEN [meta EXCEPT ![target[r]] = WithStatus(@, "timedOut")]
                    ELSE meta
         /\ active' = IF removed THEN active \ {target[r]} ELSE active
    /\ Examined(r, target[r])
    /\ Goto(r, "scan")
    /\ UNCHANGED <<wgIndex, locks, results, operations, queue,
                   target, unsent, answer, disconnects>>

SameJob(r, j) == SameAccounts(meta[j].accounts, AccountsOf[r])

\* Another account list, or one that could not be read.
SeeOther(r, j) ==
    /\ api[r] = "scan" /\ j \in candidates[r]
    /\ meta[j].status \in {"pending", "processing"}
    /\ Spend(IF SameJob(r, j) THEN 1 ELSE 0)
    /\ Examined(r, j)
    /\ UNCHANGED <<meta, active, wgIndex, locks, results, operations, queue,
                   api, target, unsent, answer, disconnects>>

SeeSame(r, j) ==
    /\ api[r] = "scan" /\ j \in candidates[r]
    /\ meta[j].status \in {"pending", "processing"}
    /\ SameJob(r, j)
    /\ target' = [target EXCEPT ![r] = j]
    /\ Goto(r, "readJob")
    /\ UNCHANGED <<redisVars, queue, candidates, unsent, answer, disconnects>>

\* get_job_inner on the matching job, whatever has become of it by now; the
\* search also ends, with nothing found, if its hash is gone.
ReadJob(r) ==
    /\ api[r] = "readJob"
    /\ IF meta[target[r]].exists
       THEN Respond(r, target[r])
       ELSE Goto(r, "create") /\ UNCHANGED answer
    /\ UNCHANGED <<redisVars, queue, findVars, unsent, disconnects>>

NothingFound(r) ==
    /\ api[r] = "scan" /\ candidates[r] = {}
    /\ Goto(r, "create")
    /\ UNCHANGED <<redisVars, queue, findVars, unsent, answer, disconnects>>

\* Every attempt of the search failed: the request is answered with an error.
SearchFails(r) ==
    /\ api[r] \in {"start", "readGroupJob", "scan", "readJob"}
    /\ Spend(MAX_RETRIES)
    /\ Goto(r, "error")
    /\ UNCHANGED <<meta, active, wgIndex, locks, results, operations, queue,
                   findVars, unsent, answer, disconnects>>

FindActiveJob(r) ==
    \/ ReadGroupIndex(r) \/ ReadGroupJob(r) \/ ReadActive(r)
    \/ \E j \in Requests : DropInactive(r, j) \/ SeeStale(r, j)
                        \/ SeeOther(r, j) \/ SeeSame(r, j)
    \/ ExpireStale(r) \/ ReadJob(r) \/ NothingFound(r) \/ SearchFails(r)

----------------------------------------------------------------------------
(* create_job, publish_job and the status update.                          *)

Create(r) ==
    /\ api[r] = "create"
    /\ \E o \in WriteOutcomes :
         /\ CreateMeta(r, o)
         /\ Goto(r, IF o.ok THEN "index" ELSE "error")
    /\ UNCHANGED <<queue, findVars, unsent, answer, disconnects>>

Index(r) ==
    /\ api[r] = "index"
    /\ \E o \in WriteOutcomes :
         /\ WriteIndexes(r, o)
         /\ Goto(r, IF o.ok THEN "publish" ELSE "error")
    /\ UNCHANGED <<queue, findVars, unsent, answer, disconnects>>

\* Faulty variant: the loop over the chains never reaches its next element.
IsNextStrictly(r, m) ==
    \A n \in unsent[r] :
        m.acct < n.acct \/ (m.acct = n.acct /\ m.chain < n.chain)

\* publish_job walks accounts, then chains; the first failure ends it.
IsNext(r, m) ==
    \A n \in unsent[r] :
        m.acct < n.acct \/ (m.acct = n.acct /\ m.chain =< n.chain)

PublishNext(r) ==
    /\ api[r] = "publish"
    /\ \E m \in unsent[r], o \in PublishOutcomes :
         /\ IsNext(r, m)
         /\ Publish(m, o)
         /\ unsent' = [unsent EXCEPT ![r] = @ \ {m}]
         /\ IF o.ok THEN UNCHANGED api ELSE Goto(r, "error")
    /\ UNCHANGED <<meta, active, wgIndex, locks, results, operations,
                   findVars, answer, disconnects>>

PublishDone(r) ==
    /\ api[r] = "publish" /\ unsent[r] = {}
    /\ Goto(r, "setProcessing")
    /\ UNCHANGED <<redisVars, queue, findVars, unsent, answer, disconnects>>

SetProcessing(r) ==
    /\ api[r] = "setProcessing"
    /\ \E o \in WriteOutcomes :
         /\ UpdateJobStatus(r, "processing", o)
         /\ IF o.ok THEN Respond(r, r) ELSE Goto(r, "error") /\ UNCHANGED answer
    /\ UNCHANGED <<queue, findVars, unsent, disconnects>>

HandlerStep(r) ==
    \/ FindActiveJob(r)
    \/ Create(r) \/ Index(r) \/ PublishNext(r) \/ PublishDone(r) \/ SetProcessing(r)

\* The client goes away and the server drops the handler's future at an
\* await, or the API process stops.
Disconnect(r) ==
    /\ api[r] \notin {"done", "error"}
    /\ disconnects < MaxDisconnects
    /\ disconnects' = disconnects + 1
    /\ Goto(r, "error")
    /\ UNCHANGED <<redisVars, queue, findVars, unsent, answer>>

=============================================================================
