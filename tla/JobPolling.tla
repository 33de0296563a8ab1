----------------------------- MODULE JobPolling -----------------------------
(***************************************************************************)
(* useAggregationJob, the React hook of the dashboard: it asks the API for *)
(* a job (ensure), polls its status until the job is complete and stops    *)
(* polling when it is or when the job changes.                             *)
(*                                                                         *)
(* React queues state updates and commits them together later: `queued` is *)
(* the state after the updates made so far, `ui` the committed one.  When  *)
(* jobId or isCompleted differ, a commit runs the cleanup of the polling   *)
(* effect, if its last run left one, and then the effect.  Refs change at  *)
(* once.  What is only displayed (loading, starting, the snapshot) is left *)
(* out.                                                                    *)
(***************************************************************************)
EXTENDS Naturals, FiniteSets

CONSTANTS
    Identifiers,   \* accounts and wallet groups that the page may select
    Jobs,
    JobsOf,        \* [Identifiers -> SUBSET Jobs]: the jobs POST may answer
    NoOne, NoJob,
    maxAttempts,   \* maxAttempts.current, 20 in the code
    Hasty,         \* whether selections may follow within 500 ms
    MaxEnsures     \* bound: calls of ensure

ASSUME PollingAssumption ==
    /\ JobsOf \in [Identifiers -> SUBSET Jobs]
    /\ NoOne \notin Identifiers /\ NoJob \notin Jobs
    /\ maxAttempts \in Nat \ {0}
    /\ Hasty \in BOOLEAN
    /\ MaxEnsures \in Nat

VARIABLES
    server,     \* status of each job as GET reports it, "none" before POST
    ui,         \* committed state of the hook
    queued,     \* the state that the next commit will show
    cleanup,    \* whether the last run of the effect left a cleanup
    cancelled,  \* cancelled.current
    attempts,   \* attemptRef.current
    owner,      \* lastAccountRef.current or currentGroupIdRef.current
    page,       \* the identifier that the page shows
    posting,    \* the identifier of the POST in flight (ensureInFlightRef)
    loops,      \* the activations of run
    pollTimer,  \* pollTimer.current: the loop that set it
    ensures     \* calls of ensure so far, at most MaxEnsures

refs == <<cancelled, attempts, owner, pollTimer>>
vars == <<server, ui, queued, cleanup, refs, page, posting, loops, ensures>>

\* An effect is run at most once per ensure and once per completed job.
Loops == 1..(2 * MaxEnsures)
NoLoop == 0

\* run, with the jobId and isCompleted of the render it was created in.
Loop == [at : {"idle", "fetching", "waiting"}, job : Jobs \cup {NoJob}, completed : BOOLEAN]
Idle == [at |-> "idle", job |-> NoJob, completed |-> FALSE]

Hook == [job : Jobs \cup {NoJob}, completed : BOOLEAN, expired : BOOLEAN, error : BOOLEAN]

\* The state after reset.
Fresh == [job |-> NoJob, completed |-> FALSE, expired |-> FALSE, error |-> FALSE]

\* failed stands for every status that the hook does not take for the end.
ServerStates == {"none", "running", "completed", "failed", "gone"}

TypeOK ==
    /\ server \in [Jobs -> ServerStates]
    /\ ui \in Hook /\ queued \in Hook
    /\ cleanup \in BOOLEAN /\ cancelled \in BOOLEAN
    /\ attempts \in 0..maxAttempts
    /\ {owner, page, posting} \subseteq Identifiers \cup {NoOne}
    /\ loops \in [Loops -> Loop]
    /\ pollTimer \in Loops \cup {NoLoop}
    /\ ensures \in 0..MaxEnsures

Init ==
    /\ server = [j \in Jobs |-> "none"]
    /\ ui = Fresh /\ queued = Fresh
    /\ cleanup = FALSE /\ cancelled = FALSE
    /\ attempts = 0
    /\ owner = NoOne /\ page = NoOne /\ posting = NoOne
    /\ loops = [l \in Loops |-> Idle]
    /\ pollTimer = NoLoop
    /\ ensures = 0

----------------------------------------------------------------------------
(* ensure                                                                  *)

\* The current job is the one asked for.
Current(i) == owner = i /\ ui.job # NoJob /\ ~ui.expired

\* Up to the request.  The call returns early when it comes too soon, for the
\* current job, or while another POST is in flight.
Ensure(i, force) ==
    /\ ensures < MaxEnsures
    /\ ensures' = ensures + 1
    /\ page' = i
    /\ \/ posting' = IF posting = NoOne /\ (force \/ ~Current(i)) THEN i ELSE posting
       \/ Hasty /\ ~force /\ ensures > 0 /\ UNCHANGED posting
    /\ UNCHANGED <<server, ui, queued, cleanup, refs, loops>>

\* The effect of DashboardPage on a change of the identifier.
Select(i) == i # page /\ Ensure(i, FALSE)

\* The button of its error screen.
Retry == ui.error /\ page # NoOne /\ Ensure(page, TRUE)

\* clearTimer: only the timer that was set last.
TimerCleared ==
    [l \in Loops |-> IF l = pollTimer /\ loops[l].at = "waiting" THEN Idle ELSE loops[l]]

\* Faulty variant: the refs keep the identifier of the previous job.
AnsweredKeepingOwner(j) ==
    /\ queued' = [Fresh EXCEPT !.job = j]
    /\ loops' = TimerCleared /\ pollTimer' = NoLoop
    /\ attempts' = 0
    /\ cancelled' = FALSE
    /\ UNCHANGED owner

\* The rest of ensure, after the answer: reset and the updates that follow.
Answered(j) ==
    /\ queued' = [Fresh EXCEPT !.job = j]
    /\ owner' = posting
    /\ loops' = TimerCleared /\ pollTimer' = NoLoop
    /\ attempts' = 0
    /\ cancelled' = FALSE

PostAnswered ==
    /\ posting # NoOne
    /\ \E j \in JobsOf[posting] :
         /\ server[j] \in {"none", "running"}
         /\ server' = [server EXCEPT ![j] = "running"]
         /\ Answered(j)
    /\ posting' = NoOne
    /\ UNCHANGED <<ui, cleanup, page, ensures>>

PostFails ==
    /\ posting # NoOne
    /\ queued' = [queued EXCEPT !.error = TRUE]
    /\ posting' = NoOne
    /\ UNCHANGED <<server, ui, cleanup, refs, page, loops, ensures>>

----------------------------------------------------------------------------
(* The polling effect.                                                     *)

\* Faulty variant: one attempt too many.
ExhaustedLate == attempts > maxAttempts

Exhausted == attempts >= maxAttempts

\* Faulty variant: attempts are not counted.
RunUncounted(l, loop, ls) ==
    /\ loops' = [ls EXCEPT ![l] = [loop EXCEPT !.at = "fetching"]]
    /\ UNCHANGED <<queued, attempts>>

\* The beginning of run, in an idle loop or one whose timer fires.
Run(l, loop, ls) ==
    IF Exhausted
    THEN /\ loops' = [ls EXCEPT ![l] = Idle]
         /\ queued' = [queued EXCEPT !.error = TRUE]
         /\ UNCHANGED attempts
    ELSE /\ loops' = [ls EXCEPT ![l] = [loop EXCEPT !.at = "fetching"]]
         /\ attempts' = attempts + 1
         /\ UNCHANGED queued

\* A commit, with the cleanup and the effect it causes.
SameDeps == queued.job = ui.job /\ queued.completed = ui.completed

CommitDisplay ==
    /\ queued # ui /\ SameDeps
    /\ ui' = queued
    /\ UNCHANGED <<server, queued, cleanup, refs, page, posting, loops, ensures>>

AfterCleanup == IF cleanup THEN TimerCleared ELSE loops

\* Faulty variant: the effect leaves no cleanup behind.
CommitWithoutCleanup ==
    /\ ~SameDeps
    /\ ui' = queued
    /\ cleanup' = FALSE
    /\ UNCHANGED <<cancelled, pollTimer>>
    /\ IF cancelled \/ queued.job = NoJob
       THEN UNCHANGED <<queued, attempts, loops>>
       ELSE \E l \in Loops :
              /\ loops[l].at = "idle"
              /\ Run(l, [Idle EXCEPT !.job = queued.job, !.completed = queued.completed],
                     loops)
    /\ UNCHANGED <<server, owner, page, posting, ensures>>

Commit ==
    /\ ~SameDeps
    /\ ui' = queued
    /\ cancelled' = (cancelled \/ cleanup)
    /\ pollTimer' = IF cleanup THEN NoLoop ELSE pollTimer
    /\ IF cancelled' \/ queued.job = NoJob
       THEN /\ cleanup' = FALSE
            /\ loops' = AfterCleanup
            /\ UNCHANGED <<queued, attempts>>
       ELSE /\ cleanup' = TRUE
            /\ \E l \in Loops :
                 /\ AfterCleanup[l].at = "idle"
                 /\ \A k \in 1..(l - 1) : AfterCleanup[k].at # "idle"
                 /\ Run(l, [Idle EXCEPT !.job = queued.job, !.completed = queued.completed],
                        AfterCleanup)
    /\ UNCHANGED <<server, owner, page, posting, ensures>>

\* What fetchSnapshot makes of the answer; an error of the request or an
\* unexpected status only sets the error.
Fetched(status) ==
    \/ queued' = [queued EXCEPT !.error = TRUE]
    \/ queued' = CASE status = "gone"      -> [queued EXCEPT !.expired = TRUE, !.error = TRUE]
                   [] status = "completed" -> [queued EXCEPT !.completed = TRUE]
                   [] OTHER                -> queued

\* Faulty variant: the first answer is the last.
FetchDoneOnce(l) ==
    /\ loops[l].at = "fetching"
    /\ Fetched(server[loops[l].job])
    /\ loops' = [loops EXCEPT ![l] = Idle]
    /\ UNCHANGED <<server, ui, cleanup, refs, page, posting, ensures>>

\* The answer arrives, and run goes on: whether to set the next timer is
\* decided on the isCompleted of the render that created it.
FetchDone(l) ==
    /\ loops[l].at = "fetching"
    /\ Fetched(server[loops[l].job])
    /\ IF ~cancelled /\ ~loops[l].completed
       THEN loops' = [loops EXCEPT ![l].at = "waiting"] /\ pollTimer' = l
       ELSE loops' = [loops EXCEPT ![l] = Idle] /\ UNCHANGED pollTimer
    /\ UNCHANGED <<server, ui, cleanup, cancelled, attempts, owner, page, posting, ensures>>

TimerFires(l) ==
    /\ loops[l].at = "waiting"
    /\ IF cancelled
       THEN loops' = [loops EXCEPT ![l] = Idle] /\ UNCHANGED <<queued, attempts>>
       ELSE Run(l, loops[l], loops)
    /\ UNCHANGED <<server, ui, cleanup, cancelled, owner, pollTimer, page, posting, ensures>>

----------------------------------------------------------------------------
(* The jobs, as GET shows them.                                            *)

Finish(j) ==
    /\ server[j] = "running"
    /\ \E status \in {"completed", "failed"} : server' = [server EXCEPT ![j] = status]
    /\ UNCHANGED <<ui, queued, cleanup, refs, page, posting, loops, ensures>>

Vanish(j) ==
    /\ server[j] \notin {"none", "gone"}
    /\ server' = [server EXCEPT ![j] = "gone"]
    /\ UNCHANGED <<ui, queued, cleanup, refs, page, posting, loops, ensures>>

HookStep ==
    \/ PostAnswered \/ PostFails \/ Commit \/ CommitDisplay
    \/ \E l \in Loops : FetchDone(l) \/ TimerFires(l)

Next ==
    \/ HookStep
    \/ \E i \in Identifiers : Select(i)
    \/ Retry
    \/ \E j \in Jobs : Finish(j) \/ Vanish(j)

Spec == Init /\ [][Next]_vars

\* Requests end, timers fire and React commits; the user and the jobs are
\* free to do nothing.
Fairness ==
    /\ WF_vars(PostAnswered \/ PostFails)
    /\ WF_vars(Commit \/ CommitDisplay)
    /\ \A l \in Loops : WF_vars(FetchDone(l)) /\ WF_vars(TimerFires(l))

FairSpec == Spec /\ Fairness

----------------------------------------------------------------------------
(* Properties.                                                             *)

\* The refs agree with the state: the job that the hook is about to show is
\* one of the identifier that ensure compares the next call with, so a call
\* that returns early leaves the right job in place.
OwnerMatchesJob ==
    queued.job # NoJob => owner # NoOne /\ queued.job \in JobsOf[owner]

\* Polling ends by itself, even of a job that never does and after retries
\* and selections in the middle of it: the attempts are shared and bounded.
PollingStops == <>[](\A l \in Loops : loops[l].at = "idle")

\* Once the hook has shown its first job as complete it fetches nothing more,
\* although the run that saw the end has set another timer and decides on
\* values of an older render.
CompletedIsQuiet ==
    [][\A l \in Loops :
         ensures = 1 /\ ui.completed /\ loops'[l].at = "fetching"
             => loops[l].at = "fetching"]_vars

Settled == ui.completed \/ ui.error

\* The first job a page asks for is polled until it is shown as complete, or
\* an error is shown.
FirstJobPolled ==
    \A j \in Jobs : queued.job = j /\ server[j] = "completed" ~> Settled \/ ensures > 1

\* The same of every job: polling goes on until isCompleted, as the comment
\* of the hook says.
JobsPolled ==
    \A j \in Jobs : queued.job = j /\ server[j] = "completed" ~> Settled \/ queued.job # j

=============================================================================
