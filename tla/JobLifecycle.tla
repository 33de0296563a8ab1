---------------------------- MODULE JobLifecycle ----------------------------
(***************************************************************************)
(* What the aggregation pipeline promises about a job, without messages,   *)
(* workers or Redis: every piece of work of a job is tallied exactly once, *)
(* as a success or a failure; when none is left the job gets a verdict,    *)
(* "completed" iff something succeeded, and nothing changes afterwards.    *)
(***************************************************************************)
CONSTANTS
    Jobs,
    Work      \* [Jobs -> the pieces of work of the job]

VARIABLES
    waiting,    \* work not tallied yet
    succeeded,  \* work tallied as a success
    verdict     \* "open", "completed" or "failed"

vars == <<waiting, succeeded, verdict>>

Init ==
    /\ waiting = Work
    /\ succeeded = [j \in Jobs |-> {}]
    /\ verdict = [j \in Jobs |-> "open"]

Tally(j, m) ==
    /\ m \in waiting[j]
    /\ waiting' = [waiting EXCEPT ![j] = @ \ {m}]
    /\ \/ succeeded' = [succeeded EXCEPT ![j] = @ \cup {m}]
       \/ UNCHANGED succeeded
    /\ UNCHANGED verdict

Close(j) ==
    /\ waiting[j] = {} /\ verdict[j] = "open"
    /\ verdict' = [verdict EXCEPT ![j] =
                     IF succeeded[j] # {} THEN "completed" ELSE "failed"]
    /\ UNCHANGED <<waiting, succeeded>>

Next == \E j \in Jobs : Close(j) \/ \E m \in Work[j] : Tally(j, m)

Spec == Init /\ [][Next]_vars

=============================================================================
