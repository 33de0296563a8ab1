-------------------------- MODULE JobPollingProofs --------------------------
(***************************************************************************)
(* The hook keeps its types, and what its refs say of the job it shows.    *)
(***************************************************************************)
EXTENDS JobPolling, TLAPS

\* What Answered leaves in a loop, and AfterCleanup, is a loop again.
LEMMA ClearedLoops ==
    ASSUME TypeOK
    PROVE  TimerCleared \in [Loops -> Loop] /\ AfterCleanup \in [Loops -> Loop]
BY DEF TypeOK, TimerCleared, AfterCleanup, Idle, Loop

\* An activation of run, started in loops ls, keeps the types of what it
\* changes, and the attempts within their bound.
LEMMA RunTypes ==
    ASSUME TypeOK, PollingAssumption, NEW l \in Loops, NEW loop \in Loop,
           NEW ls \in [Loops -> Loop], Run(l, loop, ls)
    PROVE  loops' \in [Loops -> Loop] /\ queued' \in Hook /\ attempts' \in 0..maxAttempts
<1>1. CASE Exhausted
  <2>1. Idle \in Loop BY DEF Idle, Loop
  <2>2. loops' \in [Loops -> Loop] BY <1>1, <2>1 DEF Run
  <2>3. queued' \in Hook BY <1>1 DEF Run, TypeOK, Hook
  <2>. QED BY <1>1, <2>2, <2>3 DEF Run, TypeOK
<1>2. CASE ~Exhausted
  <2>1. [loop EXCEPT !.at = "fetching"] \in Loop BY DEF Loop
  <2>2. loops' \in [Loops -> Loop] BY <1>2, <2>1 DEF Run
  <2>3. attempts' \in 0..maxAttempts
    BY <1>2 DEF Run, TypeOK, Exhausted, PollingAssumption
  <2>. QED BY <1>2, <2>2, <2>3 DEF Run, TypeOK
<1>. QED BY <1>1, <1>2

\* Every step keeps the types.
LEMMA TypeStep ==
    ASSUME TypeOK, [Next]_vars
    PROVE  TypeOK'
<1>. USE PollingAssumption
<1>1. ASSUME NEW i \in Identifiers, NEW force \in BOOLEAN, Ensure(i, force)
      PROVE  TypeOK'
  BY <1>1 DEF Ensure, TypeOK, refs
<1>2. ASSUME NEW i \in Identifiers, Select(i) PROVE TypeOK'
  BY <1>1, <1>2 DEF Select
<1>3. CASE Retry
  <2>1. page \in Identifiers BY <1>3 DEF Retry, TypeOK
  <2>. QED BY <1>1, <1>3, <2>1 DEF Retry
<1>4. CASE PostAnswered
  <2>1. PICK j \in JobsOf[posting] : server' = [server EXCEPT ![j] = "running"] /\ Answered(j)
    BY <1>4 DEF PostAnswered
  <2>2. posting \in Identifiers /\ j \in Jobs BY <1>4, <2>1 DEF PostAnswered, TypeOK
  <2>3. server' \in [Jobs -> ServerStates] BY <2>1, <2>2 DEF TypeOK, ServerStates
  <2>4. queued' \in Hook BY <2>1, <2>2 DEF Answered, Fresh, Hook
  <2>5. loops' \in [Loops -> Loop] BY <2>1, ClearedLoops DEF Answered
  <2>6. ui' \in Hook /\ cleanup' \in BOOLEAN /\ cancelled' \in BOOLEAN /\ ensures' \in 0..MaxEnsures
    BY <1>4, <2>1, Zenon DEF PostAnswered, Answered, TypeOK
  <2>7. attempts' \in 0..maxAttempts /\ pollTimer' \in Loops \cup {NoLoop}
    BY <2>1 DEF Answered, PollingAssumption
  <2>8. {owner', page', posting'} \subseteq Identifiers \cup {NoOne}
    BY <1>4, <2>1 DEF PostAnswered, Answered, TypeOK
  <2>. QED BY <2>3, <2>4, <2>5, <2>6, <2>7, <2>8 DEF TypeOK
<1>5. CASE PostFails
  <2>1. queued' \in Hook BY <1>5 DEF PostFails, TypeOK, Hook
  <2>. QED BY <1>5, <2>1 DEF PostFails, TypeOK, refs
<1>6. CASE CommitDisplay BY <1>6 DEF CommitDisplay, TypeOK, refs
<1>7. CASE Commit
  <2>1. cancelled' \in BOOLEAN /\ cleanup' \in BOOLEAN /\ ui' \in Hook
        /\ pollTimer' \in Loops \cup {NoLoop}
    BY <1>7 DEF Commit, TypeOK
  <2>2. loops' \in [Loops -> Loop] /\ queued' \in Hook /\ attempts' \in 0..maxAttempts
    <3>1. CASE cancelled' \/ queued.job = NoJob
      BY <1>7, <3>1, ClearedLoops DEF Commit, TypeOK
    <3>2. CASE ~(cancelled' \/ queued.job = NoJob)
      <4>1. PICK l \in Loops :
              Run(l, [Idle EXCEPT !.job = queued.job, !.completed = queued.completed],
                  AfterCleanup)
        BY <1>7, <3>2 DEF Commit
      <4>2. [Idle EXCEPT !.job = queued.job, !.completed = queued.completed] \in Loop
        BY DEF TypeOK, Hook, Idle, Loop
      <4>. QED BY <4>1, <4>2, ClearedLoops, RunTypes
    <3>. QED BY <3>1, <3>2
  <2>. QED BY <1>7, <2>1, <2>2 DEF Commit, TypeOK
<1>8. ASSUME NEW l \in Loops, FetchDone(l) PROVE TypeOK'
  <2>1. queued' \in Hook BY <1>8 DEF FetchDone, Fetched, TypeOK, Hook
  <2>2. loops' \in [Loops -> Loop] /\ pollTimer' \in Loops \cup {NoLoop}
    <3>1. Idle \in Loop BY DEF Idle, Loop
    <3>2. [loops[l] EXCEPT !.at = "waiting"] \in Loop BY DEF TypeOK, Loop
    <3>3. CASE ~cancelled /\ ~loops[l].completed
      <4>1. loops' = [loops EXCEPT ![l] = [loops[l] EXCEPT !.at = "waiting"]] /\ pollTimer' = l
        BY <1>8, <3>3 DEF FetchDone
      <4>. QED BY <3>2, <4>1 DEF TypeOK
    <3>4. CASE ~(~cancelled /\ ~loops[l].completed)
      <4>1. loops' = [loops EXCEPT ![l] = Idle] /\ pollTimer' = pollTimer
        BY <1>8, <3>4 DEF FetchDone
      <4>. QED BY <3>1, <4>1 DEF TypeOK
    <3>. QED BY <3>3, <3>4
  <2>. QED BY <1>8, <2>1, <2>2 DEF FetchDone, TypeOK
<1>9. ASSUME NEW l \in Loops, TimerFires(l) PROVE TypeOK'
  <2>1. loops' \in [Loops -> Loop] /\ queued' \in Hook /\ attempts' \in 0..maxAttempts
    <3>1. CASE cancelled
      <4>1. Idle \in Loop BY DEF Idle, Loop
      <4>2. loops' = [loops EXCEPT ![l] = Idle] /\ queued' = queued /\ attempts' = attempts
        BY <1>9, <3>1 DEF TimerFires
      <4>. QED BY <4>1, <4>2 DEF TypeOK
    <3>2. CASE ~cancelled
      <4>1. loops \in [Loops -> Loop] /\ loops[l] \in Loop BY DEF TypeOK
      <4>2. Run(l, loops[l], loops) BY <1>9, <3>2 DEF TimerFires
      <4>. QED BY <4>1, <4>2, RunTypes
    <3>. QED BY <3>1, <3>2
  <2>. QED BY <1>9, <2>1 DEF TimerFires, TypeOK
<1>10. ASSUME NEW j \in Jobs, Finish(j) \/ Vanish(j) PROVE TypeOK'
  <2>1. server' \in [Jobs -> ServerStates] BY <1>10 DEF Finish, Vanish, TypeOK, ServerStates
  <2>. QED BY <1>10, <2>1 DEF Finish, Vanish, TypeOK, refs
<1>11. CASE UNCHANGED vars BY <1>11 DEF vars, refs, TypeOK
<1>. QED
  BY <1>2, <1>3, <1>4, <1>5, <1>6, <1>7, <1>8, <1>9, <1>10, <1>11 DEF Next, HookStep

\* The state of the hook is what its types say, for any jobs and identifiers
\* and any bound on the attempts, which no interleaving of activations of
\* run exceeds.
THEOREM TypeCorrect == Spec => []TypeOK
<1>1. Init => TypeOK
  <2>1. Fresh \in Hook /\ Idle \in Loop BY DEF Fresh, Hook, Idle, Loop
  <2>2. ASSUME Init PROVE TypeOK
    <3>1. cleanup \in BOOLEAN /\ cancelled \in BOOLEAN /\ ui \in Hook /\ queued \in Hook
      BY <2>1, <2>2 DEF Init
    <3>. QED BY PollingAssumption, <2>1, <2>2, <3>1 DEF Init, TypeOK, ServerStates
  <2>. QED BY <2>2
<1>2. TypeOK /\ [Next]_vars => TypeOK' BY TypeStep
<1>. QED BY <1>1, <1>2, PTL DEF Spec

----------------------------------------------------------------------------

\* The queued state keeps its job in every step but the answer to a POST.
LEMMA RunKeepsJob ==
    ASSUME TypeOK, NEW l, NEW loop, NEW ls, Run(l, loop, ls)
    PROVE  queued'.job = queued.job
BY DEF Run, TypeOK, Hook

LEMMA OwnerStep ==
    ASSUME TypeOK, OwnerMatchesJob, [Next]_vars
    PROVE  OwnerMatchesJob'
<1>1. CASE PostAnswered
  <2>1. PICK j \in JobsOf[posting] : Answered(j) BY <1>1 DEF PostAnswered
  <2>2. queued'.job = j /\ owner' = posting BY <2>1 DEF Answered, Fresh
  <2>. QED BY <1>1, <2>2 DEF PostAnswered, OwnerMatchesJob
<1>2. ASSUME queued'.job = queued.job, owner' = owner PROVE OwnerMatchesJob'
  BY <1>2 DEF OwnerMatchesJob
<1>3. CASE PostFails BY <1>2, <1>3 DEF PostFails, refs, TypeOK, Hook
<1>4. CASE Commit
  <2>1. queued'.job = queued.job BY <1>4, RunKeepsJob DEF Commit
  <2>. QED BY <1>2, <1>4, <2>1 DEF Commit
<1>5. CASE CommitDisplay BY <1>2, <1>5 DEF CommitDisplay, refs
<1>6. ASSUME NEW l \in Loops, FetchDone(l) PROVE OwnerMatchesJob'
  <2>1. queued'.job = queued.job BY <1>6 DEF FetchDone, Fetched, TypeOK, Hook
  <2>. QED BY <1>2, <1>6, <2>1 DEF FetchDone
<1>7. ASSUME NEW l \in Loops, TimerFires(l) PROVE OwnerMatchesJob'
  <2>1. queued'.job = queued.job BY <1>7, RunKeepsJob DEF TimerFires
  <2>. QED BY <1>2, <1>7, <2>1 DEF TimerFires
<1>8. ASSUME NEW i \in Identifiers, Select(i) PROVE OwnerMatchesJob'
  BY <1>2, <1>8 DEF Select, Ensure, refs
<1>9. CASE Retry BY <1>2, <1>9 DEF Retry, Ensure, refs
<1>10. ASSUME NEW j \in Jobs, Finish(j) \/ Vanish(j) PROVE OwnerMatchesJob'
  BY <1>2, <1>10 DEF Finish, Vanish, refs
<1>11. CASE UNCHANGED vars BY <1>2, <1>11 DEF vars, refs
<1>. QED
  BY <1>1, <1>3, <1>4, <1>5, <1>6, <1>7, <1>8, <1>9, <1>10, <1>11 DEF Next, HookStep

\* Whatever the user, the server and React's queue do around each other, the
\* job that the hook is about to show is one of the identifier that ensure
\* compares its next call with.
THEOREM OwnerAlwaysMatches == Spec => []OwnerMatchesJob
<1>1. Init => OwnerMatchesJob BY DEF Init, Fresh, OwnerMatchesJob
<1>2. TypeOK /\ OwnerMatchesJob /\ [Next]_vars => OwnerMatchesJob' BY OwnerStep
<1>. QED BY <1>1, <1>2, TypeCorrect, PTL DEF Spec

----------------------------------------------------------------------------

\* While ensure has been called once: there is no job and no activity before
\* its answer, the effect has left a cleanup from the commit of the job until
\* that of its end, and then polling is cancelled.
FirstJobInv ==
    ensures <= 1 =>
        /\ ensures = 0 => posting = NoOne /\ queued.job = NoJob
        /\ queued.job # NoJob => posting = NoOne
        /\ IF ui.job = NoJob
           THEN /\ \A l \in Loops : loops[l].at = "idle"
                /\ ~queued.completed /\ ~ui.completed /\ ~cancelled /\ ~cleanup
           ELSE ui.job = queued.job
        /\ IF ui.completed THEN queued.completed /\ cancelled
                           ELSE ui.job # NoJob => cleanup

LEMMA FirstJobStep ==
    ASSUME TypeOK, FirstJobInv, [Next]_vars
    PROVE  FirstJobInv'
<1> USE DEF FirstJobInv
<1>0. ui \in Hook /\ queued \in Hook /\ ensures \in Nat /\ loops \in [Loops -> Loop]
  BY PollingAssumption DEF TypeOK
<1>1. CASE PostAnswered
  <2>1. PICK j \in JobsOf[posting] : Answered(j) BY <1>1 DEF PostAnswered
  <2>2. SUFFICES ASSUME ensures <= 1 PROVE FirstJobInv'
    BY <1>1 DEF PostAnswered
  <2>3. ui.job = NoJob /\ queued.job = NoJob BY <1>1, <2>2 DEF PostAnswered
  <2>4. \A l \in Loops : loops'[l].at = "idle" BY <2>1, <2>2, <2>3 DEF Answered, TimerCleared
  <2>5. queued'.completed = FALSE /\ cancelled' = FALSE BY <2>1 DEF Answered, Fresh
  <2>. QED BY <1>0, <1>1, <2>2, <2>3, <2>4, <2>5 DEF PostAnswered
<1>2. CASE PostFails
  <2>1. queued'.job = queued.job /\ queued'.completed = queued.completed
    BY <1>0, <1>2 DEF PostFails, Hook
  <2>. QED BY <1>2, <2>1 DEF PostFails, refs
<1>3. CASE Commit
  <2>1. SUFFICES ASSUME ensures <= 1 PROVE FirstJobInv'
    BY <1>3 DEF Commit
  <2>2. queued.job # NoJob
    <3>1. SUFFICES ASSUME queued.job = NoJob PROVE SameDeps
      BY <1>3 DEF Commit
    <3>2. ui.job = NoJob BY <2>1, <3>1
    <3>3. queued.completed = FALSE /\ ui.completed = FALSE BY <1>0, <2>1, <3>2 DEF Hook
    <3>. QED BY <3>1, <3>2, <3>3 DEF SameDeps
  <2>3. ui.completed = FALSE BY <1>0, <1>3, <2>1, <2>2 DEF Commit, SameDeps, Hook
  <2>4. queued'.job = queued.job /\ queued'.completed = queued.completed
    BY <1>0, <1>3 DEF Commit, Run, Hook
  <2>5. ui' = queued /\ UNCHANGED <<posting, ensures>> BY <1>3 DEF Commit
  <2>6. CASE ui.job = NoJob
    <3>1. cancelled' = FALSE /\ cleanup' = TRUE BY <1>3, <2>1, <2>2, <2>6 DEF Commit
    <3>2. queued.completed = FALSE BY <1>0, <2>1, <2>6 DEF Hook
    <3>. QED BY <2>1, <2>2, <2>4, <2>5, <3>1, <3>2
  <2>7. CASE ui.job # NoJob
    <3>1. cancelled' = TRUE BY <1>3, <2>1, <2>3, <2>7 DEF Commit
    <3>2. queued.completed = TRUE BY <1>0, <1>3, <2>1, <2>3, <2>7 DEF Commit, SameDeps, Hook
    <3>. QED BY <2>1, <2>2, <2>4, <2>5, <3>1, <3>2
  <2>. QED BY <2>6, <2>7
<1>4. CASE CommitDisplay
  <2>1. ui'.job = ui.job /\ ui'.completed = ui.completed
    BY <1>4 DEF CommitDisplay, SameDeps
  <2>2. UNCHANGED <<queued, cleanup, cancelled, posting, loops, ensures>>
    BY <1>4 DEF CommitDisplay, refs
  <2>. QED BY <2>1, <2>2
<1>5. ASSUME NEW l \in Loops, FetchDone(l) PROVE FirstJobInv'
  <2>1. queued'.job = queued.job /\ (queued.completed => queued'.completed)
    BY <1>0, <1>5 DEF FetchDone, Fetched, Hook
  <2>2. ensures <= 1 => ui.job # NoJob BY <1>5 DEF FetchDone
  <2>. QED BY <1>5, <2>1, <2>2 DEF FetchDone
<1>6. ASSUME NEW l \in Loops, TimerFires(l) PROVE FirstJobInv'
  <2>1. queued'.job = queued.job /\ queued'.completed = queued.completed
    BY <1>0, <1>6 DEF TimerFires, Run, Hook
  <2>2. ensures <= 1 => ui.job # NoJob BY <1>6 DEF TimerFires
  <2>. QED BY <1>6, <2>1, <2>2 DEF TimerFires
<1>7. ASSUME NEW i, NEW force, Ensure(i, force) PROVE FirstJobInv'
  BY <1>0, <1>7 DEF Ensure, refs
<1>8. ASSUME NEW j \in Jobs, Finish(j) \/ Vanish(j) PROVE FirstJobInv'
  BY <1>8 DEF Finish, Vanish, refs
<1>9. CASE UNCHANGED vars BY <1>9 DEF vars, refs
<1>. QED
  BY <1>1, <1>2, <1>3, <1>4, <1>5, <1>6, <1>7, <1>8, <1>9 DEF Next, HookStep, Select, Retry

LEMMA QuietStep ==
    ASSUME TypeOK, FirstJobInv, [Next]_vars, NEW l \in Loops,
           ensures = 1, ui.completed, loops'[l].at = "fetching"
    PROVE  loops[l].at = "fetching"
<1>0. ui \in Hook /\ queued \in Hook /\ loops \in [Loops -> Loop] BY DEF TypeOK
<1>1. cancelled /\ SameDeps /\ posting = NoOne
  <2>1. queued.completed /\ cancelled /\ ui.job # NoJob /\ ui.job = queued.job
    BY DEF FirstJobInv
  <2>2. posting = NoOne BY <2>1 DEF FirstJobInv
  <2>3. queued.completed = TRUE /\ ui.completed = TRUE BY <1>0, <2>1 DEF Hook
  <2>. QED BY <2>1, <2>2, <2>3 DEF SameDeps
<1>2. CASE PostAnswered \/ PostFails \/ Commit BY <1>1, <1>2 DEF PostAnswered, PostFails, Commit
<1>3. ASSUME NEW k \in Loops, FetchDone(k) PROVE loops[l].at = "fetching"
  BY <1>0, <1>3 DEF FetchDone, Idle, Loop
<1>4. ASSUME NEW k \in Loops, TimerFires(k) PROVE loops[l].at = "fetching"
  BY <1>0, <1>1, <1>4 DEF TimerFires, Idle, Loop
<1>5. CASE UNCHANGED loops BY <1>5
<1>. QED
  BY <1>2, <1>3, <1>4, <1>5
     DEF Next, HookStep, CommitDisplay, Select, Retry, Ensure, Finish, Vanish, vars

\* After the commit that shows the first job as complete no loop starts another
\* fetch, whichever timers are still set, and whatever they remember of older
\* renders.
THEOREM CompletedIsQuietAlways == Spec => CompletedIsQuiet
<1>1. Init => FirstJobInv BY DEF Init, FirstJobInv, Fresh, Idle
<1>2. TypeOK /\ FirstJobInv /\ [Next]_vars => FirstJobInv' BY FirstJobStep
<1>3. TypeOK /\ FirstJobInv /\ [Next]_vars =>
        [\A l \in Loops :
           ensures = 1 /\ ui.completed /\ loops'[l].at = "fetching"
               => loops[l].at = "fetching"]_vars
  BY QuietStep
<1>. QED BY <1>1, <1>2, <1>3, TypeCorrect, PTL DEF Spec, CompletedIsQuiet

=============================================================================
