------------------------------ MODULE Portfolio ------------------------------
(***************************************************************************)
(* Wallet groups, the saves of the workers and the snapshot job, composed: *)
(* what is kept of each day of a portfolio, and what the history handlers  *)
(* answer from it.                                                         *)
(***************************************************************************)
EXTENDS SnapshotSweep

vars == <<now, faults, groups, snapshotVars, sweepVars>>

Init ==
    /\ GroupsInit
    /\ SnapshotsInit
    /\ SweepInit

\* Time passes.  Entries of the sweep's cache live for six hours, less than
\* a tick, so that they are gone by the next one; a sweep that the tick falls
\* into is short enough to keep them.
Tick ==
    /\ now < LastTick
    /\ now' = now + 1
    /\ sweepCache' = IF sweep.step = "idle" THEN <<>> ELSE sweepCache
    /\ UNCHANGED <<faults, groups, snapshotVars, sweep, sweeps>>

\* An entry of the cache expires or is evicted under a running sweep.
LoseEntry ==
    /\ sweep.step = "groups"
    /\ Fault
    /\ \E key \in DOMAIN sweepCache : sweepCache' = Without(sweepCache, key)
    /\ UNCHANGED <<now, groups, snapshotVars, sweep, sweeps>>

SaverStep(w) ==
    /\ WorkerStep(w) \/ CrashWorker(w)
    /\ UNCHANGED sweepVars

Next ==
    \/ Tick \/ LoseEntry
    \/ \E w \in Workers : SaverStep(w)
    \/ SweepStep
    \/ CrashSweep

Spec == Init /\ [][Next]_vars

----------------------------------------------------------------------------
(* Type correctness                                                        *)

\* The state is what the code keeps: documents, one record per group and
\* day, and the local state of each task.
TypeOK ==
    /\ GroupsTypeOK
    /\ \A g \in Groups, d \in Days :
         /\ snapshots[g][d] = None \/ snapshots[g][d].createdAt \in 0..now
         /\ analytics[g][d] = None \/ analytics[g][d].total \in Int
    /\ \A s \in Savers : /\ saves[s].step \in SaveSteps
                         /\ saves[s].step # "idle" => saves[s].group \in Groups
    /\ \A g \in Groups : syncs[g] \in Seq([day : Days, syncedAt : Nat, total : Int])
    /\ sweep.step \in SweepSteps
    /\ sweep.missing \subseteq DOMAIN sweep.listed
    /\ DOMAIN sweepCache \subseteq [day : Days, pair : Pair]

----------------------------------------------------------------------------
(* The days of a portfolio                                                 *)

\* No save of the group is at work, and the day had one save at a time,
\* each complete before midnight.
Quiet(g) == \A s \in Savers : InFlight(s) => saves[s].group # g

Settled(g, d) == Quiet(g) /\ <<g, d>> \notin disturbed

\* The snapshot and the analytics of a settled day come from the same save:
\* they have the same total, the shares of the protocols add up to it (when
\* every position is of a type the net worth knows), and so does the day's
\* last sync snapshot, unless the snapshot job has saved the day as well.
DayAgrees ==
    \A g \in Groups, d \in Days :
        LET detail == SnapshotDetail(g, d)
            shares == ProtocolAllocation(g, d, d)
            day == SyncHistory(g, d, d)
        IN  Settled(g, d) /\ detail # None =>
                /\ detail.analytics # None
                /\ detail.analytics.total = detail.total
                /\ (\A i \in DOMAIN snapshots[g][d].positions :
                        snapshots[g][d].positions[i].type \in KnownTypes) =>
                     SumFunction([p \in DOMAIN shares |-> shares[p][d]])
                        = detail.total
                /\ day # <<>> /\ <<g, d>> \notin swept => day[1].total = detail.total

\* The days d such that every day from d to the latest one has settled
\* analytics.
UnbrokenRun(g) ==
    LET latest == Max(DaysWithAnalytics(g))
    IN  {d \in DaysWithAnalytics(g) :
            \A x \in d..latest : x \in DaysWithAnalytics(g) /\ Settled(g, x)}

\* The high-water mark that get_analytics_summary reports is no lower than
\* the value of any day of the unbroken run of settled days up to the
\* latest: the mark survives from day to day through the analytics of the
\* day before, retention included.
HighWaterCarried ==
    \A g \in Groups : DaysWithAnalytics(g) # {} =>
        \A d \in UnbrokenRun(g) :
            AnalyticsSummary(g).highWaterMark >= analytics[g][d].total

\* The total profit that get_analytics_summary reports is the sum of the
\* daily ones that get_history reports, when every day since the first
\* snapshot has one, all settled, and retention has not cut the first off.
PnlAddsUp ==
    \A g \in Groups :
        LET points == History(g, 0, LastDay)
        IN  /\ DaysWithAnalytics(g) # {} /\ ~cut
            /\ DaysWithSnapshot(g) = UnbrokenRun(g)
            => AnalyticsSummary(g).totalPnl =
                 SumFunction([d \in DOMAIN points |-> points[d].dailyPnl])

----------------------------------------------------------------------------
(* The sweep                                                               *)

\* The positions that the sweep has found of the accounts of a group.
Found(g) ==
    UNION {Range(sweep.found[p]) : p \in PairsOf(sweep.listed[g].wallets) \cap DOMAIN sweep.found}

\* Without a fault, what the sweep saves of a group holds every position it
\* has found of its accounts, shared with other groups or not; and once all
\* groups are done, each one that was missing and has positions has a
\* snapshot of a day since the sweep began.
SweepSavesAll ==
    faults = 0 /\ sweep.step # "idle" =>
        /\ InFlight(Sweeper) =>
             Found(saves[Sweeper].group) \subseteq Range(saves[Sweeper].snapshot.positions)
        /\ sweep.step = "snapshots" =>
             \A g \in sweep.due : Found(g) # {} =>
                 \E d \in Day(sweep.begun)..Today : snapshots[g][d] # None

=============================================================================
