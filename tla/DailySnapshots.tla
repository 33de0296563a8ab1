--------------------------- MODULE DailySnapshots ---------------------------
(***************************************************************************)
(* The snapshot and the analytics that are kept of each day of a wallet    *)
(* group, save_daily_snapshot, which writes them after a job of a worker   *)
(* or from the snapshot job, and the queries of the history handlers.      *)
(*                                                                         *)
(* A save fixes its day when it starts and makes five round trips to       *)
(* MongoDB; saves of one group run at the same time, and midnight may pass *)
(* between two steps.                                                      *)
(***************************************************************************)
EXTENDS WalletGroups, PortfolioMath, SequencesExt, FiniteSetsExt

CONSTANTS
    Workers,      \* tasks of the standalone worker
    Sweeper,      \* the snapshot job
    JobResults,   \* the results a completed job may have collected
    LastTick,     \* bound: the last tick of the clock
    TicksPerDay,  \* ticks of the clock in a day
    MaxSaves      \* bound: saves that workers start

Results == UNION {Range(results) : results \in JobResults}

\* A document of daily_snapshots.
Snapshot == [positions : Seq(Results), total : Int, createdAt : Nat]

ASSUME DailySnapshotsAssumption ==
    /\ JobResults \subseteq Seq(Results) /\ \A r \in Results : r.value \in Int
    /\ None \notin Snapshot
    /\ Sweeper \notin Workers
    /\ LastTick \in Nat /\ TicksPerDay \in Nat \ {0} /\ MaxSaves \in Nat

VARIABLES
    snapshots,  \* daily_snapshots: per group and day
    analytics,  \* portfolio_analytics: per group and day
    syncs,      \* sync_snapshots: those of a group, in the order of insertion
    saves,      \* per saver: its save_daily_snapshot
    started,    \* saves of workers so far, at most MaxSaves
    disturbed,  \* history: days with a save that failed, ran past midnight
                \* or overlapped with another one of the day
    swept,      \* history: days the snapshot job has saved
    cut         \* history: retention has deleted a snapshot

snapshotVars == <<snapshots, analytics, syncs, saves, started, disturbed, swept, cut>>

Savers == Workers \cup {Sweeper}
Day(time) == time \div TicksPerDay
LastDay == Day(LastTick)
Days == 0..LastDay
Today == Day(now)

Maps(keys, values) == UNION {[K -> values] : K \in SUBSET keys}

\* A document of portfolio_analytics.
Analytics ==
    [total : Int, previousDay : Int \cup {None},
     dailyPnl : Int, dailyPnlPercent : Quotient,
     cumulativePnl : Int, cumulativePnlPercent : Quotient,
     protocols : Maps({r.protocol : r \in Results},
                      [value : Int, percent : Quotient,
                       previousPercent : Quotient \cup {None}]),
     chains : Maps({r.chain : r \in Results}, [value : Int, percent : Quotient]),
     highWaterMark : Int, drawdown : Quotient,
     returns : Maps(Days, Quotient) \cup {None}]

ASSUME AnalyticsAssumption == None \notin Analytics

SaveSteps == {"idle", "upsert", "previous", "first", "totals", "analytics",
              "sync", "synced"}

NoSave == [step |-> "idle", group |-> None, day |-> 0, snapshot |-> None,
           previous |-> None, first |-> None, totals |-> <<>>]

SnapshotsInit ==
    /\ snapshots = [g \in Groups |-> [d \in Days |-> None]]
    /\ analytics = [g \in Groups |-> [d \in Days |-> None]]
    /\ syncs = [g \in Groups |-> <<>>]
    /\ saves = [s \in Savers |-> NoSave]
    /\ started = 0
    /\ disturbed = {}
    /\ swept = {}
    /\ cut = FALSE

\* Faulty variant: a snapshot is dated to the end of its day.
FromResultsAtMidnight(results) ==
    [positions |-> results, total |-> NetWorth(results),
     createdAt |-> (Today + 1) * TicksPerDay]

\* DailySnapshot::from_results
FromResults(results) ==
    [positions |-> results, total |-> NetWorth(results), createdAt |-> now]

----------------------------------------------------------------------------
(* SnapshotRepository                                                      *)

DaysWithSnapshot(g) == {d \in Days : snapshots[g][d] # None}
DaysWithAnalytics(g) == {d \in Days : analytics[g][d] # None}

\* The documents whose day a filter lets through.
InRange(documents, from, to) ==
    FlattenSeq([i \in DOMAIN documents |->
                   IF from <= documents[i].day /\ documents[i].day <= to
                   THEN <<documents[i]>> ELSE <<>>])

GetAnalytics(g, d) == IF d \in Days THEN analytics[g][d] ELSE None

GetFirstSnapshot(g) ==
    IF DaysWithSnapshot(g) = {} THEN None ELSE snapshots[g][Min(DaysWithSnapshot(g))]

\* The totals of the latest limit days that have a snapshot.
GetRecentTotals(g, limit) ==
    LET later(d) == {x \in DaysWithSnapshot(g) : x > d}
    IN  [d \in {x \in DaysWithSnapshot(g) : Cardinality(later(x)) < limit} |->
            snapshots[g][d].total]

----------------------------------------------------------------------------
(* save_daily_snapshot                                                     *)

InFlight(s) == saves[s].step \notin {"idle", "synced"}

Saving(g, d) == \E s \in Savers : InFlight(s) /\ saves[s].group = g /\ saves[s].day = d

BeginSave(s, g, results) ==
    /\ saves' = [saves EXCEPT ![s] =
                   [NoSave EXCEPT !.step = "upsert", !.group = g, !.day = Today,
                                  !.snapshot = FromResults(results)]]
    /\ disturbed' = IF Saving(g, Today) THEN disturbed \cup {<<g, Today>>} ELSE disturbed
    /\ swept' = IF s = Sweeper THEN swept \cup {<<g, Today>>} ELSE swept

Disturbance(s, failed) ==
    IF failed \/ Today # saves[s].day
    THEN disturbed \cup {<<saves[s].group, saves[s].day>>} ELSE disturbed

SaveStep(s, step, failed) ==
    /\ saves[s].step = step
    /\ IF failed THEN Fault ELSE UNCHANGED faults
    /\ disturbed' = Disturbance(s, failed)
    /\ UNCHANGED <<now, groups, started, syncs, swept, cut>>

Goes(s, next) == [saves EXCEPT ![s].step = next]

\* Where a save goes on when it is over: a worker inserts a sync snapshot
\* and marks the group as synced, whether the save succeeded or not.
Ended(s) == IF s = Sweeper THEN [saves EXCEPT ![s] = NoSave] ELSE Goes(s, "sync")

\* A failed upsert ends the save; it may have been applied.
UpsertSnapshot(s) ==
    \E failed \in BOOLEAN, applied \in BOOLEAN :
        /\ failed \/ applied
        /\ SaveStep(s, "upsert", failed)
        /\ snapshots' = IF applied
                        THEN [snapshots EXCEPT ![saves[s].group][saves[s].day] =
                                saves[s].snapshot]
                        ELSE snapshots
        /\ saves' = IF failed THEN Ended(s) ELSE Goes(s, "previous")
        /\ UNCHANGED analytics

\* Faulty variant: the analytics of the day itself are taken for those of
\* the day before.
PreviousSameDay(s) == GetAnalytics(saves[s].group, saves[s].day)

Previous(s) == GetAnalytics(saves[s].group, saves[s].day - 1)

\* The three reads: one that fails is only logged, its answer is nothing.
ReadPrevious(s) ==
    \E failed \in BOOLEAN :
        /\ SaveStep(s, "previous", failed)
        /\ saves' = [Goes(s, "first") EXCEPT ![s].previous =
                       IF failed THEN None ELSE Previous(s)]
        /\ UNCHANGED <<snapshots, analytics>>

ReadFirst(s) ==
    \E failed \in BOOLEAN :
        /\ SaveStep(s, "first", failed)
        /\ saves' = [Goes(s, "totals") EXCEPT ![s].first =
                       IF failed THEN None ELSE GetFirstSnapshot(saves[s].group)]
        /\ UNCHANGED <<snapshots, analytics>>

RecentDays == 8

ReadTotals(s) ==
    \E failed \in BOOLEAN :
        /\ SaveStep(s, "totals", failed)
        /\ saves' = [Goes(s, "analytics") EXCEPT ![s].totals =
                       IF failed THEN <<>>
                       ELSE GetRecentTotals(saves[s].group, RecentDays)]
        /\ UNCHANGED <<snapshots, analytics>>

Computed(s) ==
    ComputeAnalytics(saves[s].snapshot, saves[s].previous, saves[s].first, saves[s].totals)

\* $set: a field that the new document leaves out keeps its value.
SetFields(stored, document) ==
    IF stored = None THEN document
    ELSE [document EXCEPT
            !.previousDay = IF @ = None THEN stored.previousDay ELSE @,
            !.returns = IF @ = None THEN stored.returns ELSE @]

UpsertAnalytics(s) ==
    \E failed \in BOOLEAN, applied \in BOOLEAN :
        /\ failed \/ applied
        /\ SaveStep(s, "analytics", failed)
        /\ analytics' = IF applied
                        THEN [analytics EXCEPT ![saves[s].group][saves[s].day] =
                                SetFields(@, Computed(s))]
                        ELSE analytics
        /\ saves' = Ended(s)
        /\ UNCHANGED snapshots

SaveDailySnapshot(s) ==
    \/ UpsertSnapshot(s) \/ ReadPrevious(s) \/ ReadFirst(s) \/ ReadTotals(s)
    \/ UpsertAnalytics(s)

----------------------------------------------------------------------------
(* A worker after a job of the group that had a success: check_job_completion *)

CompleteJob(w, g) ==
    /\ saves[w].step = "idle"
    /\ started < MaxSaves
    /\ started' = started + 1
    /\ \E results \in JobResults : BeginSave(w, g, results)
    /\ UNCHANGED <<now, faults, groups, snapshots, analytics, syncs, cut>>

\* SyncSnapshot::from_results takes the day it is by then; a failed insert
\* is logged.
InsertSync(w) ==
    /\ saves[w].step = "sync"
    /\ \E failed \in BOOLEAN :
         /\ IF failed THEN Fault ELSE UNCHANGED faults
         /\ disturbed' = IF Today = saves[w].day THEN Disturbance(w, failed)
                         ELSE Disturbance(w, failed) \cup {<<saves[w].group, Today>>}
         /\ syncs' = IF failed THEN syncs
                     ELSE [syncs EXCEPT ![saves[w].group] =
                             Append(@, [day |-> Today, syncedAt |-> now,
                                        total |-> saves[w].snapshot.total])]
    /\ saves' = Goes(w, "synced")
    /\ UNCHANGED <<now, groups, snapshots, analytics, started, swept, cut>>

MarkSynced(w) ==
    /\ saves[w].step = "synced"
    /\ \/ groups' = Synced(saves[w].group) /\ UNCHANGED faults
       \/ Fault /\ UNCHANGED groups
    /\ saves' = [saves EXCEPT ![w] = NoSave]
    /\ UNCHANGED <<now, snapshots, analytics, syncs,
                   started, disturbed, swept, cut>>

WorkerStep(w) ==
    \/ \E g \in Groups : CompleteJob(w, g)
    \/ SaveDailySnapshot(w) \/ InsertSync(w) \/ MarkSynced(w)

\* The worker stops: nothing takes its save up again.
CrashWorker(w) ==
    /\ saves[w].step # "idle"
    /\ Fault
    /\ saves' = [saves EXCEPT ![w] = NoSave]
    /\ disturbed' = IF InFlight(w) THEN disturbed \cup {<<saves[w].group, saves[w].day>>}
                    ELSE disturbed
    /\ UNCHANGED <<now, groups, snapshots, analytics, syncs, started, swept, cut>>

----------------------------------------------------------------------------
(* The answers of the history handlers                                     *)

\* get_history: the snapshots of the range, by day, joined with the analytics
\* of the day, or zero.
History(g, from, to) ==
    [d \in {x \in DaysWithSnapshot(g) : from <= x /\ x <= to} |->
        [total |-> snapshots[g][d].total,
         dailyPnl |-> IF analytics[g][d] = None THEN 0 ELSE analytics[g][d].dailyPnl]]

\* get_analytics_summary: over every day there are analytics of.
AnalyticsSummary(g) ==
    LET days == DaysWithAnalytics(g)
        latest == analytics[g][Max(days)]
        pnl(d) == analytics[g][d].dailyPnl
    IN  [totalPnl |-> latest.cumulativePnl,
         highWaterMark |-> latest.highWaterMark,
         bestDay |-> Max({d \in days : \A x \in days : pnl(x) <= pnl(d)}),
         worstDay |-> Min({d \in days : \A x \in days : pnl(x) >= pnl(d)}),
         currentValue |-> latest.total,
         daysTracked |-> Cardinality(days)]

\* get_protocol_allocation: the entries of a protocol, by day.
ProtocolAllocation(g, from, to) ==
    LET days == {d \in DaysWithAnalytics(g) : from <= d /\ d <= to}
        names == UNION {DOMAIN analytics[g][d].protocols : d \in days}
    IN  [p \in names |->
           [d \in {x \in days : p \in DOMAIN analytics[g][x].protocols} |->
               analytics[g][d].protocols[p].value]]

\* get_sync_history: the latest first.
SyncHistory(g, from, to) == Reverse(InRange(syncs[g], from, to))

\* get_snapshot_detail: the day's snapshot with its analytics, if any.
SnapshotDetail(g, d) ==
    IF snapshots[g][d] = None THEN None
    ELSE [total |-> snapshots[g][d].total, summary |-> BuildSummary(snapshots[g][d].positions),
          analytics |-> analytics[g][d]]

=============================================================================
