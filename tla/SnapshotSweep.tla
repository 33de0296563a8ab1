---------------------------- MODULE SnapshotSweep ----------------------------
(***************************************************************************)
(* run_snapshot_job: backfill of lastSyncedAt, the sweep, which processes  *)
(* the accounts of the active groups that lack a recent snapshot and saves *)
(* one for each, and retention.  One action per round trip, or per account *)
(* and chain.                                                              *)
(***************************************************************************)
EXTENDS DailySnapshots, Addresses

CONSTANTS
    Chains,         \* the sweep's default chains
    PairResults,    \* [account and chain -> what processing it may return]
    RetentionDays,  \* SNAPSHOT_RETENTION_DAYS
    ActiveTicks,    \* ACTIVE_WALLET_DAYS, in ticks
    MaxSweeps       \* bound: runs of the job

VARIABLES
    sweep,       \* the job: its step and its local state
    sweepCache,  \* the cache entries of the sweep: [day, pair] -> results
    sweeps       \* runs so far, at most MaxSweeps

sweepVars == <<sweep, sweepCache, sweeps>>

SweepSteps == {"idle", "fill", "recent", "groups", "snapshots", "analytics", "syncs"}

\* day: the day of the cache keys, and then the first day retention keeps;
\* lacking: groups to backfill with their updatedAt; listed: the wallets of
\* the groups listed; missing: the groups to save; pairs: those to process;
\* due: history, the groups that were missing; found: history, the results
\* this run has put into the cache or found there.
NoSweep == [step |-> "idle", day |-> 0, begun |-> 0, lacking |-> <<>>, listed |-> <<>>,
            missing |-> {}, due |-> {}, pairs |-> {}, found |-> <<>>]

SweepInit ==
    /\ sweep = NoSweep
    /\ sweepCache = <<>>
    /\ sweeps = 0

Pair == {ToLower(a) : a \in Accounts} \X Chains

ASSUME SnapshotSweepAssumption ==
    /\ Accounts \subseteq Address /\ Chains \subseteq Chain /\ IsFiniteSet(Chains)
    /\ PairResults \in [Pair -> SUBSET JobResults]
    /\ RetentionDays \in Nat /\ ActiveTicks \in Nat /\ MaxSweeps \in Nat

\* The accounts of a group as they are written in it, two spellings of one
\* included, with the chains they may be used on.
Written(wallets) == {p \in wallets \X Chains : IsChainCompatible(p[1], p[2])}

\* The cache key and the account that is processed are in lower case.
InLowerCase(p) == <<ToLower(p[1]), p[2]>>

PairsOf(wallets) == {InLowerCase(p) : p \in Written(wallets)}

Without(f, key) == [k \in DOMAIN f \ {key} |-> f[k]]

With(f, key, value) ==
    [k \in DOMAIN f \cup {key} |-> IF k = key THEN value ELSE f[k]]

RestUnchanged ==
    UNCHANGED <<now, started, swept>>

\* The job stops on an error and the process exits.
GiveUp == sweep' = NoSweep

----------------------------------------------------------------------------
(* backfill_last_synced_at                                                 *)

\* The job starts with the cursor over the groups without lastSyncedAt; an
\* error is logged.
FindLacking ==
    /\ sweep.step = "idle" /\ sweeps < MaxSweeps
    /\ sweeps' = sweeps + 1
    /\ \/ /\ sweep' = [NoSweep EXCEPT !.step = "fill", !.begun = now, !.lacking = Lacking]
          /\ UNCHANGED faults
       \/ Fault /\ sweep' = [NoSweep EXCEPT !.step = "fill", !.begun = now]
    /\ UNCHANGED <<now, groups, snapshotVars, sweepCache>>

\* One update per group the cursor returned: by its id, whatever has become
\* of the group since.
Backfill(g) ==
    /\ sweep.step = "fill" /\ g \in DOMAIN sweep.lacking
    /\ \/ groups' = Backfilled(g, sweep.lacking[g]) /\ UNCHANGED faults
       \/ Fault /\ UNCHANGED groups
    /\ sweep' = [sweep EXCEPT !.lacking = Without(@, g)]
    /\ RestUnchanged
    /\ UNCHANGED <<snapshots, analytics, syncs, saves, disturbed, cut, sweepCache, sweeps>>

----------------------------------------------------------------------------
(* run_sweep                                                               *)

\* The day of the cache keys is fixed before the groups are listed.  Without
\* a group the sweep is over.
ListAll ==
    /\ sweep.step = "fill" /\ DOMAIN sweep.lacking = {}
    /\ \/ /\ LET listed == ListGroups
             IN  sweep' = [sweep EXCEPT !.day = Today,
                             !.step = IF listed = {} THEN "groups" ELSE "recent",
                             !.listed = [g \in listed |-> groups[g]]]
          /\ UNCHANGED faults
       \/ Fault /\ GiveUp
    /\ UNCHANGED <<now, groups, snapshotVars, sweepCache, sweeps>>

\* get_wallet_group_ids_with_recent_snapshot: a snapshot of any day that was
\* created within 23 hours, that is, less than a day of ticks ago.
RecentlySaved(g) ==
    \E d \in DaysWithSnapshot(g) : now - snapshots[g][d].createdAt < TicksPerDay

\* A group never synced counts as active.
IsActiveGroup(document) ==
    document.syncedAt = None \/ document.syncedAt > now - ActiveTicks

FindMissing ==
    /\ sweep.step = "recent"
    /\ \/ /\ LET missing == {g \in DOMAIN sweep.listed :
                               ~RecentlySaved(g) /\ IsActiveGroup(sweep.listed[g])}
             IN  sweep' = [sweep EXCEPT !.missing = missing, !.due = missing,
                             !.listed = [g \in missing |-> @[g]],
                             !.step = "groups",
                             !.pairs = UNION {PairsOf(sweep.listed[g].wallets) :
                                              g \in missing}]
          /\ UNCHANGED faults
       \/ Fault /\ GiveUp
    /\ UNCHANGED <<now, groups, snapshotVars, sweepCache, sweeps>>

\* One pair: a cached one is skipped, unless its entry cannot be read; the
\* results of any other are cached, unless processing or the write fails.
ProcessPair(pair) ==
    LET key == [day |-> sweep.day, pair |-> pair]
        hit == key \in DOMAIN sweepCache
    IN  /\ sweep.step = "groups" /\ pair \in sweep.pairs
        /\ \/ /\ hit
              /\ sweep' = [sweep EXCEPT !.pairs = @ \ {pair},
                                        !.found = With(@, pair, sweepCache[key])]
              /\ UNCHANGED <<sweepCache, faults>>
           \/ /\ IF hit THEN Fault ELSE UNCHANGED faults
              /\ \E results \in PairResults[pair] :
                   /\ sweepCache' = With(sweepCache, key, results)
                   /\ sweep' = [sweep EXCEPT !.pairs = @ \ {pair},
                                             !.found = With(@, pair, results)]
           \/ /\ Fault
              /\ sweep' = [sweep EXCEPT !.pairs = @ \ {pair}]
              /\ UNCHANGED sweepCache
        /\ UNCHANGED <<now, groups, snapshotVars, sweeps>>

\* Faulty variant: the results are looked up under the account as it is
\* written in the group.
KeyAsWritten(p) == [day |-> sweep.day, pair |-> p]

KeyOf(p) == [day |-> sweep.day, pair |-> InLowerCase(p)]

\* What the cache returns for the accounts read, one after the other: what
\* two spellings of one account share is returned, and counted, twice.
Collected(read) ==
    LET hits == SetToSeq({p \in read : KeyOf(p) \in DOMAIN sweepCache})
    IN  FlattenSeq([i \in DOMAIN hits |-> sweepCache[KeyOf(hits[i])]])

\* Then the groups are saved one after the other; one without results is
\* skipped.  A read that fails is a miss.
SaveGroup(g) ==
    /\ sweep.step = "groups" /\ sweep.pairs = {} /\ g \in sweep.missing
    /\ ~InFlight(Sweeper)
    /\ \E got \in SUBSET Written(sweep.listed[g].wallets) :
         /\ IF got = Written(sweep.listed[g].wallets) THEN UNCHANGED faults ELSE Fault
         /\ IF Collected(got) = <<>> THEN UNCHANGED <<saves, disturbed, swept>>
                                     ELSE BeginSave(Sweeper, g, Collected(got))
    /\ sweep' = [sweep EXCEPT !.missing = @ \ {g}]
    /\ UNCHANGED <<now, groups, snapshots, analytics, syncs, started, cut,
                   sweepCache, sweeps>>

SweepSave ==
    /\ SaveDailySnapshot(Sweeper)
    /\ UNCHANGED sweepVars

----------------------------------------------------------------------------
(* run_retention: three deletions, each of which may fail, before a day    *)
(* that is fixed once.                                                      *)

StartRetention ==
    /\ sweep.step = "groups" /\ sweep.pairs = {} /\ sweep.missing = {}
    /\ ~InFlight(Sweeper)
    /\ sweep' = [sweep EXCEPT !.step = "snapshots", !.day = Today - RetentionDays]
    /\ UNCHANGED <<now, faults, groups, snapshotVars, sweepCache, sweeps>>

Kept(stored) ==
    [g \in Groups |-> [d \in Days |-> IF d < sweep.day THEN None ELSE stored[g][d]]]

Retention(step, next) ==
    /\ sweep.step = step
    /\ sweep' = IF next = "idle" THEN NoSweep ELSE [sweep EXCEPT !.step = next]
    /\ RestUnchanged
    /\ UNCHANGED <<groups, saves, sweepCache, sweeps>>

DeleteOldSnapshots ==
    /\ Retention("snapshots", "analytics")
    /\ \/ /\ snapshots' = Kept(snapshots)
          /\ cut' = (cut \/ Kept(snapshots) # snapshots)
          /\ UNCHANGED <<disturbed, faults>>
       \/ /\ Fault
          /\ disturbed' = disturbed \cup {p \in Groups \X Days : p[2] < sweep.day}
          /\ UNCHANGED <<snapshots, cut>>
    /\ UNCHANGED <<analytics, syncs>>

DeleteOldAnalytics ==
    /\ Retention("analytics", "syncs")
    /\ \/ analytics' = Kept(analytics) /\ UNCHANGED faults
       \/ Fault /\ UNCHANGED analytics
    /\ UNCHANGED <<snapshots, syncs, disturbed, cut>>

DeleteOldSyncs ==
    /\ Retention("syncs", "idle")
    /\ \/ /\ syncs' = [g \in Groups |-> InRange(syncs[g], sweep.day, LastDay)]
          /\ UNCHANGED faults
       \/ Fault /\ UNCHANGED syncs
    /\ UNCHANGED <<snapshots, analytics, disturbed, cut>>

SweepStep ==
    \/ FindLacking \/ (\E g \in Groups : Backfill(g)) \/ ListAll
    \/ FindMissing \/ (\E pair \in Pair : ProcessPair(pair))
    \/ (\E g \in Groups : SaveGroup(g)) \/ SweepSave
    \/ StartRetention \/ DeleteOldSnapshots \/ DeleteOldAnalytics \/ DeleteOldSyncs

\* The job's process is killed; a later run starts from the beginning.
CrashSweep ==
    /\ sweep.step # "idle"
    /\ Fault
    /\ GiveUp
    /\ saves' = [saves EXCEPT ![Sweeper] = NoSave]
    /\ disturbed' = IF InFlight(Sweeper)
                    THEN disturbed \cup {<<saves[Sweeper].group, saves[Sweeper].day>>}
                    ELSE disturbed
    /\ UNCHANGED <<now, groups, snapshots, analytics, syncs, started, swept, cut,
                   sweepCache, sweeps>>

=============================================================================
