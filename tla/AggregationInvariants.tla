------------------------- MODULE AggregationInvariants -------------------------
(***************************************************************************)
(* Why the properties of Aggregation hold: the facts about reachable       *)
(* states that each step preserves.                                        *)
(***************************************************************************)
EXTENDS Aggregation

----------------------------------------------------------------------------
(* Nothing but its own handler brings a job into being.                    *)

\* The jobs whose hash has been written.
Created == {j \in Requests : meta[j].exists} \cup expired

BeforeCreate == {"start", "readGroupJob", "scan", "expire", "readJob", "create"}
AfterCreate  == {"index", "publish", "setProcessing"}

Untouched(j) ==
    /\ meta[j] = EmptyMeta
    /\ locks[j] = {}
    /\ countedOk[j] = {} /\ countedBad[j] = {}

\* A handler creates its job once, and before that nobody has heard of it.
HandlersCreateOnce ==
    \A r \in Requests :
        /\ api[r] \in BeforeCreate => r \notin Created
        /\ api[r] \in AfterCreate => r \in Created
        /\ unsent[r] \subseteq MessagesOf(r)

\* Every job that an index, a search, a message or a task names was created.
NamedJobsCreated ==
    /\ active \subseteq Created
    /\ \A g \in Groups : wgIndex[g] \in Created \cup {NoJob}
    /\ \A r \in Requests : candidates[r] \subseteq Created
    /\ \A r \in Requests : target[r] \in Created \cup {NoJob}
    /\ \A m \in Messages : queue[m] > 0 => m.job \in Created
    /\ \A w \in Workers : work[w] # "idle" => task[w].job \in Created

\* A job that was not created has no state, and one that was knows how many
\* messages it has.
CreatedJobs ==
    \A j \in Requests :
        /\ j \notin Created => Untouched(j)
        /\ meta[j].exists /\ j \notin expired =>
             meta[j].expected = Cardinality(MessagesOf(j))

Provenance == HandlersCreateOnce /\ NamedJobsCreated /\ CreatedJobs

----------------------------------------------------------------------------
(* What a task has established when it gets to a point of its work.        *)

\* The job it is about to mark final has left the active index.
ClosingUnlisted ==
    \A w \in Workers : work[w] = "markFinal" => task[w].job \notin active

Closing == {"readResults", "complete", "markFinal", "save"}

\* The job it found complete still is.
ClosingProcessed ==
    \A w \in Workers :
        work[w] \in Closing /\ task[w].job \notin expired => AllProcessed(meta[task[w].job])

\* The results of the unit it is about to count are stored.
ResultsBeforeCount ==
    \A w \in Workers :
        work[w] \in {"operations", "countOk"} /\ task[w].job \notin expired
            => UnitOf(task[w]) \in results[task[w].job]

Progress ==
    /\ ClosingUnlisted /\ FinalNotListed
    /\ ClosingProcessed /\ CompletionCounted
    /\ ResultsBeforeCount /\ CountedUnitsStored

----------------------------------------------------------------------------
(* The processing locks of an undisturbed job.                             *)

Holds(w, j) == work[w] \in Holding /\ task[w].job = j

\* A task that holds the lock of its unit is the only one, and nobody has
\* counted the unit.
HoldersExclusive ==
    \A w \in Workers : \A j \in Requests : Undisturbed(j) /\ Holds(w, j) =>
        /\ UnitOf(task[w]) \in locks[j]
        /\ \A m \in Counted(j) : UnitOf(m) # UnitOf(task[w])
        /\ \A v \in Workers \ {w} : Holds(v, j) => UnitOf(task[v]) # UnitOf(task[w])

\* A unit that was counted stays locked.
CountedLocked ==
    \A j \in Requests : Undisturbed(j) => \A m \in Counted(j) : UnitOf(m) \in locks[j]

LockInv == HoldersExclusive /\ CountedLocked /\ CountersExact

----------------------------------------------------------------------------
(* What completion works with.                                             *)

\* A task that closes a job knows its verdict.
SeenVerdict ==
    \A w \in Workers :
        work[w] \in {"readResults", "complete"} /\ Undisturbed(task[w].job)
            => (seen[w].succeeded <=> meta[task[w].job].succeeded > 0)

\* A job of which nothing is left to count.
Done(j) == meta[j].exists /\ AllProcessed(meta[j])

\* The job of a saved snapshot had been counted.
SavedProcessed ==
    \A g \in Groups :
        daily[g].job # NoJob /\ Undisturbed(daily[g].job) => Done(daily[g].job)

VerdictInv ==
    /\ SeenVerdict /\ VerdictMatchesCounters
    /\ SavedProcessed /\ CompletionSeesAllResults /\ DailySnapshotComplete

=============================================================================
