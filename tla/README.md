# DeFi10 in TLA+

DeFi10 shows a user's DeFi portfolio: an API starts an *aggregation job* for a
set of accounts, workers collect the positions of every account on every chain,
Redis holds the state of the job, a React hook polls it, and the result is kept
as a daily snapshot of the wallet group, with analytics that carry over from day
to day.  This directory models these parts, checks them with TLC on small
instances, and proves the most important properties with TLAPS for every value
of the constants.  Paths below are relative to `src/`; `B/` stands for
`backend-rust/crates/`, `F/` for `frontend/src/`.

## 1. Inventory

| Component | Code | State | Operations | What is hard | Correct means |
|---|---|---|---|---|---|
| Aggregation start | `B/api/src/handlers/aggregations.rs`, `B/infrastructure/src/aggregation/publisher.rs` | where each request is | search for an active job, create, index, publish, set processing | requests and workers act between any two round trips; the handler may be dropped | every request is answered; a job offered again is not final |
| Job manager | `B/infrastructure/src/aggregation/job_manager.rs`, `B/core/src/aggregation.rs` | Redis: job hash, active index, group index, locks, results, operations | create, status, final, counters, results, lock, search, snapshot | an attempt that fails may have been applied and is repeated; keys expire | counters equal the work done; final jobs stay final and unlisted |
| Broker | `B/infrastructure/src/messaging/rabbitmq.rs` | the queue | publish, deliver, ack, requeue | no confirms: lost and doubled messages; redelivery under a running task | what is counted is counted once |
| Aggregation worker | `B/worker/src/main.rs`, `B/api/src/worker/mod.rs` | a task per slot, the account cache | lock, fetch, store, count, complete, save, ack or nack | crashes between two steps; two tasks that both see the job complete | completion is earned, sees all results, and is consistent |
| Collecting a unit | `B/api/src/worker/processor.rs`, `B/worker/src/processor.rs`, `B/protocols/src/registry.rs` | the results so far, what was reported of each source | connect, ask each source, price, filter, cache, store one by one | any call of any source fails on its own; two processes with code of their own share one queue and one cache | a failure costs what it touches and nothing else, and is reported |
| Protocol integrations | `B/protocols/src/{aave,pendle,uniswap,raydium,kamino}` | none | read, turn into positions and results | the pieces of one position come from several calls | what is read is shown under its sign, label and owner |
| Uniswap and Raydium fees | the services of both, `B/infrastructure/src/database/raydium_position_repository.rs` | a document per Raydium position | difference of counters that wrap; scan of transactions | the pool moves between two reads; two readers of one document | fees are exact, a payment is counted once |
| Price hydration | `B/infrastructure/src/price_hydration_service.rs` | a cache in memory | find peers, look up, ask, guess | concurrent deliveries share the cache; entries age | prices are fresh, guesses are not remembered |
| Aggregation response | `get_job_status` in `aggregations.rs`, `B/api/src/handlers/wallet_item.rs` | none | group, de-duplicate, summarise | results come in while they are polled, and again, at other prices, after a redelivery; the hash lists them in no order | nothing shown disappears, only duplicates are dropped |
| Account cache | `B/infrastructure/src/cache/redis_cache.rs` | results per unit | get, set | read, written and expiring under running tasks | a hit stands for the work it saves |
| Portfolio snapshots | `B/worker/src/snapshot_save.rs`, `B/core/src/snapshot.rs`, `B/infrastructure/src/database/snapshot_repository.rs` | a snapshot and analytics per group and day, sync snapshots | five round trips per save | saves overlap, fail half way, and run past midnight | snapshot, analytics and history of a day agree |
| Daily analytics and history | `B/core/src/analytics.rs`, `B/api/src/handlers/history.rs` | analytics per day | profit, high-water mark, drawdown; queries | days are missing or rewritten | the mark and the profits carry over |
| Snapshot sweep and retention | `B/worker/src/sweep.rs`, `B/worker/src/bin/snapshot_job.rs` | its cache, the snapshots | backfill, find groups without a recent snapshot, process, save; delete old | runs beside the workers on a list it read at its start | each active group gets a snapshot of all that was found |
| Wallet groups | `B/infrastructure/src/database/wallet_group_repository.rs`, `B/api/src/handlers/wallet_groups.rs` | the group documents | list, mark synced, backfill; create, update, delete, connect | read-modify-write; groups deleted under a job | no update is undone |
| Job polling | `F/hooks/useAggregationJob.ts` | React state, refs, a timer | ensure, poll, cleanup | queued updates against refs that change at once; loops of older renders | the job that is shown is the one that was asked for, is polled to its end, and polling stops |
| The rest | section 6 | | | | not modelled |

**How they interact.**  `POST /aggregations` searches Redis for an active job of
the same group or accounts.  If there is none it writes the job hash and the
indexes, publishes one message per compatible account and chain, and then sets
the status to `processing`.  Workers - tasks of the standalone worker and of a
copy inside the API process - compete for the messages.  Each task takes the
lock of its unit of work with `SET NX`, looks the unit up in the account cache
or collects it: source after source is asked, results without a price get one,
what has no price is filtered, and the rest is cached and put, one by one, into
the hash of the job's results, where a result overwrites the one that has its
field.  The task then increments the counters and reads the job again; the
one that finds all messages counted writes the verdict, marks the job final and,
in the standalone worker, saves the group's snapshot.  The browser polls `GET
/aggregations/{jobId}`, which turns the results into items, until it sees
`completed`.  Beside all this the snapshot job runs from time to time: it lists
the groups, processes the accounts of those without a recent snapshot with the
same processor, saves a snapshot for each and deletes old ones.  Nothing spans
two of these calls: there is no transaction, and every Redis call is retried up
to three times whether or not the failed attempt was applied.

`PROJECT.json` lists the hazards of this code, line by line, with the properties
that watch each of them.

## 2. Modules

```
Addresses <- JobManager <- Broker <- AggregationStart  \
                                  <- AggregationWorker  > Aggregation <- MCAggregation
                                       JobLifecycle   /       ^
                                                    AggregationInvariants
                     AggregationSafety <- AggregationCounting <- AggregationVerdict
Options <- WalletGroups  \
        <- PortfolioMath  > DailySnapshots <- SnapshotSweep <- Portfolio <- MCPortfolio
Options <- Positions <- AaveV3, Pendle, UniswapV3, Raydium,  \
                        Kamino, WalletTokens  <- Processors   \
                     <- PriceHydration                         > Collect <- MCCollect
                     <- WalletItems                           /
FeeGrowth <- PoolFees <- MCPoolFees
JobPolling <- MCJobPolling;           JobPolling <- JobPollingProofs
FoldTheorems <- PoolFeesProofs, PortfolioProofs, CollectProofs, each with its component
```

*The pipeline.*

| Module | Models | State and actions |
|---|---|---|
| `Addresses` | `AddressKinds`, compatibility of accounts and chains, lower-casing, the comparison of account lists | operators only; an address is a kind, a body and whether it is written in upper case, because the code sorts *before* it lowers |
| `JobManager` | the Redis state and every operation that changes it | `meta`, `active`, `wgIndex`, `locks`, `results`, `operations`; a call is summarised by `[ok, applied]`: what it returned and how many of its attempts took effect.  `Spend` charges failed attempts to `faults`, at most `MaxFaults` |
| `Broker` | the queue as a bag | `queue`; publish without confirms, take, requeue |
| `AggregationStart` | `start_aggregation` | `api[r]` is the await at which the handler of request `r` is; one action per round trip |
| `AggregationWorker` | `process_message`, `check_job_completion`, acknowledgement | `work[w]` is where the task of slot `w` is, `task[w]` its message, `attached[w]` whether the broker still waits for its answer; one action per round trip |
| `Aggregation` | the composition, expiry of keys, fairness, the properties | `Handler`, `Task`, `Environment` |
| `JobLifecycle` | the abstract promise: each piece of work is tallied once, then the job gets one verdict | refined by `Aggregation` |
| `AggregationInvariants`, `AggregationSafety`, `...Counting`, `...Verdict` | the strengthened invariants and the proofs | section 5 |

*What a unit is worth.*  `Collect` zooms into the two steps of the pipeline
between a lock and a counter, `Process` and `StoreResults`, which there only
have an outcome.

| Module | Models | State and actions |
|---|---|---|
| `Positions` | `positions_to_results` and the registry: positions, tokens, results | operators; a result is the record of the fields that later steps tell apart; `Chosen` is a filter, by places |
| `AaveV3`, `Pendle`, `UniswapV3`, `Raydium`, `Kamino`, `WalletTokens` | what each service makes of the answers it gets, and of those it does not get | operators from what a service would answer, and the set of calls that fail, to `Answered(results)` or `Failed` |
| `Processors` | which sources the worker's registry and the API's processor ask, and what calls each makes | operators |
| `PriceHydration` | peers, cache, guesses | operators; the cache is `prices` of `Collect` |
| `WalletItems` | `transform_results_to_items`, `dedupe_group_results`, `update_summary` | operators; a group is a function from the fields of its results in the hash of the job; since `HVALS` lists a hash in no order, `ItemsOf` is the set of the items that a group may be shown as |
| `Collect` | a delivery from its lock to the results of its job | `tasks[d]` is how far delivery `d` is; `Take`, `Connect...`, `Ask` (one source), `Screen`, `Hydrate`, `Price`, `Quote`, `Guess`, `Cache`, `AddResult` (one `HSET`); `prices` per process, `cached` per unit, `hashes` per job, by `DedupField`.  `needing` is the set of places left to price, taken in order |
| `CollectProofs` | the invariants of a delivery, of the caches and of the hashes, and the proofs | section 5 |

*What is kept of a day.*

| Module | Models | State and actions |
|---|---|---|
| `WalletGroups` | the group documents as workers and the snapshot job use them | `groups`, `now` |
| `PortfolioMath` | `build_summary`, `compute_analytics` | operators; a quotient is a pair, never rounded; what the code keeps in a list sorted by date - the recent totals - is a function from days |
| `DailySnapshots` | `save_daily_snapshot` of workers and sweep, the sync snapshots, the queries of `history.rs` | `snapshots`, `analytics`, `syncs`; `saves[s]` is the round trip at which saver `s` is |
| `SnapshotSweep` | `run_snapshot_job`: backfill, sweep, retention | `sweep`, `sweepCache`; one action per round trip, account and chain |
| `Portfolio` | the composition, the clock, the properties | `Tick`, `LoseEntry`, `SaverStep`, `SweepStep`, crashes |
| `FoldTheorems`, `PortfolioProofs` | what sums, extremes and concatenations amount to; the invariants of the days and of the sweep, and the proofs | section 5 |

*Fees and the page.*

| Module | Models | State and actions |
|---|---|---|
| `FeeGrowth` | `subtract_uint256`, `calculate_fee_growth_inside`, the uncollected fees of both services | operators modulo `Modulus` |
| `PoolFees` | a pool that moves while it is read, and `resolve_collected_fees` | `pool`, `indexed` (the subgraph), `store` (the document), `readers[r]`; one action per call |
| `JobPolling` | the hook `useAggregationJob` | `queued` is the state after the updates made so far, `ui` the committed one; refs (`cancelled`, `attempts`, `owner`, `pollTimer`) change at once; `loops` are the activations of `run` |

**What a step is.**  A handler or task may be interrupted at every `await`, so one
action covers the code from one round trip to the next, with all its early
returns.  The retries inside one call are one step.  For a
write whose repetition changes nothing this only hides that its effect may be
visible, or be repeated over another actor's write, while the call still goes
on; where repetition matters (`increment_counters` adds again,
`try_acquire_processing_lock` finds its own lock) every outcome is there.  In
`Collect` asking one source is one step, since its calls are answered by services
that nothing in the model changes; in `PoolFees`, where the pool moves, each of
these calls is a step.

**What is abstracted.**  A job is named by the request that creates it.  In the
pipeline results and operations are sets of units: which units have any, not
their content; their content is in `Collect`.  "No progress for five minutes" is
a choice (`StaleJobs`).  `processedCount` is the sum of the other counters,
because the same block increments both.  `timedOut` counters are never
incremented by the code and are left out.  Amounts and prices are small
integers, a time is a tick of a clock, `2^256` and `2^128` are `Modulus`.  Of a
position in a pool the fees of one token are followed; those of the other may
call for a scan at any time.
Decoding of bytes, names, logos and formats are left out.  The variables called
"history" in the comments (`countedOk`, `disturbed`, `swept`, `due`, `grown`, ...)
record what happened for the properties; no action reads them.

The definitions marked "Faulty variant" are plausible bugs; each property is
known to fail, in the run that checks it, when the definition below a variant
is replaced by it.

## 3. Runs

| Run | Instance | Distinct states | Question |
|---|---|---|---|
| `deliver` | one job of two messages for a wallet group, two slots (one standalone); a requeued delivery, a dropped handler, fairness | 66 thousand | Are counters, completion, verdict, saved snapshot and the abstract promise right under redelivery?  Is every request answered, does every job end? |
| `race` | three requests for one account, two by their group and one by its accounts, one slot, one failed attempt, stale jobs, one job whose keys expire | 4.6 million | May a search offer, drop or expire a job wrongly while it is worked on?  Do late messages of an expired job harm anything? |
| `faults` | one job of two messages, three failed attempts (a whole call can fail), a crash | 2.3 million | What survives when Redis and the broker fail? |
| `collect` | two messages in four constellations, two processes, one failing call, an hour passing, two attempts | 506 thousand | Do failures stay where they are?  Are prices fresh?  Does what was shown stay? |
| `days` | one group, a worker with two saves and one run of the snapshot job, three days, one failed operation, retention of one day | 3.6 million | Do snapshot, analytics and history agree, and carry over from day to day? |
| `fees` | two readers, three moves of the pool, three reads, one failing call, counters modulo 32 | 1.6 million | Are the fees exact?  Is a payment counted once? |
| `poll` | two calls of `ensure` on a wallet or a group, three attempts, fairness | 31 thousand | Is the right job shown and polled, does polling stop? |
| `status`, `twice`, `crash`, `accounts`, `switch` | as above, nothing failing but the crash | - | expected violations, section 4 |

*Properties of the pipeline.*  `CountersExact`: the counters of a job are the
messages counted, each once.  `CompletionEarned` and `CompletionCounted`: a job
is not reported complete before its time, in a system without and with failed
attempts.  `VerdictMatchesCounters`: the terminal status agrees with the
counters although several tasks write it.  `CountedUnitsStored`: what is counted
can be read.  `CompletionSeesAllResults`, `DailySnapshotComplete`: who finds a
job complete, and what is saved of it, has the results of every unit.
`FinalNotListed`, `FinalIsFrozen`: a final job is never offered again and never
changes.  `LockHolderAlive`: a skipped message is a duplicate, as long as no
process dies.  `LifecycleSpec`: the pipeline implements `JobLifecycle`.
`RequestsAnswered`, `JobsFinish`: liveness.

Properties stated "until the first failed attempt" (`Undisturbed`) really fail
after one: a repeated `HINCRBY` counts a unit twice, and the job completes
early.  The hazards say so at the line.

*Properties of what is collected.*  `FailuresContained`: a source all of whose
calls were answered is reported as a success, with each thing it holds among the
results of the job, whatever happened to the sources before and after it; and
only a source that lost a call is reported as failed.  `FreshPrices`: a price that
is filled in is that of another result, or was given for the symbol within the
hour, in this delivery or a concurrent one; a guess is not remembered.
`ShownStaysShown`: an item never loses a token, and no counter goes down, while
further results arrive, also those of a repeated delivery that overwrite the
earlier ones with other prices; and in whatever order the hash is listed.  Both
compare prices and amounts only of a holding that the job has found *once*
(`FoundOnce`).  A redelivered message replaces what it has stored before, and
two results of Kamino for one mint in two markets have the same field, since
their metadata has no id: the later one replaces the earlier, in the model as
in the code, and no text promises both.

*Properties of the days.*  A day is *settled* when its saves did not fail,
overlap or run past midnight.  `DayAgrees`: of a settled day the snapshot, the
analytics, the shares of the protocols and the last sync snapshot are of one
portfolio.  `HighWaterCarried`: the reported mark is no lower than any day of
the unbroken run up to the latest.  `PnlAddsUp`: the reported total is the sum of
the reported days.  `SweepSavesAll`: without a fault, the sweep saves every
position it has found of the accounts of a group, and skips no group.

*Properties of fees and page.*  `FeesExact`: a read whose parts belong together
reports what the contract would pay, through wrap-around and with the price
anywhere.  `CollectedOnce`: no payment is counted twice, however reads overlap
or fail.  `OwnerMatchesJob`, `PollingStops`, `CompletedIsQuiet`,
`FirstJobPolled`: the hook.

*Bounds.*  Two messages and two slots are the smallest instance with two tasks
that complete a job together, with a holder and a duplicate of one lock, and
with one unit that succeeds while another fails.  In `race` the request without
a group reads the active index, finds the jobs of the other two there, and may
drop them as inactive, expire them as stale, pass them over or take one, while
they are created, worked on and finished; the two of one group find each other
by it.  One of the three jobs has no message, so that the one slot is enough to
finish the others between any two steps of a search.  One crash,
one requeue and one dropped handler can each hit every step; three failed
attempts are one call that fails for good, or three that fail once.  In
`collect` the constellations are one unit delivered twice in one job or in two,
an account on an EVM chain with one on Solana, and a chain without a node; one
failing call reaches every call of every source, two attempts are one retry.
In `days` a tick is a day, so that midnight falls between any two steps; three
days are the fewest in which the mark has to survive a day lower than it.  In
`fees` the counters start two below the modulus, so that the first swap wraps, and a
tick can be crossed, or the position touched and paid, in the middle of a read;
the two readers differ in nothing and are symmetric.  In `poll` two calls
of `ensure` give a switch or a retry, three attempts an exhausted poll.
`CHECK_DEADLOCK FALSE` is set because all of these systems stop when their
requests are answered, their messages consumed or their bounds used up.

*Fairness* is assumed in `deliver`, `status` and `twice`, and in `poll` and
`switch`; the other runs check safety only.  `WF(Handler(r))` and `WF(Task(w))`:
Tokio drives a handler and a spawned task until they return, and a free permit
takes what the broker delivers.  Every Redis and broker call has a timeout and
a bounded number of attempts; that calls to the chains return is assumed.
Nothing is assumed of clients, crashes, channels and expiry.  In `JobPolling`
requests end, timers fire and React commits; the user and the server need not do
anything.

## 4. Where code and text disagree

- **status** - the handler's own `processing` is written after the messages are
  published.  Workers that finish first are overwritten, for good: the job is
  final but never looks complete, and the client polls until its attempts run out.
- **twice** - messages are counted per account as written, locks are taken per
  account in lower case.  One account in two spellings makes a job that expects
  two units and can count one.
- **crash** - a lock outlives the task that took it.  The redelivered message is
  skipped as a "duplicate delivery" although nobody has processed it.
- **accounts** - neither the key of an item nor that of a duplicate names the
  account.  Of two accounts of a group that lend the same token on a chain, one
  holding is dropped from the answer as a duplicate.
- **switch** - the cleanup of the polling effect cancels polling *after* the reset
  for the next job has enabled it, so a job that replaces another one is never
  polled; the same holds for a retry that gets the job it already had.

## 5. Proofs

The theorems hold for any finite set of requests and for any groups, slots,
account lists, chains, jobs, readers, pools and bounds.  They rest on the
`ASSUME`s of the modules, which only say what kind of values the constants are,
that requests are finitely many, that the account list of a request is not empty
(the handler rejects it), and for `PoolFees` and `Collect` what is said there
below.

*The pipeline* (`Spec` of `Aggregation`):

1. `TypeCorrect` (`AggregationSafety`): `TypeOK`, one lemma per operation of
   the job manager, one per group of actions.
2. `ProvenanceAlways` (`AggregationSafety`): the counters say nothing about a job
   that does not exist yet, so everything else needs to know that whatever an
   index, a search, the queue or a task names was created, by its own handler,
   once.  `Provenance` is that invariant; its third part ties `expected` to the
   number of messages.
3. `CountedUnitsStoredAlways`, `CompletionCountedAlways`, `FinalNotListedAlways`
   (`AggregationSafety`), whatever fails: `Progress` strengthens each property by
   what a task has established when it gets to a point of its work - its results
   are stored when it counts, the job it closes has reached its total, and has
   left the active index before it is marked final.  None of the three is inductive
   without its counterpart.  What makes it go through is that other actors only
   ever let the counters grow (`Grown`).
4. `CountersExactAlways`, `CompletionEarnedAlways` (`AggregationCounting`), until
   the first failed attempt: `LockInv` says that a task holding the lock of a
   unit is alone with it, that nobody has counted the unit, and that a counted unit
   stays locked.  Exactness of the counters is then the cardinality of a set
   to which each task adds one new element; the sum reaches `expected` only when
   the set is all of `MessagesOf(j)`.
5. `FinalIsFrozenAlways`, `VerdictMatchesCountersAlways`,
   `CompletionSeesAllResultsAlways`, `DailySnapshotCompleteAlways`
   (`AggregationVerdict`): of a job whose counters have reached its total nobody
   holds a lock any more, because a holder has a message that nobody has counted
   (`LockInv`) and there is none left.  So such a job is `Frozen`: its counters
   and the counted sets stand still, and what a task concludes from them stays
   true until it is written.  `VerdictInv` adds to the three invariants what a task
   remembers on its way (`SeenVerdict`) and that a saved job was done
   (`SavedProcessed`).
6. `LockHolderAliveAlways` (`AggregationVerdict`): while nothing fails and no
   process dies, a task that holds a lock either goes on holding it or has counted
   its unit in this step (`HolderGoesOn`).
7. `KeepsLifecycle` (`AggregationVerdict`): `Spec /\ []Calm => LifecycleSpec`,
   where `Calm` says that no attempt has failed and no key has expired.  Each step
   of the pipeline is mapped to a tally (a counter goes up: the message was
   waiting, by `LockInv`), to the verdict (a job is marked final: nothing is
   waiting, and the verdict is that of the counters), or to a stutter.

*Folds* (`FoldTheorems`).  The model adds up amounts over sets of indices, takes
the first and last of a set of days, and lists a set in some order; the community
modules define these by recursion.  What is needed of them - a sum over two
disjoint sets is the sum of their sums, a sum by keys adds up to the whole
(`SumOfParts`), a joined list holds exactly what its parts hold
(`FlattenSeqJoins`), a finite set of integers has a largest one - is proved from
those definitions.  The induction is done by hand: of the sets, or numbers, for
which a statement fails there would be a smallest (`SmallestSet`,
`SmallestNumber`), and that one cannot fail.

*The days* (`Spec` of `Portfolio`, all in `PortfolioProofs`):

1. `PortfolioTypeOK`: `SaverOK` (clock, documents, saves) and `SweepOK`, one
   lemma per operation.  The documents need more than `TypeOK` states: a stored
   snapshot was made no later than now, and is of its own day.
2. `DaysInv` is the invariant of what is derived.  It speaks of the undisturbed
   days, on which one save is alone (`Alone`), and ties what a save has read to
   what the collections still hold: its snapshot is the stored one
   (`OwnSnapshot`), the day before (`RightPrevious`) and the first snapshot
   (`RightFirst`) have not changed since they were read.  `Chained` then says of
   each day's analytics that they follow from those of the day before, and agree
   with the snapshot unless a save has its part still to write.  Retention breaks
   the chain, so the parts about the first snapshot and missing days hold until it
   has cut.
3. `HighWaterCarriedAlways`: along an unbroken run of days the marks only rise
   (`MarksRise`), and each is at least the total of its day.
4. `PnlAddsUpAlways`: each daily profit is a difference of two totals, so the sum
   telescopes (`PnlTelescopes`) to what the last day reports since the first.
5. `DayAgreesAlways`: `AgreesInv` says that the snapshot, the analytics and the
   last sync snapshot of an undisturbed day come from one save - what is not there
   yet, a save is about to write (`Together`) - and that retention deletes a
   snapshot before what was made of it (`Retained`).  That the shares of the
   protocols add up to the net worth is `SumOfParts`, provided each result has one
   of the known position types, as the property says.
6. `SweepSavesAllAlways`: `SweepInv` follows the snapshot job through its steps.
   What was found is in its cache until the day it was found for is over
   (`FoundIsCached`), a save under way holds all of it (`SavesWhatIsFound`), and each
   group that was due is still missing, being saved, or done (`GroupsInTurn`); the
   workers only add to that.

They assume that the accounts and chains are finitely many, that amounts are
integers, and that `None` is none of the snapshots and analytics it stands
beside.

*The page* (`Spec` of `JobPolling`): `TypeCorrect`, and `OwnerAlwaysMatches`,
inductive with the types: owner and queued job change together, when a POST is
answered, and no commit, retry, selection or late answer changes either.
`CompletedIsQuietAlways`, an action property: until there is a second job,
`FirstJobInv` knows that a page that shows its job as complete has cancelled
polling and has no update queued that would start it again, so a timer that fires
or a loop that goes on finds nothing to do.

*The fees* (`Spec` of `PoolFees`):

1. `FeesExactAlways`.  Subtraction modulo `Modulus` is undone by addition wherever
   the wrap falls, so the growth inside the range is raised by a swap within it,
   and by nothing else: `Accrued` says that the growth inside since `last` is
   `grown`, and is kept by swaps, by ticks that are crossed (which turn their
   counter over) and by a touch of the position.  `FeesInv` adds what a reader
   knows: position and pool satisfied `Accrued` when they were read, and the
   position is that of the pool unless a transaction came in between (`Before`).
   The assumption `(MaxFees + 1) * Scale <= Modulus` is the one that restricts the
   data: liquidity times growth since the last collection stays below the modulus,
   so that the 128-bit product of `calculate_fees_from_ticks` does not overflow.
   Beyond it Raydium's figure wraps and the theorem says nothing.
2. `CollectedOnceAlways`, `PoolTypeOK`.  `Counted` is kept for the stored document
   and for what each reader carries: an amount is at most the payments up to the
   signature beside it, and all of them while a scan can see them all.  A scan adds
   the payments after the signature it started from, so the two sums are over
   disjoint sets (`SumOfUnion`); a document that is overwritten with an older one
   loses both amount and signature.

*What is collected* (`Spec` of `Collect`, all in `CollectProofs`).  The theorems
hold for any messages, accounts, chains and jobs, for whatever the services
hold, and for every set of calls that may fail.

1. `CollectTypeOK`.  `Typed` ties a delivery to its unit: the sources left to ask
   are a `Plan` for the chain, in which the NFTs come last and only on EVM chains,
   and the results so far are of the account and chain.  Under it lies what is
   shown of the services one by one (`FetchReplies`): asked for a source of the
   chain, each gives results of the unit, each with a price that is a number, on an
   EVM chain above zero for the tokens of a wallet, and succeeds when none of its
   calls fails.
2. `FreshPricesAlways`, an action property.  `Fresh` adds that each peer still
   stands among the results that need no price (`PeersKnown`), and that an entry of
   a cache holds what a provider said at its time (`CacheFresh`).  Neither a
   concurrent delivery that rewrites the entry nor the clock can undo that, and an
   entry that is used has not expired (`CachedIsFresh`).
3. `ShownStaysShownAlways`, an action property.  The field of a result decides
   what holding it is, and the other way round (`SameFieldHolding`), so an
   `HSET` keeps every field and every holding (`HashOverwrites`).  Items and summary depend
   on the hash only through the tokens of each group, whichever of two same
   results is kept (`ItemsStay`, `SummaryStays`).  `Listed` says that what stands in
   a hash is a result that a delivery of the job has added, and that what a
   delivery has added has its field: so an entry that changes is of a holding
   that the job has found twice (`FoundAgain`).
4. `FailuresContainedAlways`.  `Contained` follows a source through a delivery: it
   is still to come or done (`ToCome`), where done means that it is reported as a
   success and all it holds is among the results, or that one of its calls has
   failed (`DoneIn`).  Which sources an account has is known only when its NFTs are,
   so until then the invariant says that their screening has not failed yet
   (`AskedSoFar`).  Filling in prices keeps a holding the same (`HoldsPriced`), the
   filter of unpriced tokens takes nothing that a source gave (`HoldsKept`).  That
   the job then has it, as it was found unless it was found again, is `Listed`
   (`AddedIsShared`).

They assume `HoldingsAssumption`, that the services hold data which can be read:
lists with numbers for amounts and prices, and positions in Uniswap that parse.  An
entry that does not parse makes the fetch of Uniswap fail without a failed call
(`FetchUniswap`); the theorems say nothing of that.

Only model-checked: liveness (`RequestsAnswered`, `JobsFinish`, `PollingStops`,
`FirstJobPolled`), which the prover does not reach.  The properties of section 4
are false, and checked to be.  What is proved of the pipeline and of the page is
proved of `Spec`, without its fairness.

## 6. Not modelled

- *Parts of modelled components.*  Of the job manager, the per-wallet index, which
  nothing reads, and `find_latest_job_for_wallet`, which nothing calls.  Of the
  wallet groups, the handlers that create, update and delete one document per
  request: what matters to the rest is that groups come and go, which is modelled.
  Of the broker, declarations and reconnects, which only delay.  Of the services, the
  decoding of bytes, query texts, and amounts from liquidity and prices; of
  the volatility, its standard deviation.  Of the processors, token names, logos
  and transfer taxes.  Of the page, what is only displayed.
- `B/infrastructure/src/retry.rs`: used only while the API connects to its
  services at start.
- `B/aggregation`, the price and data aggregators: a crate that no process uses.
- Token metadata and logos (`token_logo_service.rs`): decoration; nothing else
  reads what it caches.
- Strategies and purchase windows: one document, replaced whole by one request,
  and calendar arithmetic that nothing else reads.
- Proof of work and login: access control, which is not about the data.
- Pages and components of the frontend, build files, configuration and deployment.

The hazards in `PROJECT.json` that name no property say why: most are modelled, but
no text of the repository says what should hold.  What could still be added is the
concurrent update of a wallet group by two requests (lost updates of whole
documents).
