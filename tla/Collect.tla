------------------------------ MODULE Collect ------------------------------
(***************************************************************************)
(* What a message sets in motion between its lock and its counter: the     *)
(* results of an account on a chain are taken from the account cache, or   *)
(* collected from one source after the other, priced, filtered, cached and *)
(* added to the results of the job, which a poll turns into items.         *)
(* Aggregation has the messages, locks and counters around it.             *)
(*                                                                         *)
(* Two processes consume the queue: "worker" and "api" (Processors).  Each *)
(* runs its messages concurrently and has a cache of prices of its own.    *)
(***************************************************************************)
EXTENDS Processors, PriceHydration, WalletItems

CONSTANTS
    Deliveries,   \* messages, delivered again or not
    Scenarios,    \* functions from Deliveries to [job, account, chain]
    Holdings,         \* per unit, what the services would answer
    NoNode,       \* chains without an RPC URL
    BasePrice,    \* per symbol, what the providers say at time 0
    Attempts,     \* MAX_PROCESS_RETRIES
    MaxFaults,    \* bound: calls that fail, connecting aside
    MaxTicks      \* bound: of the clock

ASSUME CollectAssumption ==
    /\ Attempts \in Nat \ {0}
    /\ MaxFaults \in Nat
    /\ MaxTicks \in Nat
    /\ UNION {Quoted[p] : p \in DOMAIN Quoted} \subseteq DOMAIN BasePrice

Pipelines == {"worker", "api"}

Jobs == UNION {{s[d].job : d \in Deliveries} : s \in Scenarios}

VARIABLES
    of,       \* the job and the unit of each delivery
    tasks,    \* how far each delivery is
    prices,   \* per process, the cache of prices
    cached,   \* the account cache: per unit, the results or None
    hashes,   \* per job, its hash of results, by DedupField
    now,
    faults    \* calls that have failed

vars == <<of, tasks, prices, cached, hashes, now, faults>>

UnitOf(d) == [account |-> of[d].account, chain |-> of[d].chain]

Units == UNION {{[account |-> s[d].account, chain |-> s[d].chain] : d \in Deliveries}
                : s \in Scenarios}

ASSUME HoldingsAssumption == \A u \in Units : Answers(u.chain, Holdings[u])

\* ops: what was reported, as <<source, ok>>; lost: the calls that failed;
\* peers: already_priced; needing: the results left to price; added: how many
\* of the results have been added to the job.
Idle == [step |-> "idle", pipeline |-> None, attempt |-> 1, todo |-> <<>>, results |-> <<>>,
         ops |-> {}, lost |-> {}, peers |-> <<>>, needing |-> {}, added |-> 0]

Init ==
    /\ of \in Scenarios
    /\ tasks = [d \in Deliveries |-> Idle]
    /\ prices = [p \in Pipelines |-> <<>>]
    /\ cached = [u \in Units |-> None]
    /\ hashes = [j \in Jobs |-> <<>>]
    /\ now = 0
    /\ faults = 0

Become(d, task) == tasks' = [tasks EXCEPT ![d] = task]

Fault == faults < MaxFaults /\ faults' = faults + 1

\* Every protocol found in the cache counts as an operation that succeeded.
TakeCached(d, p) ==
    /\ tasks[d].step = "idle"
    /\ cached[UnitOf(d)] # None
    /\ LET results == cached[UnitOf(d)]
       IN  Become(d, [Idle EXCEPT !.step = "cached", !.pipeline = p, !.results = results,
                         !.ops = {<<results[i].protocol, TRUE>> : i \in DOMAIN results}])
    /\ UNCHANGED <<of, prices, cached, hashes, now, faults>>

\* Nothing cached, or no longer, or the cache cannot be read.
Take(d, p) ==
    /\ tasks[d].step = "idle"
    /\ Become(d, [Idle EXCEPT !.step = "connect", !.pipeline = p])
    /\ UNCHANGED <<of, prices, cached, hashes, now, faults>>

Hydrating(task, results) ==
    [task EXCEPT !.step = "price", !.results = results, !.peers = AlreadyPriced(results),
                 !.needing = Needing(results)]

WithoutNode(pipeline, unit) == IF pipeline = "api" THEN MockData(unit) ELSE <<>>

\* Without a node nothing is asked for.
Connect(d) ==
    LET task == tasks[d]
        unit == UnitOf(d)
    IN  /\ task.step = "connect"
        /\ Become(d, IF unit.chain \in NoNode
                     THEN Hydrating(task, WithoutNode(task.pipeline, unit))
                     ELSE [task EXCEPT !.step = "ask",
                                       !.todo = Sources(task.pipeline, unit.chain)])
        /\ UNCHANGED <<of, prices, cached, hashes, now, faults>>

\* An unhealthy node is an empty answer, and a success.
ConnectUnhealthy(d) ==
    /\ tasks[d].step = "connect"
    /\ of[d].chain \notin NoNode
    /\ Fault
    /\ Become(d, Hydrating(tasks[d], <<>>))
    /\ UNCHANGED <<of, prices, cached, hashes, now>>

\* Faulty variant: there is one attempt too many.
AnotherAttemptAfterLast(attempt) == attempt <= Attempts

AnotherAttempt(attempt) == attempt < Attempts

\* A provider that cannot be made is an error: the message is tried again,
\* and counts as failed after the last attempt.
ConnectFails(d) ==
    /\ tasks[d].step = "connect"
    /\ of[d].chain \notin NoNode
    /\ Become(d, IF AnotherAttempt(tasks[d].attempt)
                 THEN [tasks[d] EXCEPT !.attempt = @ + 1]
                 ELSE [tasks[d] EXCEPT !.step = "failed"])
    /\ UNCHANGED <<of, prices, cached, hashes, now, faults>>

----------------------------------------------------------------------------
(* Asking the sources                                                      *)

\* The sets of calls that may fail together.
Failures(calls) ==
    UNION {kSubset(k, calls) : k \in 0..(MaxFaults - faults)}

\* Faulty variant: the first source that fails is the last one asked.
RemainingUntilFailure(todo, ok) == IF ok THEN Tail(todo) ELSE <<>>

\* A source that fails is reported, and the next one asked.
Remaining(todo, ok) == Tail(todo)

Ask(d) ==
    LET task == tasks[d]
        unit == UnitOf(d)
        source == Head(task.todo)
    IN  /\ task.step = "ask"
        /\ task.todo # <<>>
        /\ source # "nfts"
        /\ \E failing \in Failures(Calls(task.pipeline, source, unit.chain, Holdings[unit])) :
              LET reply == Fetch(task.pipeline, source, unit, Holdings[unit], failing)
              IN  /\ Become(d, [task EXCEPT !.todo = Remaining(@, reply.ok),
                                            !.results = @ \o reply.results,
                                            !.ops = @ \cup {<<source, reply.ok>>},
                                            !.lost = @ \cup failing])
                  /\ faults' = faults + Cardinality(failing)
        /\ UNCHANGED <<of, prices, cached, hashes, now>>

\* Which NFTs the account holds decides what else is asked for; if that
\* cannot be had, nobody is told.
Screen(d) ==
    LET task == tasks[d]
        unit == UnitOf(d)
    IN  /\ task.step = "ask"
        /\ task.todo # <<>>
        /\ Head(task.todo) = "nfts"
        /\ \E failing \in Failures({<<"screen">>}) :
              /\ Become(d, [task EXCEPT
                    !.todo = AfterScreening(unit.chain, Reply(Holdings[unit], "screen", failing)),
                    !.lost = @ \cup failing])
              /\ faults' = faults + Cardinality(failing)
        /\ UNCHANGED <<of, prices, cached, hashes, now>>

Hydrate(d) ==
    /\ tasks[d].step = "ask"
    /\ tasks[d].todo = <<>>
    /\ Become(d, Hydrating(tasks[d], tasks[d].results))
    /\ UNCHANGED <<of, prices, cached, hashes, now, faults>>

----------------------------------------------------------------------------
(* Pricing what came without a price                                       *)

PriceNext(task, price) ==
    [task EXCEPT !.step = "price", !.needing = @ \ {Min(@)},
                 !.results = Priced(@, Min(task.needing), price)]

\* From a peer or from the cache, or else a provider is asked.
Price(d) ==
    LET task == tasks[d]
        key == KeyOf(task.results[Min(task.needing)])
        hit == CachedPrice(prices[task.pipeline], key, now)
    IN  /\ task.step = "price"
        /\ task.needing # {}
        /\ Become(d, IF key \in DOMAIN task.peers THEN PriceNext(task, task.peers[key])
                     ELSE IF hit # None THEN PriceNext(task, hit)
                     ELSE [task EXCEPT !.step = "quote"])
        /\ UNCHANGED <<of, prices, cached, hashes, now, faults>>

MarketPrice(symbol, time) == BasePrice[symbol] + time

\* A provider answers; the cache may have changed in the meantime.
Quote(d) ==
    LET task == tasks[d]
        key == KeyOf(task.results[Min(task.needing)])
        price == MarketPrice(key[1], now)
    IN  /\ task.step = "quote"
        /\ key[1] \in Quoted[task.pipeline]
        /\ Become(d, PriceNext(task, price))
        /\ prices' = [prices EXCEPT ![task.pipeline] = CachePrice(@, key, price, now)]
        /\ UNCHANGED <<of, cached, hashes, now, faults>>

\* No provider answers: a guess, which is not cached, or zero.
Guess(d) ==
    LET task == tasks[d]
        symbol == task.results[Min(task.needing)].symbol
    IN  /\ task.step = "quote"
        /\ IF symbol \in Quoted[task.pipeline] THEN Fault ELSE UNCHANGED faults
        /\ \E price \in FallbackPrices(symbol, task.peers) : Become(d, PriceNext(task, price))
        /\ UNCHANGED <<of, prices, cached, hashes, now>>

----------------------------------------------------------------------------

\* The API takes a token without a price for spam, except on Solana.
IsSpam(pipeline, r) ==
    pipeline = "api" /\ r.protocol = "wallet" /\ r.price <= 0 /\ r.chain # "solana"

Kept(pipeline, results) ==
    Chosen(results, {i \in DOMAIN results : ~IsSpam(pipeline, results[i])})

\* The results are cached, if that can be done.
Cache(d) ==
    LET task == tasks[d]
        results == Kept(task.pipeline, task.results)
    IN  /\ task.step = "price"
        /\ task.needing = {}
        /\ \/ cached' = [cached EXCEPT ![UnitOf(d)] = results] /\ UNCHANGED faults
           \/ UNCHANGED cached /\ Fault
        /\ Become(d, [task EXCEPT !.step = "store", !.results = results])
        /\ UNCHANGED <<of, prices, hashes, now>>

\* Faulty variant: two tokens of a position may have the same field.
DedupFieldUnlabelled(r) == <<r.account, r.chain, r.protocol, r.type, r.token, r.position>>

\* result_dedup_field: only the positions of pools have an id.
DedupField(r) == <<r.account, r.chain, r.protocol, r.type, r.token, r.label, r.position>>

\* HSET overwrites what the field held.
WithResult(entries, r) ==
    [f \in DOMAIN entries \cup {DedupField(r)} |->
        IF f = DedupField(r) THEN r ELSE entries[f]]

\* One call for each result.
AddResult(d) ==
    LET task == tasks[d]
    IN  /\ task.step \in {"cached", "store"}
        /\ task.added < Len(task.results)
        /\ hashes' = [hashes EXCEPT
                ![of[d].job] = WithResult(@, task.results[task.added + 1])]
        /\ Become(d, [task EXCEPT !.added = @ + 1])
        /\ UNCHANGED <<of, prices, cached, now, faults>>

Tick ==
    /\ now < MaxTicks
    /\ now' = now + 1
    /\ UNCHANGED <<of, tasks, prices, cached, hashes, faults>>

Next ==
    \/ \E d \in Deliveries, p \in Pipelines : TakeCached(d, p) \/ Take(d, p)
    \/ \E d \in Deliveries :
          \/ Connect(d) \/ ConnectUnhealthy(d) \/ ConnectFails(d)
          \/ Ask(d) \/ Screen(d) \/ Hydrate(d)
          \/ Price(d) \/ Quote(d) \/ Guess(d)
          \/ Cache(d) \/ AddResult(d)
    \/ Tick

Spec == Init /\ [][Next]_vars

----------------------------------------------------------------------------
(* Properties                                                              *)

Steps == {"idle", "cached", "connect", "ask", "price", "quote", "store", "failed"}

\* Everything a message goes through stays within its type: no more than
\* Attempts are made, only sources and protocols are reported on, and what
\* is cached or added belongs to its account and chain (process_message).
TypeOK ==
    /\ of \in Scenarios
    /\ \A d \in Deliveries :
          /\ tasks[d].step \in Steps
          /\ tasks[d].pipeline \in Pipelines \cup {None}
          /\ tasks[d].attempt \in 1..Attempts
          /\ tasks[d].needing \subseteq DOMAIN tasks[d].results
          /\ tasks[d].added \in 0..Len(tasks[d].results)
    /\ \A u \in Units : cached[u] # None =>
          \A i \in DOMAIN cached[u] : cached[u][i].account = u.account
                                       /\ cached[u][i].chain = u.chain
    /\ \A j \in Jobs : \A f \in DOMAIN hashes[j] : \E d \in Deliveries :
          of[d].job = j /\ hashes[j][f].account = of[d].account
                       /\ hashes[j][f].chain = of[d].chain
    /\ now \in 0..MaxTicks
    /\ faults \in 0..MaxFaults

\* The sources that a delivery had to ask, given the NFTs it could see.
SourcesOf(d) ==
    LET unit == UnitOf(d)
        screen == Reply(Holdings[unit], "screen", tasks[d].lost)
        planned == ToSet(Sources(tasks[d].pipeline, unit.chain))
    IN  IF "nfts" \in planned
        THEN (planned \ {"nfts"}) \cup ToSet(AfterScreening(unit.chain, screen))
        ELSE planned

Untouched(d, source) ==
    Calls(tasks[d].pipeline, source, of[d].chain, Holdings[UnitOf(d)]) \cap tasks[d].lost = {}

\* The same holding, whatever has been found out about its price.
SameHolding(a, b) ==
    /\ [a EXCEPT !.price = 0, !.value = 0] = [b EXCEPT !.price = 0, !.value = 0]
    /\ b.price > 0 => a.price = b.price /\ a.value = b.value

\* What a holding is told apart by.
HoldingOf(r) ==
    [account |-> r.account, chain |-> r.chain, protocol |-> r.protocol, type |-> r.type,
     position |-> r.position, token |-> r.token, label |-> r.label]

\* Where the deliveries of a job have a holding among their results: in two
\* deliveries of its unit, or twice in one, as in two markets of Kamino, which
\* leave no trace in it.
Finds(j, holding) ==
    UNION {{<<d, i>> : i \in {k \in DOMAIN tasks[d].results :
                                 HoldingOf(tasks[d].results[k]) = holding}}
           : d \in {e \in Deliveries : of[e].job = j}}

FoundOnce(j, holding) == \A x, y \in Finds(j, holding) : x = y

\* The job has the holding, as it is unless something overwrites it.
Shared(j, r) ==
    \E f \in DOMAIN hashes[j] :
        /\ HoldingOf(hashes[j][f]) = HoldingOf(r)
        /\ FoundOnce(j, HoldingOf(r)) => SameHolding(hashes[j][f], r)

Stored(d) == tasks[d].step = "store" /\ tasks[d].added = Len(tasks[d].results)

\* Whatever fails of one source costs nothing of another: a source that got
\* every answer is reported as a success, each thing it holds is among the
\* results of the job, as it was found unless the job has found it again, and
\* a source is reported as failed only if a call of its own has failed
\* (fetch_evm_positions, fetch_solana_positions, hydrate_prices, the filter
\* of unpriced tokens, add_result).
FailuresContained ==
    \A d \in Deliveries :
        (Stored(d) /\ tasks[d].ops # {}) =>
            \A source \in SourcesOf(d) :
                /\ Untouched(d, source) =>
                      /\ <<source, TRUE>> \in tasks[d].ops
                      /\ LET whole == Fetch(tasks[d].pipeline, source, UnitOf(d),
                                            Holdings[UnitOf(d)], {}).results
                         IN  \A i \in DOMAIN whole : Shared(of[d].job, whole[i])
                /\ <<source, FALSE>> \in tasks[d].ops => ~Untouched(d, source)

FreshlyPriced(d, i) ==
    LET task == tasks[d]
        key == KeyOf(task.results[i])
        price == tasks'[d].results[i].price
    IN  \/ \E k \in DOMAIN task.results : /\ KeyOf(task.results[k]) = key
                                         /\ task.results[k].price = price
        \/ \E t \in 0..now : /\ now - t < TicksPerHour
                              /\ price = MarketPrice(key[1], t)
        \/ task.step = "quote" /\ prices' = prices

\* A price that is filled in is one that another result of the symbol had,
\* or that a provider gave for it within the last hour, in this delivery or
\* in another one of the process; a guess is used when no provider answers,
\* and never remembered (PriceHydrationService).
FreshPrices ==
    [][\A d \in Deliveries :
          (tasks[d].step \in {"price", "quote"} /\ tasks[d].needing # {}) =>
              \A i \in DOMAIN tasks[d].results :
                  \/ tasks'[d].results[i].price = tasks[d].results[i].price
                  \/ FreshlyPriced(d, i)]_vars

\* The tokens of an item: a supply and a fee of one token are two.
Shown(item) == {<<item.tokens[f].token, item.tokens[f].type>> : f \in DOMAIN item.tokens}

\* What a poll has shown of a job stays while more results come in, also
\* those of a message that is delivered again: in whatever order the hash is
\* listed, no token of an item goes away, no counter of the summary goes down,
\* and an amount or a price is replaced only when the job has found the
\* holding again (add_result, dedupe_group_results, update_summary).
ShownStaysShown ==
    [][\A j \in {k \in Jobs : hashes'[k] # hashes[k]} :
          LET before == Items(hashes[j])
              after == Items(hashes'[j])
              counted == Summary(hashes[j])
              next == Summary(hashes'[j])
          IN  /\ \A key \in DOMAIN before :
                    /\ key \in DOMAIN after
                    /\ \A x \in before[key], y \in after[key] : Shown(x) \subseteq Shown(y)
              /\ \A c \in DOMAIN counted : counted[c] <= next[c]
              /\ \A f \in DOMAIN hashes[j] :
                    \/ hashes'[j][f] = hashes[j][f]
                    \/ ~FoundOnce(j, HoldingOf(hashes[j][f]))]_vars

\* What is left out as a duplicate is one: the same account has another
\* result for the token in that group (dedupe_group_results, which logs the
\* account of the "duplicate").
OnlyDuplicatesDropped ==
    \A j \in Jobs : \A f \in DOMAIN hashes[j] :
        LET group == GroupOf(hashes[j], GroupKey(hashes[j][f]))
        IN  \A kept \in Deduped(group) :
                \E g \in kept : /\ Identity(group[g]) = Identity(group[f])
                                /\ group[g].account = group[f].account

=============================================================================
