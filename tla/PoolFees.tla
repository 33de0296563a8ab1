------------------------------ MODULE PoolFees ------------------------------
(***************************************************************************)
(* A position in a concentrated liquidity pool while it is being read: the *)
(* fees that Uniswap's and Raydium's services report for it, and the       *)
(* record that RaydiumService keeps of the fees it has seen collected      *)
(* (resolve_collected_fees and the collection raydium_position_states).    *)
(*                                                                         *)
(* The pool goes on between the calls of a reader.  Uniswap's service gets *)
(* the position and its pool from a subgraph, which may lag behind, and    *)
(* then the growth at each tick from a node; Raydium's reads the position, *)
(* the pool and each tick from a node, one after the other.  Several       *)
(* readers, a task of the worker and the snapshot job for instance, may    *)
(* read the position at once: nothing serializes them.  One of the two     *)
(* tokens of the pool is followed; the other is treated alike.             *)
(***************************************************************************)
EXTENDS Options, FeeGrowth, SequencesExt, FiniteSetsExt, Functions

CONSTANTS
    Protocols,     \* the services that read: "uniswap", "raydium"
    Readers,       \* tasks that read the position
    InitialPools,  \* states the pool may be in when the position is opened
    Liquidity,     \* of the position
    Growths,       \* by how much a swap raises the growth counter
    Small, Large,  \* the thresholds of the suspicion: 100 and 1000
    Limit,         \* how many signatures a scan asks for: 20
    MaxFees,       \* bound: fees of a position between two collections
    MaxMoves,      \* bound: moves of the pool
    MaxReads,      \* bound: reads
    MaxFaults      \* bound: calls that fail

VARIABLES
    protocol,  \* the service at work
    pool,      \* the pool, the position and its transactions
    indexed,   \* what the subgraph knows of them
    store,     \* raydium_position_states: the document of the position
    readers,   \* per reader: its step and what it has read
    moves, reads, faults

vars == <<protocol, pool, indexed, store, readers, moves, reads, faults>>

Ticks == {"lower", "upper"}
LowerTick == 1
UpperTick == 2

\* tick is 0 below the range, 1 within and 2 above.  grown is the growth
\* inside the range since last was taken; paid lists the transactions of
\* the position, oldest first, each with what it paid out.
Pools ==
    [tick : 0..2, global : 0..(Modulus - 1), outside : [Ticks -> 0..(Modulus - 1)],
     last : 0..(Modulus - 1), owed : Nat, grown : Nat, paid : Seq(Nat)]

InsideOf(p) ==
    GrowthInside(p.tick, LowerTick, UpperTick, p.global, p.outside.lower, p.outside.upper)

ASSUME PoolFeesAssumption ==
    /\ Protocols \subseteq {"uniswap", "raydium"}
    /\ \A p \in InitialPools :
         p \in Pools /\ p.last = InsideOf(p) /\ p.grown = 0 /\ p.owed = 0 /\ p.paid = <<>>
    /\ None \notin Nat
    /\ Liquidity \in Nat \ {0} /\ Growths \subseteq Nat
    /\ Small \in Nat /\ Large \in Nat /\ Limit \in Nat \ {0}
    /\ MaxFees \in Nat /\ (MaxFees + 1) * Scale <= Modulus
    /\ {MaxMoves, MaxReads, MaxFaults} \subseteq Nat

\* What a position has earned since its counter was taken.
Earned(p) == (Liquidity * p.grown) \div Scale

NoReader == [step |-> "idle", at |-> None, position |-> None, lower |-> None,
             upper |-> None, fees |-> 0, state |-> None,
             signature |-> 0, collected |-> 0]

Init ==
    /\ protocol \in Protocols
    /\ pool \in InitialPools
    /\ indexed = pool
    /\ store = None
    /\ readers = [r \in Readers |-> NoReader]
    /\ moves = 0 /\ reads = 0 /\ faults = 0

----------------------------------------------------------------------------
(* The pool: the accounting of both protocols' contracts.                  *)

Moves ==
    /\ moves < MaxMoves
    /\ moves' = moves + 1
    /\ UNCHANGED <<protocol, indexed, store, readers, reads, faults>>

\* A swap within a tick raises the counter, which wraps around.
Swap(n) ==
    /\ Moves
    /\ LET grown == IF pool.tick = 1 THEN pool.grown + n ELSE pool.grown
       IN  /\ pool.owed + (Liquidity * grown) \div Scale <= MaxFees
           /\ pool' = [pool EXCEPT !.global = (@ + n) % Modulus, !.grown = grown]

TurnedOver(t) ==
    [pool.outside EXCEPT ![t] = (pool.global - @ + Modulus) % Modulus]

\* A swap that crosses a tick turns the growth outside of it over.
Cross(t, to) ==
    /\ Moves
    /\ pool' = [pool EXCEPT !.tick = to, !.outside = TurnedOver(t)]

MoveTick ==
    \/ pool.tick = 0 /\ Cross("lower", 1)
    \/ pool.tick = 1 /\ (Cross("lower", 0) \/ Cross("upper", 2))
    \/ pool.tick = 2 /\ Cross("upper", 1)

\* A transaction of the position takes its counter: what it has earned is
\* credited, and with a collection paid out.
Touch(collects) ==
    LET due == pool.owed + Earned(pool)
    IN  /\ Moves
        /\ pool' = [pool EXCEPT !.last = InsideOf(pool), !.grown = 0,
                                !.owed = IF collects THEN 0 ELSE due,
                                !.paid = Append(@, IF collects THEN due ELSE 0)]

\* The subgraph catches up.
Index ==
    /\ protocol = "uniswap" /\ indexed # pool
    /\ indexed' = pool
    /\ UNCHANGED <<protocol, pool, store, readers, moves, reads, faults>>

PoolStep ==
    \/ \E n \in Growths : Swap(n)
    \/ MoveTick
    \/ Touch(TRUE) \/ Touch(FALSE)
    \/ Index

----------------------------------------------------------------------------
(* Reading the position and its pool                                       *)

Fault ==
    /\ faults < MaxFaults
    /\ faults' = faults + 1

ReaderStep == UNCHANGED <<protocol, pool, indexed, moves>>

GiveUp(r) == readers' = [readers EXCEPT ![r] = [NoReader EXCEPT !.step = "failed"]]

Begin(r) ==
    /\ readers[r].step \in {"idle", "done", "failed"}
    /\ reads < MaxReads
    /\ reads' = reads + 1
    /\ readers' = [readers EXCEPT ![r] = [NoReader EXCEPT !.step = "position"]]
    /\ ReaderStep /\ UNCHANGED <<store, faults>>

\* Uniswap: the subgraph answers with the position and its pool at once,
\* and fails the service when three attempts have failed.  Raydium: the
\* account of the position.
ReadPosition(r) ==
    /\ readers[r].step = "position"
    /\ \/ /\ readers' = IF protocol = "uniswap"
                        THEN [readers EXCEPT ![r].position = indexed, ![r].at = indexed,
                                             ![r].step = "lower"]
                        ELSE [readers EXCEPT ![r].position = pool, ![r].step = "pool"]
          /\ UNCHANGED faults
       \/ Fault /\ GiveUp(r)
    /\ ReaderStep /\ UNCHANGED <<store, reads>>

\* Raydium: the account of the pool; without it the position is skipped.
ReadPool(r) ==
    /\ readers[r].step = "pool"
    /\ \/ /\ readers' = [readers EXCEPT ![r].at = pool, ![r].step = "lower"]
          /\ UNCHANGED faults
       \/ Fault /\ GiveUp(r)
    /\ ReaderStep /\ UNCHANGED <<store, reads>>

\* fetch_tick_fee_growth, fetch_tick_data: a tick that cannot be read is None.
ReadLower(r) ==
    /\ readers[r].step = "lower"
    /\ \/ /\ readers' = [readers EXCEPT ![r].lower = pool.outside.lower, ![r].step = "upper"]
          /\ UNCHANGED faults
       \/ Fault /\ readers' = [readers EXCEPT ![r].step = "upper"]
    /\ ReaderStep /\ UNCHANGED <<store, reads>>

\* What the service knows of the growth outside a tick: Uniswap's falls
\* back to what the subgraph has said.
KnownGrowth(r, t, read) ==
    IF read = None /\ protocol = "uniswap" THEN readers[r].at.outside[t] ELSE read

\* The fees from what was read; Raydium's service reports what was credited
\* when it lacks a tick.
FeesFrom(r, lower, upper) ==
    LET at == readers[r].at
        position == readers[r].position
        inside == GrowthInside(at.tick, LowerTick, UpperTick, at.global, lower, upper)
    IN  IF protocol = "uniswap" THEN UniswapFees(Liquidity, inside, position.last)
        ELSE IF None \in {lower, upper} THEN position.owed
        ELSE RaydiumFees(Liquidity, inside, position.last, position.owed)

ReadUpper(r) ==
    /\ readers[r].step = "upper"
    /\ \E read \in {pool.outside.upper, None} :
         LET lower == KnownGrowth(r, "lower", readers[r].lower)
             upper == KnownGrowth(r, "upper", read)
         IN  /\ IF read = None THEN Fault ELSE UNCHANGED faults
             /\ readers' = [readers EXCEPT
                    ![r].lower = lower, ![r].upper = upper,
                    ![r].fees = FeesFrom(r, lower, upper),
                    ![r].step = IF protocol = "uniswap" THEN "done" ELSE "state"]
    /\ ReaderStep /\ UNCHANGED <<store, reads>>

----------------------------------------------------------------------------
(* resolve_collected_fees                                                  *)

\* get_by_nft_mint: an error is the same as no document.  What the fees
\* were computed from is not used again.
ReadState(r) ==
    /\ readers[r].step = "state"
    /\ LET read(state) == [readers EXCEPT ![r] =
                [NoReader EXCEPT !.step = "scan", !.fees = readers[r].fees, !.state = state]]
       IN  \/ readers' = read(store) /\ UNCHANGED faults
           \/ Fault /\ readers' = read(None)
    /\ ReaderStep /\ UNCHANGED <<store, reads>>

\* Fees have gone, or have fallen by so much that they must have been
\* collected.
Dropped(before, fees) ==
    \/ before > 0 /\ fees = 0
    \/ before > Large /\ fees < before \div 2
    \/ before > Small /\ fees < Small

Suspected(state, fees) == IF state = None THEN TRUE ELSE Dropped(state.last, fees)

CollectedBefore(r) == IF readers[r].state = None THEN 0 ELSE readers[r].state.collected

\* Faulty variant: the scan goes on after the signature that follows.
ScannedUpToNext(r) == IF readers[r].state = None THEN 0 ELSE readers[r].state.signature + 1

ScannedUpTo(r) == IF readers[r].state = None THEN 0 ELSE readers[r].state.signature

NoScan(r) ==
    /\ readers[r].step = "scan"
    /\ ~Suspected(readers[r].state, readers[r].fees)
    /\ readers' = [readers EXCEPT ![r].step = "save", ![r].signature = ScannedUpTo(r),
                                  ![r].collected = CollectedBefore(r)]
    /\ ReaderStep /\ UNCHANGED <<store, reads, faults>>

\* The latest signatures that are final, at most Limit, after the last one
\* scanned.
Fresh(since, final) == (Max({since, final - Limit}) + 1)..final

\* Faulty variant: what the transactions that could be read have paid is
\* kept although the scan has failed.
FailedScanKeepingPart(r, since) ==
    LET fresh == Fresh(since, Len(pool.paid))
    IN  /\ Fault
        /\ readers' = [readers EXCEPT ![r].step = "save",
                           ![r].signature = since,
                           ![r].collected = CollectedBefore(r)
                               + MapThenSumSet(LAMBDA i : pool.paid[i], fresh)]

\* The signatures, or one of the transactions, cannot be read: everything
\* is left as it was.
FailedScan(r, since) ==
    /\ Fault
    /\ readers' = [readers EXCEPT ![r].step = "save", ![r].signature = since,
                                  ![r].collected = CollectedBefore(r)]

\* scan_collection_transactions: what each transaction has paid is added
\* up.  The state that will be saved keeps the newest signature.  The fees of
\* the other token, which are left out, may call for a scan whatever these
\* are.
Scan(r) ==
    /\ readers[r].step = "scan"
    /\ LET since == ScannedUpTo(r)
       IN  \/ \E final \in since..Len(pool.paid) :
                 /\ readers' = [readers EXCEPT ![r].step = "save",
                        ![r].signature = final,
                        ![r].collected = CollectedBefore(r)
                            + MapThenSumSet(LAMBDA i : pool.paid[i], Fresh(since, final))]
                 /\ UNCHANGED faults
           \/ FailedScan(r, since)
    /\ ReaderStep /\ UNCHANGED <<store, reads>>

\* What is saved of a read, whether it has scanned or not: the fees are those
\* of this read even when the scan they called for has failed.
StateOf(r) ==
    [last |-> readers[r].fees, collected |-> readers[r].collected,
     signature |-> readers[r].signature]

\* upsert: a failure, applied or not, is logged.
SaveState(r) ==
    /\ readers[r].step = "save"
    /\ \/ store' = StateOf(r) /\ UNCHANGED faults
       \/ Fault /\ store' \in {store, StateOf(r)}
    /\ readers' = [readers EXCEPT ![r] = [NoReader EXCEPT !.step = "done"]]
    /\ ReaderStep /\ UNCHANGED reads

Next ==
    \/ PoolStep
    \/ \E r \in Readers :
         \/ Begin(r) \/ ReadPosition(r) \/ ReadPool(r) \/ ReadLower(r) \/ ReadUpper(r)
         \/ ReadState(r) \/ NoScan(r) \/ Scan(r) \/ SaveState(r)

Spec == Init /\ [][Next]_vars

----------------------------------------------------------------------------
(* Properties                                                              *)

\* The pool, what the subgraph knows of it, the document of the position and
\* the local state of the readers are what the protocols and the code keep.
TypeOK ==
    /\ pool \in Pools /\ indexed \in Pools
    /\ store # None =>
         store \in [last : Nat, collected : Nat, signature : 0..Len(pool.paid)]
    /\ \A r \in Readers :
         /\ readers[r].step \in {"idle", "position", "pool", "lower", "upper", "state",
                                 "scan", "save", "done", "failed"}
         /\ readers[r].signature \in 0..Len(pool.paid)

\* The parts a reader has put together belong together: the position is that
\* of the pool it has read, and no tick was turned over in between.
Coherent(r) ==
    LET at == readers[r].at
    IN  /\ readers[r].position.paid = at.paid
        /\ readers[r].lower = at.outside.lower /\ readers[r].upper = at.outside.upper

\* The fees are computed, and what they were computed from is still known.
Computed(r) == readers[r].step \in {"state", "done"} /\ readers[r].at # None

\* A read whose parts belong together reports what the contract would have
\* paid at that time, wherever the price is and however the counters have
\* wrapped; Uniswap's without the part already credited, which the service
\* does not look at.
FeesExact ==
    \A r \in Readers : Computed(r) /\ Coherent(r) =>
        LET at == readers[r].at
        IN  readers[r].fees = Earned(at) + (IF protocol = "uniswap" THEN 0 ELSE at.owed)

\* What the document counts as collected is what the transactions up to its
\* signature have paid, none of them twice, however reads overlap, fail or
\* are not saved; those are all counted while a scan can see them all.
CollectedOnce ==
    store # None =>
        LET seen == SumFunctionOnSet(pool.paid, 1..store.signature)
        IN  /\ store.collected <= seen
            /\ Len(pool.paid) <= Limit => store.collected = seen

=============================================================================
