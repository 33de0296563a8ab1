---------------------------- MODULE PortfolioMath ----------------------------
(***************************************************************************)
(* What a portfolio adds up to: build_summary of core/src/snapshot.rs and  *)
(* compute_analytics of core/src/analytics.rs, as operators.               *)
(*                                                                         *)
(* A result is a record of the fields that are added up: its protocol,     *)
(* chain, position type, token, value and rate (its apy, or else its apr,  *)
(* or None).  Amounts are integers.  A quotient is kept as the pair        *)
(* [num, den] instead of a rounded number.  A HashMap is a function from    *)
(* some of the keys.                                                       *)
(***************************************************************************)
EXTENDS Options, Integers, Sequences, FiniteSets, Functions, FiniteSetsExt

\* The sum of value over the results that pass the test.
SumWhere(results, Test(_), value(_)) ==
    SumFunctionOnSet([i \in DOMAIN results |-> value(results[i])],
                     {i \in DOMAIN results : Test(results[i])})

Always(r) == TRUE

ValueOf(r) == r.value

\* A HashMap filled by *map.entry(key).or_default() += value.
SumBy(results, key(_), value(_)) ==
    [k \in {key(results[i]) : i \in DOMAIN results} |->
        SumWhere(results, LAMBDA r : key(r) = k, value)]

----------------------------------------------------------------------------
(* build_summary                                                           *)

Signed(r) == IF r.type = "borrowing" THEN -r.value ELSE r.value

PoolTypes == {"liquiditypool", "liquidity_pool", "pool"}

StakingTypes == {"staking", "locking", "yield"}

\* The types whose value is part of the net worth.
KnownTypes == {"wallet", "lending", "borrowing"} \cup PoolTypes \cup StakingTypes

OfTypes(results, types) == SumWhere(results, LAMBDA r : r.type \in types, ValueOf)

\* Faulty variant: a debt is added like any other position.
NetWorthGross(results) == OfTypes(results, KnownTypes)

NetWorth(results) ==
    OfTypes(results, {"wallet"}) + OfTypes(results, {"lending"})
        - OfTypes(results, {"borrowing"})
        + OfTypes(results, PoolTypes) + OfTypes(results, StakingTypes)

Yields(r) == r.rate # None /\ r.value > 0

\* The rate of the results that pass the test, weighted by their value.
WeightedRate(results, Test(_), rate(_)) ==
    LET counts(r) == Test(r) /\ Yields(r)
        weight == SumWhere(results, counts, ValueOf)
    IN  IF weight > 0
        THEN [num |-> SumWhere(results, counts, LAMBDA r : rate(r) * r.value),
              den |-> weight]
        ELSE [num |-> 0, den |-> 1]

\* Only keys with a result that yields have a rate.
RatesBy(results, key(_)) ==
    [k \in {key(results[i]) : i \in {j \in DOMAIN results : Yields(results[j])}} |->
        WeightedRate(results, LAMBDA r : key(r) = k, LAMBDA r : r.rate)]

BuildSummary(results) ==
    [positionCount |-> Len(results),
     byProtocol |-> SumBy(results, LAMBDA r : r.protocol, Signed),
     byChain |-> SumBy(results, LAMBDA r : r.chain, Signed),
     byPositionType |-> SumBy(results, LAMBDA r : r.type, ValueOf),
     byProtocolPositionType |-> SumBy(results, LAMBDA r : <<r.protocol, r.type>>, ValueOf),
     netWorth |-> NetWorth(results),
     netApy |-> WeightedRate(results, Always,
                    LAMBDA r : IF r.type = "borrowing" THEN -r.rate ELSE r.rate),
     apyByPositionType |-> RatesBy(results, LAMBDA r : r.type),
     apyByProtocol |-> RatesBy(results, LAMBDA r : r.protocol)]

----------------------------------------------------------------------------
(* compute_analytics                                                       *)

Quotient == [num : Int, den : Int]

Percent(part, whole, defined) ==
    IF defined THEN [num |-> 100 * part, den |-> whole] ELSE [num |-> 0, den |-> 1]

Larger(a, b) == IF a >= b THEN a ELSE b

\* Faulty variant: today is compared with yesterday's total, not its mark.
HighWaterMarkOfTwoDays(total, previous) ==
    IF previous = None THEN Larger(total, 0) ELSE Larger(total, previous.total)

\* The mark carries over from the analytics of the day before; without them
\* it starts from zero.
HighWaterMark(total, previous) ==
    Larger(total, IF previous = None THEN 0 ELSE previous.highWaterMark)

\* The share of each protocol, next to its share of the day before.
ProtocolDistribution(byProtocol, total, previous) ==
    [p \in DOMAIN byProtocol |->
        [value |-> byProtocol[p],
         percent |-> Percent(byProtocol[p], total, total > 0),
         previousPercent |->
            IF previous # None /\ p \in DOMAIN previous.protocols
            THEN previous.protocols[p].percent ELSE None]]

ChainDistribution(byChain, total) ==
    [c \in DOMAIN byChain |->
        [value |-> byChain[c], percent |-> Percent(byChain[c], total, total > 0)]]

\* What compute_volatility takes the standard deviation of: the returns of
\* consecutive totals, without those that start from nothing; None when
\* there are fewer than three totals or no return.  The totals are kept by
\* day.
Returns(totals) ==
    LET before(d) == {x \in DOMAIN totals : x < d}
        start(d) == totals[Max(before(d))]
        days == {d \in DOMAIN totals : before(d) # {} /\ start(d) # 0}
    IN  IF Cardinality(DOMAIN totals) < 3 \/ days = {} THEN None
        ELSE [d \in days |-> [num |-> totals[d] - start(d), den |-> start(d)]]

\* today and first are snapshots, previous the analytics of the day before,
\* totals the recent totals by day.
ComputeAnalytics(today, previous, first, totals) ==
    LET summary == BuildSummary(today.positions)
        prevValue == IF previous = None THEN today.total ELSE previous.total
        firstValue == IF first = None THEN today.total ELSE first.total
        mark == HighWaterMark(today.total, previous)
    IN  [total |-> today.total,
         previousDay |-> IF previous = None THEN None ELSE previous.total,
         dailyPnl |-> today.total - prevValue,
         dailyPnlPercent |-> Percent(today.total - prevValue, prevValue, prevValue # 0),
         cumulativePnl |-> today.total - firstValue,
         cumulativePnlPercent |->
            Percent(today.total - firstValue, firstValue, firstValue # 0),
         protocols |-> ProtocolDistribution(summary.byProtocol, today.total, previous),
         chains |-> ChainDistribution(summary.byChain, today.total),
         highWaterMark |-> mark,
         drawdown |-> Percent(today.total - mark, mark, mark > 0),
         returns |-> Returns(totals)]

=============================================================================
