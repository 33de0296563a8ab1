--------------------------- MODULE PortfolioProofs ---------------------------
(***************************************************************************)
(* The days of a portfolio: every state is well typed, and the days with   *)
(* one save at a time, each complete before midnight, carry the marks and  *)
(* the profits over from one to the next.                                  *)
(***************************************************************************)
EXTENDS Portfolio, FoldTheorems

----------------------------------------------------------------------------
(* The clock and its days.                                                 *)

LEMMA DayType ==
    ASSUME NEW t \in Nat
    PROVE  Day(t) \in Nat /\ \A u \in Nat : t <= u => Day(t) <= Day(u)
  <1>0. TicksPerDay \in Nat \ {0}
    BY DailySnapshotsAssumption
  <1>1. \A u \in Nat : Day(u) \in Nat /\ Day(u) * TicksPerDay <= u
                       /\ u < (Day(u) + 1) * TicksPerDay
    BY <1>0 DEF Day
  <1>2. ASSUME NEW u \in Nat, t <= u, Day(u) < Day(t) PROVE FALSE
    <2>1. PICK a \in Nat, b \in Nat : a = Day(t) /\ b = Day(u)
      BY <1>1
    <2>2. PICK c \in Nat : a = (b + 1) + c
      <3>1. a - (b + 1) \in Nat /\ a = (b + 1) + (a - (b + 1))
        BY <1>2, <2>1
      <3>2. QED
        BY <3>1
    <2>3. a * TicksPerDay = (b + 1) * TicksPerDay + c * TicksPerDay /\ c * TicksPerDay \in Nat
      BY <1>0, <2>2
    <2>4. PICK p \in Nat, q \in Nat, r \in Nat :
            p = a * TicksPerDay /\ q = (b + 1) * TicksPerDay /\ r = c * TicksPerDay
      BY <1>0, <2>1, <2>2
    <2>5. p <= t /\ u < q
      BY <1>1, <2>1, <2>4
    <2>6. QED
      BY <1>2, <2>3, <2>4, <2>5
  <1>3. QED
    BY <1>1, <1>2

LEMMA DaysType == /\ LastTick \in Nat /\ LastDay \in Nat /\ Days = 0..LastDay
                  /\ IsFiniteSet(Days)
  <1>1. LastTick \in Nat /\ LastDay \in Nat
    BY DayType, DailySnapshotsAssumption DEF LastDay
  <1>2. QED
    BY <1>1, FS_Interval DEF Days

----------------------------------------------------------------------------
(* Types of what is saved.                                                 *)

SnapshotBy(x, time) == x \in Snapshot /\ x.createdAt <= time

TotalsOK(totals) == DOMAIN totals \subseteq Days /\ \A d \in DOMAIN totals : totals[d] \in Int

Signs(results) == [i \in DOMAIN results |-> Signed(results[i])]
Values(results) == [i \in DOMAIN results |-> results[i].value]
OfType(results, types) == {i \in DOMAIN results : results[i].type \in types}

LEMMA PositionsType ==
    ASSUME NEW results \in Seq(Results)
    PROVE  /\ IsFiniteSet(DOMAIN results)
           /\ \A i \in DOMAIN results : /\ results[i] \in Results
                                        /\ Values(results)[i] \in Int
                                        /\ Signs(results)[i] \in Int
  <1>1. DOMAIN results = 1..Len(results) /\ Len(results) \in Nat
    OBVIOUS
  <1>2. IsFiniteSet(DOMAIN results)
    BY <1>1, FS_Interval
  <1>3. \A i \in DOMAIN results : results[i] \in Results /\ results[i].value \in Int
    BY <1>1, DailySnapshotsAssumption
  <1>4. QED
    BY <1>2, <1>3 DEF Values, Signs, Signed

LEMMA OfTypesSums ==
    ASSUME NEW results, NEW types
    PROVE  OfTypes(results, types) = SumFunctionOnSet(Values(results), OfType(results, types))
  BY DEF OfTypes, SumWhere, ValueOf, Values, OfType

LEMMA NetWorthType == \A results \in Seq(Results) : NetWorth(results) \in Int
  <1>1. ASSUME NEW results \in Seq(Results), NEW types PROVE OfTypes(results, types) \in Int
    <2> DEFINE chosen == OfType(results, types)
               values == Values(results)
    <2>1. IsFiniteSet(DOMAIN results) /\ \A i \in DOMAIN results : values[i] \in Int
      BY PositionsType
    <2>2. chosen \subseteq DOMAIN results
      BY DEF OfType
    <2> HIDE DEF chosen, values
    <2>3. IsFiniteSet(chosen) /\ \A i \in chosen : values[i] \in Int
      BY <2>1, <2>2, FS_Subset
    <2>4. SumFunctionOnSet(values, chosen) \in Int
      BY <2>3, SumType
    <2>5. QED
      BY <2>4, OfTypesSums DEF chosen, values
  <1>2. QED
    BY <1>1 DEF NetWorth

LEMMA FromResultsType ==
    ASSUME now \in Nat, NEW results \in Seq(Results)
    PROVE  /\ SnapshotBy(FromResults(results), now)
           /\ FromResults(results).positions = results
           /\ FromResults(results).total = NetWorth(results)
  BY NetWorthType DEF FromResults, Snapshot, SnapshotBy

LEMMA SharesAre ==
    ASSUME NEW results
    PROVE  BuildSummary(results).byProtocol =
             [p \in {results[i].protocol : i \in DOMAIN results} |->
                SumFunctionOnSet(Signs(results), {i \in DOMAIN results : results[i].protocol = p})]
  BY DEF BuildSummary, SumBy, SumWhere, Signs

LEMMA ChainsAre ==
    ASSUME NEW results
    PROVE  BuildSummary(results).byChain =
             [p \in {results[i].chain : i \in DOMAIN results} |->
                SumFunctionOnSet(Signs(results), {i \in DOMAIN results : results[i].chain = p})]
  BY DEF BuildSummary, SumBy, SumWhere, Signs

\* The shares of the protocols add up to the net worth.
LEMMA SharesAddUp ==
    ASSUME NEW results \in Seq(Results),
           \A i \in DOMAIN results : results[i].type \in KnownTypes
    PROVE  SumFunction(BuildSummary(results).byProtocol) = NetWorth(results)
  <1> DEFINE S == DOMAIN results
             f == Signs(results)
             v == Values(results)
             shares == BuildSummary(results).byProtocol
             W == OfType(results, {"wallet"})
             L == OfType(results, {"lending"})
             B == OfType(results, {"borrowing"})
             P == OfType(results, PoolTypes)
             T == OfType(results, StakingTypes)
  <1>1. IsFiniteSet(S) /\ \A i \in S : v[i] \in Int /\ f[i] \in Int
    BY PositionsType
  <1>2. SumFunction(shares) = SumFunctionOnSet(f, S)
    <2> DEFINE K == DOMAIN shares
               part == [p \in K |-> {i \in S : results[i].protocol = p}]
    <2>1. K = {results[i].protocol : i \in S}
      BY SharesAre
    <2>2. IsFiniteSet(K)
      <3> DEFINE g == [i \in S |-> results[i].protocol]
      <3>1. g \in Surjection(S, K)
        BY <2>1 DEF Surjection
      <3> HIDE DEF g, K, S
      <3>2. QED
        BY <1>1, <3>1, FS_Surjection
    <2>3. \A p \in K : shares[p] = SumFunctionOnSet(f, part[p])
      <3>1. ASSUME NEW p \in K PROVE shares[p] = SumFunctionOnSet(f, part[p])
        <4>1. p \in {results[i].protocol : i \in DOMAIN results}
          BY <2>1
        <4> DEFINE sums == [q \in {results[i].protocol : i \in DOMAIN results} |->
                SumFunctionOnSet(Signs(results), {i \in DOMAIN results : results[i].protocol = q})]
        <4>2. shares[p] = SumFunctionOnSet(f, {i \in S : results[i].protocol = p})
          <5>1. shares = sums
            BY SharesAre
          <5>2. sums[p] = SumFunctionOnSet(f, {i \in S : results[i].protocol = p})
            BY <4>1
          <5> HIDE DEF shares, sums
          <5>3. QED
            BY <5>1, <5>2
        <4> HIDE DEF shares, f
        <4>3. QED
          BY <4>2
      <3>2. QED
        BY <3>1
    <2>4. /\ \A i \in S : \E p \in K : i \in part[p]
          /\ \A p \in K : part[p] \subseteq S
          /\ \A p, q \in K : p # q => part[p] \cap part[q] = {}
      BY <2>1
    <2>5. \A i \in S : f[i] \in Int
      BY <1>1
    <2> HIDE DEF part, K, S, f, shares
    <2>6. SumFunctionOnSet(shares, K) = SumFunctionOnSet(f, S)
      BY <1>1, <2>2, <2>3, <2>4, <2>5, SumOfParts
    <2>7. QED
      BY <2>6 DEF SumFunction, K
  <1>3. /\ W \subseteq S /\ L \subseteq S /\ B \subseteq S /\ P \subseteq S /\ T \subseteq S
        /\ S = (((W \cup L) \cup B) \cup P) \cup T
        /\ W \cap L = {} /\ (W \cup L) \cap B = {} /\ ((W \cup L) \cup B) \cap P = {}
        /\ (((W \cup L) \cup B) \cup P) \cap T = {}
    BY DEF OfType, KnownTypes, PoolTypes, StakingTypes
  <1>4. /\ \A i \in W \cup L \cup P \cup T : f[i] = v[i]
        /\ \A i \in B : f[i] = - v[i]
    BY DEF OfType, PoolTypes, StakingTypes, Signs, Signed, Values
  <1>5. NetWorth(results) = SumFunctionOnSet(v, W) + SumFunctionOnSet(v, L)
             - SumFunctionOnSet(v, B) + SumFunctionOnSet(v, P) + SumFunctionOnSet(v, T)
    BY OfTypesSums DEF NetWorth
  <1> HIDE DEF f, v, S, W, L, B, P, T
  <1>6. /\ IsFiniteSet(W) /\ IsFiniteSet(L) /\ IsFiniteSet(B) /\ IsFiniteSet(P) /\ IsFiniteSet(T)
        /\ IsFiniteSet(W \cup L) /\ IsFiniteSet((W \cup L) \cup B)
        /\ IsFiniteSet(((W \cup L) \cup B) \cup P)
    <2>1. \A U \in SUBSET S : IsFiniteSet(U)
      BY <1>1, FS_Subset
    <2>2. QED
      BY <1>3, <2>1
  <1>7. /\ SumFunctionOnSet(f, W) = SumFunctionOnSet(v, W)
        /\ SumFunctionOnSet(f, L) = SumFunctionOnSet(v, L)
        /\ SumFunctionOnSet(f, P) = SumFunctionOnSet(v, P)
        /\ SumFunctionOnSet(f, T) = SumFunctionOnSet(v, T)
    BY <1>4, <1>6, SumSame
  <1>8. SumFunctionOnSet(f, B) = - SumFunctionOnSet(v, B)
    <2>1. \A i \in B : v[i] \in Int /\ f[i] = - v[i]
      BY <1>1, <1>3, <1>4
    <2>2. QED
      BY <1>6, <2>1, SumOpposite
  <1>9. SumFunctionOnSet(f, S) = SumFunctionOnSet(f, W) + SumFunctionOnSet(f, L)
             + SumFunctionOnSet(f, B) + SumFunctionOnSet(f, P) + SumFunctionOnSet(f, T)
    <2>0. \A i \in S : f[i] \in Int
      BY <1>1
    <2>1. SumFunctionOnSet(f, W \cup L) = SumFunctionOnSet(f, W) + SumFunctionOnSet(f, L)
      <3>1. \A i \in W \cup L : f[i] \in Int
        BY <1>3, <2>0
      <3>2. QED
        BY <1>3, <1>6, <3>1, SumOfUnion
    <2>2. SumFunctionOnSet(f, (W \cup L) \cup B)
            = SumFunctionOnSet(f, W \cup L) + SumFunctionOnSet(f, B)
      <3>1. \A i \in (W \cup L) \cup B : f[i] \in Int
        BY <1>3, <2>0
      <3>2. QED
        BY <1>3, <1>6, <3>1, SumOfUnion
    <2>3. SumFunctionOnSet(f, ((W \cup L) \cup B) \cup P)
            = SumFunctionOnSet(f, (W \cup L) \cup B) + SumFunctionOnSet(f, P)
      <3>1. \A i \in ((W \cup L) \cup B) \cup P : f[i] \in Int
        BY <1>3, <2>0
      <3>2. QED
        BY <1>3, <1>6, <3>1, SumOfUnion
    <2>4. SumFunctionOnSet(f, (((W \cup L) \cup B) \cup P) \cup T)
            = SumFunctionOnSet(f, ((W \cup L) \cup B) \cup P) + SumFunctionOnSet(f, T)
      <3>1. \A i \in (((W \cup L) \cup B) \cup P) \cup T : f[i] \in Int
        BY <1>3, <2>0
      <3>2. QED
        BY <1>3, <1>6, <3>1, SumOfUnion
    <2>5. QED
      BY <1>3, <2>1, <2>2, <2>3, <2>4
  <1>10. /\ SumFunctionOnSet(v, W) \in Int /\ SumFunctionOnSet(v, L) \in Int
         /\ SumFunctionOnSet(v, B) \in Int /\ SumFunctionOnSet(v, P) \in Int
         /\ SumFunctionOnSet(v, T) \in Int
    <2>1. \A i \in S : v[i] \in Int
      BY <1>1
    <2>2. ASSUME NEW U, U \subseteq S, IsFiniteSet(U) PROVE SumFunctionOnSet(v, U) \in Int
      <3>1. \A i \in U : v[i] \in Int
        BY <2>1, <2>2
      <3>2. QED
        BY <2>2, <3>1, SumType
    <2>3. QED
      BY <1>3, <1>6, <2>2
  <1>11. QED
    BY <1>2, <1>5, <1>7, <1>8, <1>9, <1>10

LEMMA MapOf ==
    ASSUME NEW keys, NEW values, NEW f, NEW K, K \subseteq keys, f \in [K -> values]
    PROVE  f \in Maps(keys, values)
  BY DEF Maps

LEMMA SumsType ==
    ASSUME NEW results \in Seq(Results), NEW T, T \subseteq DOMAIN results
    PROVE  SumFunctionOnSet(Signs(results), T) \in Int
  <1>1. IsFiniteSet(DOMAIN results) /\ \A i \in DOMAIN results : Signs(results)[i] \in Int
    BY PositionsType
  <1>2. IsFiniteSet(T)
    BY <1>1, FS_Subset
  <1>3. \A i \in T : Signs(results)[i] \in Int
    BY <1>1
  <1>4. QED
    BY <1>2, <1>3, SumType

\* What is kept of each protocol and chain is an amount of one there is.
LEMMA SharesType ==
    ASSUME NEW results \in Seq(Results)
    PROVE  LET summary == BuildSummary(results)
           IN  /\ DOMAIN summary.byProtocol \subseteq {r.protocol : r \in Results}
               /\ \A p \in DOMAIN summary.byProtocol : summary.byProtocol[p] \in Int
               /\ DOMAIN summary.byChain \subseteq {r.chain : r \in Results}
               /\ \A c \in DOMAIN summary.byChain : summary.byChain[c] \in Int
  <1>1. \A i \in DOMAIN results : results[i] \in Results
    BY PositionsType
  <1> DEFINE byProtocol == BuildSummary(results).byProtocol
             byChain == BuildSummary(results).byChain
             ofProtocol(p) == {i \in DOMAIN results : results[i].protocol = p}
             ofChain(c) == {i \in DOMAIN results : results[i].chain = c}
             protocols == [p \in {results[i].protocol : i \in DOMAIN results} |->
                              SumFunctionOnSet(Signs(results), ofProtocol(p))]
             chains == [c \in {results[i].chain : i \in DOMAIN results} |->
                           SumFunctionOnSet(Signs(results), ofChain(c))]
  <1>2. byProtocol = protocols /\ byChain = chains
    BY SharesAre, ChainsAre
  <1>3. \A x : /\ SumFunctionOnSet(Signs(results), ofProtocol(x)) \in Int
               /\ SumFunctionOnSet(Signs(results), ofChain(x)) \in Int
    BY SumsType
  <1>4. /\ DOMAIN protocols \subseteq {r.protocol : r \in Results}
        /\ \A p \in DOMAIN protocols : protocols[p] \in Int
    BY <1>1, <1>3
  <1>5. /\ DOMAIN chains \subseteq {r.chain : r \in Results}
        /\ \A c \in DOMAIN chains : chains[c] \in Int
    BY <1>1, <1>3
  <1> HIDE DEF protocols, chains, byProtocol, byChain
  <1>6. /\ DOMAIN byProtocol \subseteq {r.protocol : r \in Results}
        /\ \A p \in DOMAIN byProtocol : byProtocol[p] \in Int
        /\ DOMAIN byChain \subseteq {r.chain : r \in Results}
        /\ \A c \in DOMAIN byChain : byChain[c] \in Int
    BY <1>2, <1>4, <1>5
  <1>7. QED
    BY <1>6 DEF byProtocol, byChain

LEMMA ReturnsType ==
    ASSUME NEW totals, TotalsOK(totals)
    PROVE  Returns(totals) \in Maps(Days, Quotient) \cup {None}
  <1> DEFINE before(d) == {x \in DOMAIN totals : x < d}
             start(d) == totals[Max(before(d))]
             days == {d \in DOMAIN totals : before(d) # {} /\ start(d) # 0}
             returns == [d \in days |-> [num |-> totals[d] - start(d), den |-> start(d)]]
  <1>1. ASSUME NEW d \in days PROVE start(d) \in Int /\ totals[d] \in Int
    <2>1. before(d) \subseteq DOMAIN totals /\ before(d) # {} /\ before(d) \subseteq Days
      BY DEF TotalsOK
    <2>2. Days \subseteq Int /\ IsFiniteSet(Days)
      BY DaysType
    <2> HIDE DEF before
    <2>3. Max(before(d)) \in before(d)
      BY <2>1, <2>2, FS_Subset, MaxOfFinite
    <2>4. QED
      BY <2>1, <2>3 DEF TotalsOK
  <1>2. days \subseteq Days
    BY DEF TotalsOK
  <1>3. returns \in [days -> Quotient]
    BY <1>1 DEF Quotient
  <1>4. Returns(totals) \in {None, returns}
    BY DEF Returns
  <1> HIDE DEF days, returns
  <1>5. returns \in Maps(Days, Quotient)
    BY <1>2, <1>3, MapOf
  <1>6. QED
    BY <1>4, <1>5

LEMMA PercentType ==
    ASSUME NEW part \in Int, NEW whole \in Int, NEW defined
    PROVE  Percent(part, whole, defined) \in Quotient
  BY DEF Percent, Quotient

Share == [value : Int, percent : Quotient, previousPercent : Quotient \cup {None}]

LEMMA ComputedType ==
    ASSUME NEW today \in Snapshot, NEW previous, NEW first, NEW totals,
           previous # None => previous \in Analytics,
           first # None => first \in Snapshot, TotalsOK(totals)
    PROVE  LET a == ComputeAnalytics(today, previous, first, totals)
               shares == BuildSummary(today.positions).byProtocol
           IN  /\ a \in Analytics
               /\ a.total = today.total
               /\ a.highWaterMark = HighWaterMark(today.total, previous)
               /\ a.dailyPnl = today.total
                                  - (IF previous = None THEN today.total ELSE previous.total)
               /\ a.cumulativePnl = today.total
                                  - (IF first = None THEN today.total ELSE first.total)
               /\ DOMAIN a.protocols = DOMAIN shares
               /\ \A p \in DOMAIN shares : a.protocols[p].value = shares[p]
  <1> DEFINE a == ComputeAnalytics(today, previous, first, totals)
             summary == BuildSummary(today.positions)
             shares == summary.byProtocol
             prevValue == IF previous = None THEN today.total ELSE previous.total
             firstValue == IF first = None THEN today.total ELSE first.total
             mark == HighWaterMark(today.total, previous)
             protocols == ProtocolDistribution(shares, today.total, previous)
             chains == ChainDistribution(summary.byChain, today.total)
  <1>1. a = [total |-> today.total,
             previousDay |-> IF previous = None THEN None ELSE previous.total,
             dailyPnl |-> today.total - prevValue,
             dailyPnlPercent |-> Percent(today.total - prevValue, prevValue, prevValue # 0),
             cumulativePnl |-> today.total - firstValue,
             cumulativePnlPercent |->
                Percent(today.total - firstValue, firstValue, firstValue # 0),
             protocols |-> protocols, chains |-> chains, highWaterMark |-> mark,
             drawdown |-> Percent(today.total - mark, mark, mark > 0),
             returns |-> Returns(totals)]
    BY DEF ComputeAnalytics
  <1>2. today.total \in Int /\ today.positions \in Seq(Results)
    BY DEF Snapshot
  <1>3. /\ DOMAIN shares \subseteq {r.protocol : r \in Results}
        /\ \A p \in DOMAIN shares : shares[p] \in Int
        /\ DOMAIN summary.byChain \subseteq {r.chain : r \in Results}
        /\ \A c \in DOMAIN summary.byChain : summary.byChain[c] \in Int
    BY <1>2, SharesType
  <1>4. prevValue \in Int /\ firstValue \in Int /\ mark \in Int
    BY <1>2 DEF Snapshot, Analytics, HighWaterMark, Larger
  <1>5. \A p \in DOMAIN shares : Percent(shares[p], today.total, today.total > 0) \in Quotient
    BY <1>2, <1>3, PercentType
  <1>6. ASSUME NEW p, previous # None, p \in DOMAIN previous.protocols
        PROVE  previous.protocols[p].percent \in Quotient
    <2>1. previous.protocols \in Maps({r.protocol : r \in Results}, Share)
      BY <1>6 DEF Analytics, Share
    <2>2. PICK K : previous.protocols \in [K -> Share]
      BY <2>1 DEF Maps
    <2>3. QED
      BY <1>6, <2>2 DEF Share
  <1>7. /\ DOMAIN protocols = DOMAIN shares
        /\ \A p \in DOMAIN shares : protocols[p].value = shares[p]
        /\ protocols \in [DOMAIN shares -> Share]
    <2>1. \A p \in DOMAIN shares :
            (IF previous # None /\ p \in DOMAIN previous.protocols
             THEN previous.protocols[p].percent ELSE None) \in Quotient \cup {None}
      BY <1>6
    <2> HIDE DEF shares
    <2>2. QED
      BY <1>3, <1>5, <2>1 DEF ProtocolDistribution, Share
  <1>8. chains \in [DOMAIN summary.byChain -> [value : Int, percent : Quotient]]
    <2>1. \A c \in DOMAIN summary.byChain :
            Percent(summary.byChain[c], today.total, today.total > 0) \in Quotient
      BY <1>2, <1>3, PercentType
    <2> HIDE DEF summary
    <2>2. QED
      BY <1>3, <2>1 DEF ChainDistribution
  <1>9. /\ protocols \in Maps({r.protocol : r \in Results}, Share)
        /\ chains \in Maps({r.chain : r \in Results}, [value : Int, percent : Quotient])
    <2> HIDE DEF protocols, chains, shares, summary
    <2>1. QED
      BY <1>3, <1>7, <1>8, MapOf
  <1>10. /\ Percent(today.total - prevValue, prevValue, prevValue # 0) \in Quotient
         /\ Percent(today.total - firstValue, firstValue, firstValue # 0) \in Quotient
         /\ Percent(today.total - mark, mark, mark > 0) \in Quotient
    <2> HIDE DEF prevValue, firstValue, mark
    <2>1. QED
      BY <1>2, <1>4, PercentType
  <1>11. (IF previous = None THEN None ELSE previous.total) \in Int \cup {None}
    BY DEF Analytics
  <1>12. Returns(totals) \in Maps(Days, Quotient) \cup {None}
    BY ReturnsType
  <1> HIDE DEF prevValue, firstValue, mark, protocols, chains, shares, summary
  <1>13. a \in Analytics
    BY <1>1, <1>2, <1>4, <1>9, <1>10, <1>11, <1>12 DEF Analytics, Share
  <1>14. /\ a.total = today.total /\ a.highWaterMark = mark
         /\ a.dailyPnl = today.total - prevValue
         /\ a.cumulativePnl = today.total - firstValue
         /\ a.protocols = protocols
    BY <1>1
  <1>15. QED
    BY <1>7, <1>13, <1>14 DEF a, prevValue, firstValue, mark, shares, summary

----------------------------------------------------------------------------
(* Types of the state.                                                     *)

Sync == [day : Days, syncedAt : Nat, total : Int]

SaveFields == {"step", "group", "day", "snapshot", "previous", "first", "totals"}

ClockOK == GroupsTypeOK /\ now <= LastTick

\* What is dated is dated to a day that has begun.
DocumentsOK ==
    /\ DOMAIN snapshots = Groups /\ DOMAIN analytics = Groups
    /\ \A g \in Groups : DOMAIN snapshots[g] = Days /\ DOMAIN analytics[g] = Days
    /\ \A g \in Groups, d \in Days :
         /\ snapshots[g][d] # None => SnapshotBy(snapshots[g][d], now) /\ d <= Today
         /\ analytics[g][d] # None => analytics[g][d] \in Analytics /\ d <= Today
    /\ syncs \in [Groups -> Seq(Sync)]

SaveOK(save) ==
    /\ DOMAIN save = SaveFields /\ save.step \in SaveSteps
    /\ save.step # "idle" =>
         /\ save.group \in Groups /\ save.day \in Days /\ save.day <= Today
         /\ SnapshotBy(save.snapshot, now)
    /\ save.previous # None => save.previous \in Analytics
    /\ save.first # None => save.first \in Snapshot
    /\ TotalsOK(save.totals)

SavesOK ==
    /\ DOMAIN saves = Savers
    /\ \A s \in Savers : SaveOK(saves[s])
    /\ saves[Sweeper].step \notin {"sync", "synced"}

SaverOK == ClockOK /\ DocumentsOK /\ SavesOK

SweepFields == {"step", "day", "begun", "lacking", "listed", "missing", "due", "pairs", "found"}

SweepOK ==
    /\ DOMAIN sweep = SweepFields /\ sweep.step \in SweepSteps
    /\ sweep.step \in {"recent", "groups"} => sweep.day \in Days
    /\ DOMAIN sweep.lacking \subseteq Groups
    /\ \A g \in DOMAIN sweep.lacking : sweep.lacking[g] \in Nat
    /\ DOMAIN sweep.listed \subseteq Groups
    /\ \A g \in DOMAIN sweep.listed : sweep.listed[g] \in Document
    /\ sweep.missing \subseteq DOMAIN sweep.listed
    /\ sweep.step \in {"fill", "recent"} => sweep.missing = {}
    /\ \A key \in DOMAIN sweepCache :
         key \in [day : Days, pair : Pair] /\ sweepCache[key] \in Seq(Results)

LEMMA TodayType == ClockOK => now \in Nat /\ Today \in Nat /\ Today \in Days
  <1> SUFFICES ASSUME ClockOK PROVE now \in Nat /\ Today \in Nat /\ Today \in Days
    OBVIOUS
  <1>1. now \in Nat /\ now <= LastTick
    BY DEF ClockOK, GroupsTypeOK
  <1>2. Today \in Nat /\ Today <= LastDay
    BY <1>1, DayType, DaysType DEF Today, LastDay
  <1>3. QED
    BY <1>1, <1>2, DaysType

LEMMA FaultsType ==
    ASSUME ClockOK, Fault \/ UNCHANGED faults
    PROVE  faults' \in 0..MaxFaults
  BY WalletGroupsAssumption DEF ClockOK, GroupsTypeOK, Fault

LEMMA ClockKept ==
    ASSUME ClockOK, UNCHANGED <<now, groups>>, Fault \/ UNCHANGED faults
    PROVE  ClockOK'
  BY FaultsType DEF ClockOK, GroupsTypeOK

LEMMA NoSaveOK == SaveOK(NoSave)
  <1>1. TotalsOK(<<>>)
    BY DEF TotalsOK
  <1>2. QED
    BY <1>1 DEF SaveOK, NoSave, SaveFields, SaveSteps

\* One save changes.
LEMMA SaveChanged ==
    ASSUME SavesOK, UNCHANGED now, NEW s \in Savers, NEW x, SaveOK(x),
           saves' = [saves EXCEPT ![s] = x], s = Sweeper => x.step \notin {"sync", "synced"}
    PROVE  /\ SavesOK'
           /\ saves'[s] = x /\ \A t \in Savers \ {s} : saves'[t] = saves[t]
  <1>1. /\ DOMAIN saves' = Savers /\ saves'[s] = x
        /\ \A t \in Savers \ {s} : saves'[t] = saves[t]
    BY DEF SavesOK
  <1>2. ASSUME NEW t \in Savers PROVE SaveOK(saves[t])'
    <2>1. SaveOK(saves'[t])
      BY <1>1 DEF SavesOK
    <2>2. QED
      BY <2>1 DEF SaveOK, Today
  <1>3. Sweeper \in Savers
    BY DEF Savers
  <1>4. QED
    BY <1>1, <1>2, <1>3 DEF SavesOK

LEMMA SaveGoesOn ==
    ASSUME SavesOK, UNCHANGED now, NEW s \in Savers,
           NEW step \in SaveSteps \ {"idle"}, saves' = Goes(s, step),
           saves[s].step # "idle", s = Sweeper => step \notin {"sync", "synced"}
    PROVE  /\ SavesOK'
           /\ saves'[s] = [saves[s] EXCEPT !.step = step]
           /\ \A t \in Savers \ {s} : saves'[t] = saves[t]
  <1> DEFINE x == [saves[s] EXCEPT !.step = step]
  <1>1. SaveOK(saves[s]) /\ DOMAIN saves = Savers
    BY DEF SavesOK
  <1>2. SaveOK(x) /\ x.step = step
    BY <1>1 DEF SaveOK, SaveFields
  <1>3. saves' = [saves EXCEPT ![s] = x]
    BY <1>1 DEF Goes
  <1> HIDE DEF x
  <1>4. /\ SavesOK' /\ saves'[s] = x /\ \A t \in Savers \ {s} : saves'[t] = saves[t]
    BY <1>2, <1>3, SaveChanged
  <1>5. QED
    BY <1>4 DEF x

\* A save is over, whether it has failed or not.
LEMMA SaveEnds ==
    ASSUME SavesOK, UNCHANGED now, NEW s \in Savers, saves' = Ended(s), saves[s].step # "idle"
    PROVE  /\ SavesOK'
           /\ saves'[s] = IF s = Sweeper THEN NoSave ELSE [saves[s] EXCEPT !.step = "sync"]
           /\ \A t \in Savers \ {s} : saves'[t] = saves[t]
  <1>1. CASE s = Sweeper
    <2>1. saves' = [saves EXCEPT ![s] = NoSave] /\ NoSave.step = "idle"
      BY <1>1 DEF Ended, NoSave
    <2>2. QED
      BY <1>1, <2>1, NoSaveOK, SaveChanged
  <1>2. CASE s # Sweeper
    BY <1>2, SaveGoesOn DEF Ended, SaveSteps
  <1>3. QED
    BY <1>1, <1>2
----------------------------------------------------------------------------
(* What each step of a save does.                                          *)

\* An upsert replaces the document of a day.
LEMMA Replaced ==
    ASSUME NEW docs, DOMAIN docs = Groups, \A g \in Groups : DOMAIN docs[g] = Days,
           NEW g \in Groups, NEW d \in Days, NEW x
    PROVE  LET new == [docs EXCEPT ![g][d] = x]
           IN  /\ DOMAIN new = Groups /\ \A h \in Groups : DOMAIN new[h] = Days
               /\ new[g][d] = x
               /\ \A h \in Groups, e \in Days : <<h, e>> # <<g, d>> => new[h][e] = docs[h][e]
  OBVIOUS

\* A save of a day that stays undisturbed has not failed, and midnight has
\* not passed.
LEMMA StepUndisturbed ==
    ASSUME NEW s, NEW step, NEW failed \in BOOLEAN, SaveStep(s, step, failed)
    PROVE  /\ saves[s].step = step /\ disturbed \subseteq disturbed'
           /\ UNCHANGED <<now, groups, syncs, cut>> /\ (Fault \/ UNCHANGED faults)
           /\ failed => Fault
           /\ <<saves[s].group, saves[s].day>> \notin disturbed' =>
                ~failed /\ Today = saves[s].day
  BY DEF SaveStep, Disturbance

LEMMA UpsertSnapshotDoes ==
    ASSUME SaverOK, NEW s \in Savers, UpsertSnapshot(s),
           NEW g, NEW d, g = saves[s].group, d = saves[s].day
    PROVE  /\ SaverOK' /\ g \in Groups /\ d \in Days
           /\ disturbed \subseteq disturbed' /\ UNCHANGED <<now, analytics, cut>>
           /\ saves[s].step = "upsert"
           /\ \A t \in Savers \ {s} : saves'[t] = saves[t]
           /\ \A h \in Groups, e \in Days : <<h, e>> # <<g, d>> =>
                snapshots'[h][e] = snapshots[h][e]
           /\ snapshots'[g][d] \in {snapshots[g][d], saves[s].snapshot}
           /\ \/ /\ saves'[s] = [saves[s] EXCEPT !.step = "previous"]
                 /\ snapshots'[g][d] = saves[s].snapshot
              \/ /\ Fault /\ <<g, d>> \in disturbed'
                 /\ saves'[s] = IF s = Sweeper THEN NoSave
                                ELSE [saves[s] EXCEPT !.step = "sync"]
           /\ <<g, d>> \notin disturbed' => Today = d
  <1>1. PICK failed \in BOOLEAN, applied \in BOOLEAN :
          /\ failed \/ applied
          /\ SaveStep(s, "upsert", failed)
          /\ snapshots' = IF applied THEN [snapshots EXCEPT ![g][d] = saves[s].snapshot]
                          ELSE snapshots
          /\ saves' = IF failed THEN Ended(s) ELSE Goes(s, "previous")
    BY DEF UpsertSnapshot
  <1>2. /\ saves[s].step = "upsert" /\ disturbed \subseteq disturbed'
        /\ UNCHANGED <<now, groups, syncs, cut, analytics>> /\ (Fault \/ UNCHANGED faults)
        /\ failed => Fault
        /\ <<g, d>> \notin disturbed' => ~failed /\ Today = d
    BY <1>1, StepUndisturbed DEF UpsertSnapshot
  <1>3. /\ g \in Groups /\ d \in Days /\ d <= Today /\ SnapshotBy(saves[s].snapshot, now)
        /\ SavesOK
    BY <1>2 DEF SaverOK, SavesOK, SaveOK
  <1>4. /\ DOMAIN snapshots' = Groups /\ \A h \in Groups : DOMAIN snapshots'[h] = Days
        /\ \A h \in Groups, e \in Days : <<h, e>> # <<g, d>> =>
                snapshots'[h][e] = snapshots[h][e]
        /\ snapshots'[g][d] = IF applied THEN saves[s].snapshot ELSE snapshots[g][d]
    BY <1>1, <1>3, Replaced DEF SaverOK, DocumentsOK
  <1>5. DocumentsOK'
    BY <1>2, <1>3, <1>4 DEF SaverOK, DocumentsOK, Today
  <1>6. CASE failed
    <2>1. /\ SavesOK' /\ \A t \in Savers \ {s} : saves'[t] = saves[t]
          /\ saves'[s] = IF s = Sweeper THEN NoSave ELSE [saves[s] EXCEPT !.step = "sync"]
      BY <1>1, <1>2, <1>3, <1>6, SaveEnds
    <2>2. QED
      BY <1>2, <1>3, <1>4, <1>5, <1>6, <2>1, ClockKept DEF SaverOK
  <1>7. CASE ~failed
    <2>1. /\ SavesOK' /\ \A t \in Savers \ {s} : saves'[t] = saves[t]
          /\ saves'[s] = [saves[s] EXCEPT !.step = "previous"]
      BY <1>1, <1>2, <1>3, <1>7, SaveGoesOn DEF SaveSteps
    <2>2. QED
      BY <1>1, <1>2, <1>3, <1>4, <1>5, <1>7, <2>1, ClockKept DEF SaverOK
  <1>8. QED
    BY <1>6, <1>7

\* A read keeps its answer, or nothing if it has failed.
LEMMA ReadDoes ==
    ASSUME SaverOK, NEW s \in Savers, NEW step, NEW failed \in BOOLEAN,
           SaveStep(s, step, failed), UNCHANGED <<snapshots, analytics>>,
           NEW x, SaveOK(x), x.step \notin {"sync", "synced"},
           saves' = [saves EXCEPT ![s] = x]
    PROVE  /\ SaverOK'
           /\ disturbed \subseteq disturbed' /\ UNCHANGED <<now, snapshots, analytics, cut>>
           /\ \A t \in Savers \ {s} : saves'[t] = saves[t]
           /\ saves'[s] = x
           /\ <<saves[s].group, saves[s].day>> \notin disturbed' =>
                ~failed /\ Today = saves[s].day
  <1>1. /\ disturbed \subseteq disturbed' /\ UNCHANGED <<now, groups, syncs, cut>>
        /\ (Fault \/ UNCHANGED faults)
        /\ <<saves[s].group, saves[s].day>> \notin disturbed' =>
                ~failed /\ Today = saves[s].day
    BY StepUndisturbed
  <1>2. /\ SavesOK' /\ saves'[s] = x /\ \A t \in Savers \ {s} : saves'[t] = saves[t]
    BY <1>1, SaveChanged DEF SaverOK
  <1>3. ClockOK' /\ DocumentsOK'
    BY <1>1, ClockKept DEF SaverOK, DocumentsOK, Today
  <1>4. QED
    BY <1>1, <1>2, <1>3 DEF SaverOK

LEMMA FirstSnapshotType ==
    ASSUME SaverOK, NEW g \in Groups
    PROVE  /\ DaysWithSnapshot(g) # {} =>
                /\ Min(DaysWithSnapshot(g)) \in DaysWithSnapshot(g)
                /\ \A d \in DaysWithSnapshot(g) : Min(DaysWithSnapshot(g)) <= d
                /\ GetFirstSnapshot(g) = snapshots[g][Min(DaysWithSnapshot(g))]
                /\ SnapshotBy(GetFirstSnapshot(g), now)
           /\ GetFirstSnapshot(g) # None =>
                DaysWithSnapshot(g) # {} /\ GetFirstSnapshot(g) \in Snapshot
  <1>1. DaysWithSnapshot(g) \subseteq Days /\ DaysWithSnapshot(g) \subseteq Int
    BY DaysType DEF DaysWithSnapshot
  <1>2. IsFiniteSet(DaysWithSnapshot(g))
    BY <1>1, DaysType, FS_Subset
  <1>3. DaysWithSnapshot(g) # {} =>
          /\ Min(DaysWithSnapshot(g)) \in DaysWithSnapshot(g)
          /\ \A d \in DaysWithSnapshot(g) : Min(DaysWithSnapshot(g)) <= d
    BY <1>1, <1>2, MinOfFinite
  <1>4. \A d \in DaysWithSnapshot(g) : SnapshotBy(snapshots[g][d], now)
    BY DEF SaverOK, DocumentsOK, DaysWithSnapshot
  <1>5. DaysWithSnapshot(g) # {} =>
          GetFirstSnapshot(g) = snapshots[g][Min(DaysWithSnapshot(g))]
    BY DEF GetFirstSnapshot
  <1>6. DaysWithSnapshot(g) = {} => GetFirstSnapshot(g) = None
    BY DEF GetFirstSnapshot
  <1>7. QED
    BY <1>3, <1>4, <1>5, <1>6 DEF SnapshotBy

LEMMA ReadPreviousDoes ==
    ASSUME SaverOK, NEW s \in Savers, ReadPrevious(s),
           NEW g, NEW d, g = saves[s].group, d = saves[s].day
    PROVE  /\ SaverOK' /\ g \in Groups /\ d \in Days
           /\ disturbed \subseteq disturbed' /\ UNCHANGED <<now, snapshots, analytics, cut>>
           /\ \A t \in Savers \ {s} : saves'[t] = saves[t]
           /\ saves[s].step = "previous" /\ saves'[s].step = "first"
           /\ saves'[s].group = g /\ saves'[s].day = d
           /\ saves'[s].snapshot = saves[s].snapshot
           /\ <<g, d>> \notin disturbed' =>
                Today = d /\ saves'[s].previous = GetAnalytics(g, d - 1)
  <1>1. PICK failed \in BOOLEAN :
          /\ SaveStep(s, "previous", failed)
          /\ saves' = [Goes(s, "first") EXCEPT ![s].previous =
                          IF failed THEN None ELSE Previous(s)]
          /\ UNCHANGED <<snapshots, analytics>>
    BY DEF ReadPrevious
  <1>2. saves[s].step = "previous" /\ SaveOK(saves[s]) /\ DOMAIN saves = Savers
    BY <1>1 DEF SaveStep, SaverOK, SavesOK
  <1>3. g \in Groups /\ d \in Days
    BY <1>2 DEF SaveOK
  <1> DEFINE answer == IF failed THEN None ELSE Previous(s)
             x == [saves[s] EXCEPT !.step = "first", !.previous = answer]
  <1>4. Previous(s) = GetAnalytics(g, d - 1)
    BY DEF Previous
  <1>5. answer # None => answer \in Analytics
    BY <1>3, <1>4 DEF GetAnalytics, SaverOK, DocumentsOK
  <1> HIDE DEF answer
  <1>6. x.previous = answer /\ x.step = "first" /\ x.first = saves[s].first
        /\ x.totals = saves[s].totals
    BY <1>2 DEF SaveOK, SaveFields
  <1>7. SaveOK(x)
    BY <1>2, <1>5 DEF SaveOK, SaveFields, SaveSteps
  <1>8. saves' = [saves EXCEPT ![s] = x]
    BY <1>1, <1>2 DEF Goes, answer
  <1>9. x.group = g /\ x.day = d /\ x.snapshot = saves[s].snapshot
    BY <1>2 DEF SaveOK, SaveFields
  <1> HIDE DEF x
  <1>10. x.step \notin {"sync", "synced"}
    BY <1>6
  <1>11. /\ SaverOK'
         /\ disturbed \subseteq disturbed' /\ UNCHANGED <<now, snapshots, analytics, cut>>
         /\ \A t \in Savers \ {s} : saves'[t] = saves[t]
         /\ saves'[s] = x
         /\ <<g, d>> \notin disturbed' => ~failed /\ Today = d
    BY <1>1, <1>7, <1>8, <1>10, ReadDoes
  <1>12. QED
    BY <1>2, <1>3, <1>4, <1>6, <1>9, <1>11 DEF answer

LEMMA ReadFirstDoes ==
    ASSUME SaverOK, NEW s \in Savers, ReadFirst(s),
           NEW g, NEW d, g = saves[s].group, d = saves[s].day
    PROVE  /\ SaverOK' /\ g \in Groups /\ d \in Days
           /\ disturbed \subseteq disturbed' /\ UNCHANGED <<now, snapshots, analytics, cut>>
           /\ \A t \in Savers \ {s} : saves'[t] = saves[t]
           /\ saves[s].step = "first" /\ saves'[s].step = "totals"
           /\ saves'[s].group = g /\ saves'[s].day = d
           /\ saves'[s].snapshot = saves[s].snapshot
           /\ saves'[s].previous = saves[s].previous
           /\ <<g, d>> \notin disturbed' =>
                Today = d /\ saves'[s].first = GetFirstSnapshot(g)
  <1>1. PICK failed \in BOOLEAN :
          /\ SaveStep(s, "first", failed)
          /\ saves' = [Goes(s, "totals") EXCEPT ![s].first =
                          IF failed THEN None ELSE GetFirstSnapshot(g)]
          /\ UNCHANGED <<snapshots, analytics>>
    BY DEF ReadFirst
  <1>2. saves[s].step = "first" /\ SaveOK(saves[s]) /\ DOMAIN saves = Savers
    BY <1>1 DEF SaveStep, SaverOK, SavesOK
  <1>3. g \in Groups /\ d \in Days
    BY <1>2 DEF SaveOK
  <1> DEFINE answer == IF failed THEN None ELSE GetFirstSnapshot(g)
             x == [saves[s] EXCEPT !.step = "totals", !.first = answer]
  <1>5. answer # None => answer \in Snapshot
    BY <1>3, FirstSnapshotType
  <1> HIDE DEF answer
  <1>6. x.first = answer /\ x.step = "totals" /\ x.previous = saves[s].previous
        /\ x.totals = saves[s].totals
    BY <1>2 DEF SaveOK, SaveFields
  <1>7. SaveOK(x)
    BY <1>2, <1>5 DEF SaveOK, SaveFields, SaveSteps
  <1>8. saves' = [saves EXCEPT ![s] = x]
    BY <1>1, <1>2 DEF Goes, answer
  <1>9. x.group = g /\ x.day = d /\ x.snapshot = saves[s].snapshot
    BY <1>2 DEF SaveOK, SaveFields
  <1> HIDE DEF x
  <1>10. x.step \notin {"sync", "synced"}
    BY <1>6
  <1>11. /\ SaverOK'
         /\ disturbed \subseteq disturbed' /\ UNCHANGED <<now, snapshots, analytics, cut>>
         /\ \A t \in Savers \ {s} : saves'[t] = saves[t]
         /\ saves'[s] = x
         /\ <<g, d>> \notin disturbed' => ~failed /\ Today = d
    BY <1>1, <1>7, <1>8, <1>10, ReadDoes
  <1>12. QED
    BY <1>2, <1>3, <1>6, <1>9, <1>11 DEF answer

LEMMA ReadTotalsDoes ==
    ASSUME SaverOK, NEW s \in Savers, ReadTotals(s),
           NEW g, NEW d, g = saves[s].group, d = saves[s].day
    PROVE  /\ SaverOK' /\ g \in Groups /\ d \in Days
           /\ disturbed \subseteq disturbed' /\ UNCHANGED <<now, snapshots, analytics, cut>>
           /\ \A t \in Savers \ {s} : saves'[t] = saves[t]
           /\ saves[s].step = "totals" /\ saves'[s].step = "analytics"
           /\ saves'[s].group = g /\ saves'[s].day = d
           /\ saves'[s].snapshot = saves[s].snapshot
           /\ saves'[s].previous = saves[s].previous
           /\ saves'[s].first = saves[s].first
           /\ <<g, d>> \notin disturbed' => Today = d
  <1>1. PICK failed \in BOOLEAN :
          /\ SaveStep(s, "totals", failed)
          /\ saves' = [Goes(s, "analytics") EXCEPT ![s].totals =
                          IF failed THEN <<>> ELSE GetRecentTotals(g, RecentDays)]
          /\ UNCHANGED <<snapshots, analytics>>
    BY DEF ReadTotals
  <1>2. saves[s].step = "totals" /\ SaveOK(saves[s]) /\ DOMAIN saves = Savers
    BY <1>1 DEF SaveStep, SaverOK, SavesOK
  <1>3. g \in Groups /\ d \in Days
    BY <1>2 DEF SaveOK
  <1> DEFINE answer == IF failed THEN <<>> ELSE GetRecentTotals(g, RecentDays)
             x == [saves[s] EXCEPT !.step = "analytics", !.totals = answer]
  <1>5. TotalsOK(answer)
    <2>1. TotalsOK(<<>>)
      BY DEF TotalsOK
    <2>2. \A e \in DaysWithSnapshot(g) : e \in Days /\ snapshots[g][e].total \in Int
      BY <1>3 DEF DaysWithSnapshot, SaverOK, DocumentsOK, SnapshotBy, Snapshot
    <2>3. TotalsOK(GetRecentTotals(g, RecentDays))
      BY <2>2 DEF TotalsOK, GetRecentTotals
    <2>4. QED
      BY <2>1, <2>3
  <1> HIDE DEF answer
  <1>6. x.totals = answer /\ x.step = "analytics" /\ x.previous = saves[s].previous
        /\ x.first = saves[s].first
    BY <1>2 DEF SaveOK, SaveFields
  <1>7. SaveOK(x)
    BY <1>2, <1>5, <1>6 DEF SaveOK, SaveFields, SaveSteps
  <1>8. saves' = [saves EXCEPT ![s] = x]
    BY <1>1, <1>2 DEF Goes, answer
  <1>9. x.group = g /\ x.day = d /\ x.snapshot = saves[s].snapshot
    BY <1>2 DEF SaveOK, SaveFields
  <1> HIDE DEF x
  <1>10. x.step \notin {"sync", "synced"}
    BY <1>6
  <1>11. /\ SaverOK'
         /\ disturbed \subseteq disturbed' /\ UNCHANGED <<now, snapshots, analytics, cut>>
         /\ \A t \in Savers \ {s} : saves'[t] = saves[t]
         /\ saves'[s] = x
         /\ <<g, d>> \notin disturbed' => ~failed /\ Today = d
    BY <1>1, <1>7, <1>8, <1>10, ReadDoes
  <1>12. QED
    BY <1>2, <1>3, <1>6, <1>9, <1>11

\* What a save leaves in the document of its day.
Merged(s) == SetFields(analytics[saves[s].group][saves[s].day], Computed(s))

\* Only the fields that an update may leave out differ from what was
\* computed.
LEMMA StoredIsComputed ==
    ASSUME DocumentsOK, NEW s, SaveOK(saves[s]), saves[s].snapshot \in Snapshot,
           saves[s].group \in Groups, saves[s].day \in Days
    PROVE  /\ Merged(s) \in Analytics
           /\ Merged(s).total = Computed(s).total
           /\ Merged(s).highWaterMark = Computed(s).highWaterMark
           /\ Merged(s).dailyPnl = Computed(s).dailyPnl
           /\ Merged(s).cumulativePnl = Computed(s).cumulativePnl
           /\ Merged(s).protocols = Computed(s).protocols
  <1> DEFINE old == analytics[saves[s].group][saves[s].day]
             new == Computed(s)
  <1>1. new \in Analytics
    BY ComputedType DEF Computed, SaveOK
  <1>2. old # None => old \in Analytics
    BY DEF DocumentsOK
  <1>3. Merged(s) = SetFields(old, new)
    BY DEF Merged
  <1> HIDE DEF old, new
  <1>4. /\ SetFields(old, new) \in Analytics
        /\ SetFields(old, new).total = new.total
        /\ SetFields(old, new).highWaterMark = new.highWaterMark
        /\ SetFields(old, new).dailyPnl = new.dailyPnl
        /\ SetFields(old, new).cumulativePnl = new.cumulativePnl
        /\ SetFields(old, new).protocols = new.protocols
    BY <1>1, <1>2 DEF SetFields, Analytics
  <1>5. QED
    BY <1>3, <1>4 DEF new

\* What a save computes goes into the analytics of its day.
LEMMA UpsertAnalyticsDoes ==
    ASSUME SaverOK, NEW s \in Savers, UpsertAnalytics(s),
           NEW g, NEW d, g = saves[s].group, d = saves[s].day
    PROVE  /\ SaverOK' /\ g \in Groups /\ d \in Days
           /\ disturbed \subseteq disturbed' /\ UNCHANGED <<now, snapshots, cut>>
           /\ saves[s].step = "analytics"
           /\ \A t \in Savers \ {s} : saves'[t] = saves[t]
           /\ saves'[s] = IF s = Sweeper THEN NoSave ELSE [saves[s] EXCEPT !.step = "sync"]
           /\ \A h \in Groups, e \in Days : <<h, e>> # <<g, d>> =>
                analytics'[h][e] = analytics[h][e]
           /\ analytics'[g][d] \in {analytics[g][d], Merged(s)}
           /\ <<g, d>> \notin disturbed' => Today = d /\ analytics'[g][d] = Merged(s)
  <1>1. PICK failed \in BOOLEAN, applied \in BOOLEAN :
          /\ failed \/ applied
          /\ SaveStep(s, "analytics", failed)
          /\ analytics' = IF applied THEN [analytics EXCEPT ![g][d] = Merged(s)]
                          ELSE analytics
          /\ saves' = Ended(s)
          /\ UNCHANGED snapshots
    BY DEF UpsertAnalytics, Merged
  <1>2. /\ saves[s].step = "analytics" /\ disturbed \subseteq disturbed'
        /\ UNCHANGED <<now, groups, syncs, cut, snapshots>> /\ (Fault \/ UNCHANGED faults)
        /\ <<g, d>> \notin disturbed' => ~failed /\ Today = d
    BY <1>1, StepUndisturbed
  <1>3. /\ g \in Groups /\ d \in Days /\ d <= Today
        /\ SavesOK /\ SaveOK(saves[s]) /\ saves[s].snapshot \in Snapshot
    BY <1>2 DEF SaverOK, SavesOK, SaveOK, SnapshotBy
  <1>4. Merged(s) \in Analytics
    BY <1>3, StoredIsComputed DEF SaverOK
  <1>5. /\ DOMAIN analytics' = Groups /\ \A h \in Groups : DOMAIN analytics'[h] = Days
        /\ \A h \in Groups, e \in Days : <<h, e>> # <<g, d>> =>
                analytics'[h][e] = analytics[h][e]
        /\ analytics'[g][d] = IF applied THEN Merged(s) ELSE analytics[g][d]
    BY <1>1, <1>3, Replaced DEF SaverOK, DocumentsOK
  <1>6. DocumentsOK'
    BY <1>2, <1>3, <1>4, <1>5 DEF SaverOK, DocumentsOK, Today
  <1>7. /\ SavesOK' /\ \A t \in Savers \ {s} : saves'[t] = saves[t]
        /\ saves'[s] = IF s = Sweeper THEN NoSave ELSE [saves[s] EXCEPT !.step = "sync"]
    BY <1>1, <1>2, <1>3, SaveEnds
  <1>8. QED
    BY <1>1, <1>2, <1>3, <1>5, <1>6, <1>7, ClockKept DEF SaverOK

----------------------------------------------------------------------------
(* How a save begins, and how it ends otherwise.                           *)

LEMMA BeginSaveDoes ==
    ASSUME SaverOK, NEW s \in Savers, NEW g \in Groups, NEW results \in Seq(Results),
           BeginSave(s, g, results),
           UNCHANGED <<now, groups, snapshots, analytics, syncs, cut>>,
           Fault \/ UNCHANGED faults
    PROVE  /\ SaverOK' /\ disturbed \subseteq disturbed' /\ Today \in Days
           /\ \A t \in Savers \ {s} : saves'[t] = saves[t]
           /\ saves'[s].step = "upsert" /\ saves'[s].group = g /\ saves'[s].day = Today
           /\ saves'[s].snapshot.positions = results
           /\ Saving(g, Today) => <<g, Today>> \in disturbed'
  <1> DEFINE x == [NoSave EXCEPT !.step = "upsert", !.group = g, !.day = Today,
                                 !.snapshot = FromResults(results)]
  <1>1. now \in Nat /\ Today \in Nat /\ Today \in Days
    BY TodayType DEF SaverOK
  <1>2. SnapshotBy(FromResults(results), now) /\ FromResults(results).positions = results
    BY <1>1, FromResultsType
  <1>3. /\ x.step = "upsert" /\ x.group = g /\ x.day = Today
        /\ x.snapshot = FromResults(results)
    BY DEF NoSave
  <1>4. SaveOK(x)
    BY <1>1, <1>2, NoSaveOK DEF SaveOK, NoSave, SaveFields, SaveSteps
  <1>5. saves' = [saves EXCEPT ![s] = x]
    BY DEF BeginSave
  <1> HIDE DEF x
  <1>6. /\ SavesOK' /\ saves'[s] = x /\ \A t \in Savers \ {s} : saves'[t] = saves[t]
    BY <1>3, <1>4, <1>5, SaveChanged DEF SaverOK
  <1>7. ClockOK' /\ DocumentsOK'
    BY ClockKept DEF SaverOK, DocumentsOK, Today
  <1>8. /\ disturbed \subseteq disturbed'
        /\ Saving(g, Today) => <<g, Today>> \in disturbed'
    BY DEF BeginSave
  <1>9. QED
    BY <1>1, <1>2, <1>3, <1>6, <1>7, <1>8 DEF SaverOK

LEMMA CompleteJobDoes ==
    ASSUME SaverOK, NEW w \in Workers, NEW g \in Groups, CompleteJob(w, g)
    PROVE  /\ SaverOK' /\ disturbed \subseteq disturbed' /\ Today \in Days
           /\ UNCHANGED <<now, faults, snapshots, analytics, cut>>
           /\ \A t \in Savers \ {w} : saves'[t] = saves[t]
           /\ saves[w].step = "idle"
           /\ saves'[w].step = "upsert" /\ saves'[w].group = g /\ saves'[w].day = Today
           /\ Saving(g, Today) => <<g, Today>> \in disturbed'
  <1>1. PICK results \in JobResults : BeginSave(w, g, results)
    BY DEF CompleteJob
  <1>2. results \in Seq(Results) /\ w \in Savers
    BY DailySnapshotsAssumption DEF Savers
  <1>3. QED
    BY <1>1, <1>2, BeginSaveDoes DEF CompleteJob

\* A save stops being in flight.
Over(s) ==
    /\ saves'[s].step \in {"idle", "synced"}
    /\ InFlight(s) => \/ saves[s].step = "sync"
                      \/ <<saves[s].group, saves[s].day>> \in disturbed'

LEMMA InsertSyncDoes ==
    ASSUME SaverOK, NEW w \in Workers, InsertSync(w)
    PROVE  /\ SaverOK' /\ disturbed \subseteq disturbed'
           /\ UNCHANGED <<now, snapshots, analytics, cut>>
           /\ \A t \in Savers \ {w} : saves'[t] = saves[t]
           /\ Over(w)
  <1>1. w \in Savers /\ w # Sweeper
    BY DailySnapshotsAssumption DEF Savers
  <1>2. saves[w].step = "sync" /\ SaveOK(saves[w]) /\ SavesOK
    BY <1>1 DEF InsertSync, SaverOK, SavesOK
  <1>3. /\ SavesOK' /\ saves'[w] = [saves[w] EXCEPT !.step = "synced"]
        /\ \A t \in Savers \ {w} : saves'[t] = saves[t]
    BY <1>1, <1>2, SaveGoesOn DEF InsertSync, SaveSteps
  <1>4. saves'[w].step = "synced"
    BY <1>2, <1>3 DEF SaveOK, SaveFields
  <1>5. PICK failed \in BOOLEAN :
          /\ IF failed THEN Fault ELSE UNCHANGED faults
          /\ disturbed' = IF Today = saves[w].day THEN Disturbance(w, failed)
                          ELSE Disturbance(w, failed) \cup {<<saves[w].group, Today>>}
          /\ syncs' = IF failed THEN syncs
                      ELSE [syncs EXCEPT ![saves[w].group] =
                              Append(@, [day |-> Today, syncedAt |-> now,
                                         total |-> saves[w].snapshot.total])]
    BY DEF InsertSync
  <1>6. disturbed \subseteq disturbed'
    BY <1>5 DEF Disturbance
  <1> DEFINE entry == [day |-> Today, syncedAt |-> now, total |-> saves[w].snapshot.total]
  <1>7. entry \in Sync
    <2>1. now \in Nat /\ Today \in Days
      BY TodayType DEF SaverOK
    <2>2. saves[w].snapshot.total \in Int
      BY <1>2 DEF SaveOK, SnapshotBy, Snapshot
    <2>3. QED
      BY <2>1, <2>2 DEF Sync
  <1> HIDE DEF entry
  <1>8. syncs \in [Groups -> Seq(Sync)] /\ saves[w].group \in Groups
    BY <1>2 DEF SaverOK, DocumentsOK, SaveOK
  <1>9. syncs' \in [Groups -> Seq(Sync)]
    BY <1>5, <1>7, <1>8 DEF entry
  <1>10. DocumentsOK'
    BY <1>9 DEF SaverOK, DocumentsOK, InsertSync, Sync, Today
  <1>11. ClockOK'
    BY <1>5, ClockKept DEF SaverOK, InsertSync
  <1>12. QED
    BY <1>2, <1>3, <1>4, <1>6, <1>10, <1>11 DEF SaverOK, InsertSync, Over

\* The group of a synced worker is marked, or the worker forgets it.
LEMMA MarkSyncedDoes ==
    ASSUME SaverOK, NEW w \in Workers, MarkSynced(w)
    PROVE  /\ SaverOK' /\ UNCHANGED <<now, snapshots, analytics, cut, disturbed>>
           /\ \A t \in Savers \ {w} : saves'[t] = saves[t]
           /\ Over(w)
  <1>1. w \in Savers /\ NoSave.step = "idle"
    BY DEF Savers, NoSave
  <1>2. /\ saves[w].step = "synced" /\ SaveOK(saves[w]) /\ SavesOK
        /\ saves' = [saves EXCEPT ![w] = NoSave]
        /\ UNCHANGED <<now, snapshots, analytics, cut, disturbed, syncs>>
    BY <1>1 DEF MarkSynced, SaverOK, SavesOK
  <1>3. /\ SavesOK' /\ saves'[w] = NoSave /\ \A t \in Savers \ {w} : saves'[t] = saves[t]
    BY <1>1, <1>2, NoSaveOK, SaveChanged
  <1>4. groups' \in [Groups -> Document]
    <2>1. groups \in [Groups -> Document] /\ now \in Nat
      BY DEF SaverOK, ClockOK, GroupsTypeOK
    <2>2. Synced(saves[w].group) \in [Groups -> Document]
      BY <2>1 DEF Synced, Document
    <2>3. QED
      BY <2>1, <2>2 DEF MarkSynced
  <1>5. faults' \in 0..MaxFaults
    BY FaultsType DEF MarkSynced, SaverOK
  <1>6. ClockOK' /\ DocumentsOK'
    BY <1>2, <1>4, <1>5 DEF SaverOK, ClockOK, GroupsTypeOK, DocumentsOK, Today
  <1>7. QED
    BY <1>1, <1>2, <1>3, <1>6 DEF SaverOK, Over, InFlight

\* A crash leaves nothing of a save behind.
LEMMA CrashDoes ==
    ASSUME SaverOK, NEW s \in Savers, saves' = [saves EXCEPT ![s] = NoSave], Fault,
           disturbed' = IF InFlight(s) THEN disturbed \cup {<<saves[s].group, saves[s].day>>}
                        ELSE disturbed,
           UNCHANGED <<now, groups, snapshots, analytics, syncs, cut>>
    PROVE  /\ SaverOK' /\ disturbed \subseteq disturbed'
           /\ \A t \in Savers \ {s} : saves'[t] = saves[t]
           /\ saves'[s] = NoSave /\ Over(s)
  <1>1. NoSave.step = "idle"
    BY DEF NoSave
  <1>2. /\ SavesOK' /\ saves'[s] = NoSave /\ \A t \in Savers \ {s} : saves'[t] = saves[t]
    BY <1>1, NoSaveOK, SaveChanged DEF SaverOK
  <1>3. ClockOK' /\ DocumentsOK'
    BY ClockKept DEF SaverOK, DocumentsOK, Today
  <1>4. QED
    BY <1>1, <1>2, <1>3 DEF SaverOK, Over

----------------------------------------------------------------------------
(* What the steps of the sweep do.                                         *)

LEMMA SaverKept ==
    ASSUME SaverOK, UNCHANGED <<now, groups, snapshots, analytics, syncs, saves>>,
           Fault \/ UNCHANGED faults
    PROVE  SaverOK'
  <1>1. SavesOK'
    BY DEF SaverOK, SavesOK, SaveOK, Today
  <1>2. ClockOK' /\ DocumentsOK'
    BY ClockKept DEF SaverOK, DocumentsOK, Today
  <1>3. QED
    BY <1>1, <1>2 DEF SaverOK

\* Every account is one of finitely many, and so are the pairs of a group.
LEMMA PairsAreFinite ==
    ASSUME NEW wallets \in SUBSET Accounts
    PROVE  /\ PairsOf(wallets) \subseteq Pair /\ IsFiniteSet(PairsOf(wallets))
           /\ IsFiniteSet(Written(wallets))
  <1> DEFINE f == [p \in Written(wallets) |-> InLowerCase(p)]
  <1>1. IsFiniteSet(Accounts) /\ IsFiniteSet(Chains)
    BY WalletGroupsAssumption, SnapshotSweepAssumption
  <1>2. IsFiniteSet(wallets)
    BY <1>1, FS_Subset
  <1>3. IsFiniteSet(wallets \X Chains)
    BY <1>1, <1>2, FS_Product
  <1>4. IsFiniteSet(Written(wallets))
    BY <1>3, FS_Subset DEF Written
  <1>5. \A q \in PairsOf(wallets) : \E p \in Written(wallets) : q = f[p]
    BY DEF PairsOf
  <1>6. \A p \in Written(wallets) : f[p] \in PairsOf(wallets)
    BY DEF PairsOf
  <1>7. f \in Surjection(Written(wallets), PairsOf(wallets))
    BY <1>5, <1>6 DEF Surjection
  <1>8. IsFiniteSet(PairsOf(wallets))
    BY <1>4, <1>7, FS_Surjection
  <1>9. PairsOf(wallets) \subseteq Pair
    BY DEF PairsOf, Pair, InLowerCase, Written
  <1>10. QED
    BY <1>4, <1>8, <1>9

\* What is read of the cache is everything the entries hold.
LEMMA CollectedDoes ==
    ASSUME SweepOK, NEW read, IsFiniteSet(read)
    PROVE  /\ Collected(read) \in Seq(Results)
           /\ \A p \in read : KeyOf(p) \in DOMAIN sweepCache =>
                Range(sweepCache[KeyOf(p)]) \subseteq Range(Collected(read))
  <1> DEFINE found == {p \in read : KeyOf(p) \in DOMAIN sweepCache}
             hits == SetToSeq(found)
             seqs == [i \in DOMAIN hits |-> sweepCache[KeyOf(hits[i])]]
  <1>1. IsFiniteSet(found)
    BY FS_Subset
  <1>2. \A p \in found : sweepCache[KeyOf(p)] \in Seq(Results)
    BY DEF SweepOK
  <1>3. Collected(read) = FlattenSeq(seqs)
    BY DEF Collected
  <1>4. \A p \in read : KeyOf(p) \in DOMAIN sweepCache => p \in found
    OBVIOUS
  <1> HIDE DEF found
  <1>5. hits \in Seq(found) /\ Range(hits) = found
    BY <1>1, SetToSeqLists
  <1> HIDE DEF hits
  <1>6. DOMAIN hits = 1..Len(hits) /\ Len(hits) \in Nat
    BY <1>5
  <1>7. \A i \in DOMAIN hits : hits[i] \in found
    BY <1>5
  <1>8. seqs \in Seq(Seq(Results))
    <2>1. \A i \in DOMAIN hits : sweepCache[KeyOf(hits[i])] \in Seq(Results)
      BY <1>2, <1>7
    <2>2. QED
      BY <1>6, <2>1
  <1>9. \A p \in found : \E i \in DOMAIN seqs : seqs[i] = sweepCache[KeyOf(p)]
    BY <1>5 DEF Range
  <1> HIDE DEF seqs
  <1>10. /\ FlattenSeq(seqs) \in Seq(Results)
         /\ \A i \in DOMAIN seqs : Range(seqs[i]) \subseteq Range(FlattenSeq(seqs))
    BY <1>8, FlattenSeqJoins
  <1>11. ASSUME NEW p \in read, KeyOf(p) \in DOMAIN sweepCache
         PROVE  Range(sweepCache[KeyOf(p)]) \subseteq Range(Collected(read))
    <2>1. PICK i \in DOMAIN seqs : seqs[i] = sweepCache[KeyOf(p)]
      BY <1>4, <1>9, <1>11
    <2>2. QED
      BY <1>3, <1>10, <2>1
  <1>12. QED
    BY <1>3, <1>10, <1>11

LEMMA NoSweepOK ==
    ASSUME SweepOK, sweep' = NoSweep, UNCHANGED sweepCache
    PROVE  SweepOK'
  BY DEF SweepOK, NoSweep, SweepFields, SweepSteps

LEMMA FindLackingOK ==
    ASSUME SaverOK, SweepOK, FindLacking
    PROVE  SaverOK' /\ SweepOK'
  <1>1. SaverOK'
    BY SaverKept DEF FindLacking, snapshotVars
  <1>2. /\ groups \in [Groups -> Document] /\ UNCHANGED sweepCache
        /\ DOMAIN Lacking \subseteq Groups
        /\ \A g \in DOMAIN Lacking : Lacking[g] \in Nat
    BY DEF FindLacking, SaverOK, ClockOK, GroupsTypeOK, Lacking, Document
  <1>3. /\ sweep'.step = "fill" /\ DOMAIN sweep' = SweepFields
        /\ sweep'.lacking \in {Lacking, <<>>} /\ sweep'.listed = <<>> /\ sweep'.missing = {}
    BY DEF FindLacking, NoSweep, SweepFields
  <1>4. DOMAIN <<>> = {}
    OBVIOUS
  <1>5. SweepOK'
    BY <1>2, <1>3, <1>4 DEF SweepOK, SweepSteps
  <1>6. QED
    BY <1>1, <1>5

LEMMA BackfillOK ==
    ASSUME SaverOK, SweepOK, NEW g \in Groups, Backfill(g)
    PROVE  /\ SaverOK' /\ SweepOK'
           /\ UNCHANGED <<now, snapshots, analytics, saves, disturbed, cut>>
  <1>1. /\ UNCHANGED <<now, snapshots, analytics, syncs, saves, disturbed, cut, sweepCache>>
        /\ sweep' = [sweep EXCEPT !.lacking = Without(@, g)]
        /\ g \in DOMAIN sweep.lacking /\ (Fault \/ UNCHANGED faults)
    BY DEF Backfill, RestUnchanged
  <1>2. groups' \in [Groups -> Document]
    <2>1. groups \in [Groups -> Document] /\ sweep.lacking[g] \in Nat
      BY <1>1 DEF SaverOK, ClockOK, GroupsTypeOK, SweepOK
    <2>2. Backfilled(g, sweep.lacking[g]) \in [Groups -> Document]
      BY <2>1 DEF Backfilled, Document
    <2>3. QED
      BY <2>1, <2>2 DEF Backfill
  <1>3. ClockOK' /\ DocumentsOK' /\ SavesOK'
    BY <1>1, <1>2, FaultsType
       DEF SaverOK, ClockOK, GroupsTypeOK, DocumentsOK, SavesOK, SaveOK, Today
  <1>4. /\ \A h \in DOMAIN Without(sweep.lacking, g) :
             h \in DOMAIN sweep.lacking /\ Without(sweep.lacking, g)[h] = sweep.lacking[h]
    BY DEF Without
  <1>5. SweepOK'
    BY <1>1, <1>4 DEF SweepOK, SweepFields
  <1>6. QED
    BY <1>1, <1>3, <1>5 DEF SaverOK

LEMMA ListAllOK ==
    ASSUME SaverOK, SweepOK, ListAll
    PROVE  SaverOK' /\ SweepOK'
  <1>1. SaverOK'
    BY SaverKept DEF ListAll, snapshotVars
  <1>2. Today \in Days /\ groups \in [Groups -> Document] /\ UNCHANGED sweepCache
    BY TodayType DEF SaverOK, ClockOK, GroupsTypeOK, ListAll
  <1>3. CASE sweep' = [sweep EXCEPT !.day = Today,
                         !.step = IF ListGroups = {} THEN "groups" ELSE "recent",
                         !.listed = [g \in ListGroups |-> groups[g]]]
    <2>1. /\ sweep'.step \in {"groups", "recent"} /\ DOMAIN sweep' = SweepFields
          /\ sweep'.day = Today /\ sweep'.listed = [g \in ListGroups |-> groups[g]]
          /\ sweep'.lacking = sweep.lacking /\ sweep'.missing = sweep.missing
      BY <1>3 DEF SweepOK, SweepFields
    <2>2. sweep.missing = {}
      BY DEF ListAll, SweepOK
    <2>3. QED
      BY <1>1, <1>2, <2>1, <2>2 DEF SweepOK, SweepSteps, ListGroups
  <1>4. CASE GiveUp
    BY <1>1, <1>2, <1>4, NoSweepOK DEF GiveUp
  <1>5. QED
    BY <1>3, <1>4 DEF ListAll

LEMMA FindMissingOK ==
    ASSUME SaverOK, SweepOK, FindMissing
    PROVE  SaverOK' /\ SweepOK'
  <1>1. SaverOK'
    BY SaverKept DEF FindMissing, snapshotVars
  <1>2. sweep.step = "recent" /\ UNCHANGED sweepCache
    BY DEF FindMissing
  <1> DEFINE missing == {g \in DOMAIN sweep.listed :
                            ~RecentlySaved(g) /\ IsActiveGroup(sweep.listed[g])}
  <1>3. CASE sweep' = [sweep EXCEPT !.missing = missing, !.due = missing,
                         !.listed = [g \in missing |-> @[g]],
                         !.step = "groups",
                         !.pairs = UNION {PairsOf(sweep.listed[g].wallets) : g \in missing}]
    <2>1. missing \subseteq DOMAIN sweep.listed
      OBVIOUS
    <2> HIDE DEF missing
    <2>2. /\ sweep'.step = "groups" /\ DOMAIN sweep' = SweepFields
          /\ sweep'.missing = missing /\ sweep'.listed = [g \in missing |-> sweep.listed[g]]
          /\ sweep'.lacking = sweep.lacking /\ sweep'.day = sweep.day
      BY <1>3 DEF SweepOK, SweepFields
    <2>3. QED
      BY <1>1, <1>2, <2>1, <2>2 DEF SweepOK, SweepSteps
  <1>4. CASE GiveUp
    BY <1>1, <1>2, <1>4, NoSweepOK DEF GiveUp
  <1>5. QED
    BY <1>3, <1>4 DEF FindMissing

LEMMA ProcessPairOK ==
    ASSUME SaverOK, SweepOK, NEW pair \in Pair, ProcessPair(pair)
    PROVE  SaverOK' /\ SweepOK'
  <1>1. SaverOK'
    BY SaverKept DEF ProcessPair, snapshotVars
  <1> DEFINE key == [day |-> sweep.day, pair |-> pair]
  <1>2. sweep.step = "groups" /\ key \in [day : Days, pair : Pair]
    BY DEF ProcessPair, SweepOK
  <1>3. /\ DOMAIN sweep' = SweepFields /\ sweep'.step = sweep.step /\ sweep'.day = sweep.day
        /\ sweep'.lacking = sweep.lacking /\ sweep'.listed = sweep.listed
        /\ sweep'.missing = sweep.missing
    BY DEF ProcessPair, SweepOK, SweepFields
  <1>4. ASSUME NEW k \in DOMAIN sweepCache'
        PROVE  k \in [day : Days, pair : Pair] /\ sweepCache'[k] \in Seq(Results)
    <2>1. CASE UNCHANGED sweepCache
      BY <1>4, <2>1 DEF SweepOK
    <2>2. CASE \E results \in PairResults[pair] :
                 sweepCache' = With(sweepCache, key, results)
      <3>1. PICK results \in PairResults[pair] :
              sweepCache' = With(sweepCache, key, results)
        BY <2>2
      <3>2. results \in Seq(Results)
        BY SnapshotSweepAssumption, DailySnapshotsAssumption
      <3> HIDE DEF key
      <3>3. CASE k = key
        BY <1>2, <3>1, <3>2, <3>3 DEF With
      <3>4. CASE k # key
        BY <1>4, <3>1, <3>4 DEF SweepOK, With
      <3>5. QED
        BY <3>3, <3>4
    <2>3. QED
      BY <2>1, <2>2 DEF ProcessPair
  <1> HIDE DEF key
  <1>5. SweepOK'
    BY <1>3, <1>4 DEF SweepOK
  <1>6. QED
    BY <1>1, <1>5

\* A group is saved, or skipped for want of results.
LEMMA SaveGroupOK ==
    ASSUME SaverOK, SweepOK, NEW g \in Groups, SaveGroup(g)
    PROVE  /\ SaverOK' /\ SweepOK' /\ disturbed \subseteq disturbed'
           /\ UNCHANGED <<now, snapshots, analytics, cut>>
           /\ sweep.pairs = {} /\ sweep.step = "groups" /\ g \in sweep.missing
           /\ sweep' = [sweep EXCEPT !.missing = @ \ {g}] /\ UNCHANGED sweepCache
           /\ saves[Sweeper].step = "idle"
           /\ \/ UNCHANGED <<saves, disturbed>>
              \/ /\ Today \in Days
                 /\ \A t \in Savers \ {Sweeper} : saves'[t] = saves[t]
                 /\ saves'[Sweeper].step = "upsert" /\ saves'[Sweeper].group = g
                 /\ saves'[Sweeper].day = Today
                 /\ Saving(g, Today) => <<g, Today>> \in disturbed'
           /\ UNCHANGED faults =>
                LET found == Collected(Written(sweep.listed[g].wallets))
                IN  \/ found = <<>> /\ UNCHANGED saves
                    \/ saves'[Sweeper].step = "upsert" /\ saves'[Sweeper].group = g
                       /\ saves'[Sweeper].day = Today
                       /\ saves'[Sweeper].snapshot.positions = found
  <1>1. /\ sweep.step = "groups" /\ sweep.pairs = {} /\ g \in sweep.missing
        /\ ~InFlight(Sweeper) /\ sweep' = [sweep EXCEPT !.missing = @ \ {g}]
        /\ UNCHANGED <<now, groups, snapshots, analytics, syncs, cut, sweepCache>>
    BY DEF SaveGroup
  <1>2. PICK got \in SUBSET Written(sweep.listed[g].wallets) :
          /\ IF got = Written(sweep.listed[g].wallets) THEN UNCHANGED faults ELSE Fault
          /\ IF Collected(got) = <<>> THEN UNCHANGED <<saves, disturbed, swept>>
                                      ELSE BeginSave(Sweeper, g, Collected(got))
    BY DEF SaveGroup
  <1>3. sweep.listed[g].wallets \in SUBSET Accounts
    BY <1>1 DEF SweepOK, Document
  <1>4. IsFiniteSet(got)
    BY <1>3, PairsAreFinite, FS_Subset
  <1>5. Collected(got) \in Seq(Results)
    BY <1>4, CollectedDoes
  <1>6. Sweeper \in Savers /\ saves[Sweeper].step = "idle"
    BY <1>1 DEF Savers, SaverOK, SavesOK, InFlight
  <1>7. SweepOK'
    <2>1. /\ DOMAIN sweep' = SweepFields /\ sweep'.step = sweep.step
          /\ sweep'.day = sweep.day /\ sweep'.lacking = sweep.lacking
          /\ sweep'.listed = sweep.listed /\ sweep'.missing = sweep.missing \ {g}
      BY <1>1 DEF SweepOK, SweepFields
    <2>2. QED
      BY <1>1, <2>1 DEF SweepOK
  <1>8. UNCHANGED faults => got = Written(sweep.listed[g].wallets)
    <2>1. faults \in Nat
      BY WalletGroupsAssumption DEF SaverOK, ClockOK, GroupsTypeOK
    <2>2. QED
      BY <1>2, <2>1 DEF Fault
  <1>9. Fault \/ UNCHANGED faults
    BY <1>2
  <1>10. CASE Collected(got) = <<>>
    <2>1. UNCHANGED <<saves, disturbed>>
      BY <1>2, <1>10
    <2>2. SaverOK'
      BY <1>1, <1>9, <2>1, SaverKept
    <2>3. QED
      BY <1>1, <1>6, <1>7, <1>8, <1>10, <2>1, <2>2
  <1>11. CASE Collected(got) # <<>>
    <2>1. /\ SaverOK' /\ disturbed \subseteq disturbed' /\ Today \in Days
          /\ \A t \in Savers \ {Sweeper} : saves'[t] = saves[t]
          /\ saves'[Sweeper].step = "upsert" /\ saves'[Sweeper].group = g
          /\ saves'[Sweeper].day = Today
          /\ saves'[Sweeper].snapshot.positions = Collected(got)
          /\ Saving(g, Today) => <<g, Today>> \in disturbed'
      BY <1>1, <1>2, <1>5, <1>6, <1>9, <1>11, BeginSaveDoes
    <2>2. QED
      BY <1>1, <1>6, <1>7, <1>8, <2>1
  <1>12. QED
    BY <1>10, <1>11

LEMMA StartRetentionOK ==
    ASSUME SaverOK, SweepOK, StartRetention
    PROVE  SaverOK' /\ SweepOK'
  <1>1. SaverOK'
    BY SaverKept DEF StartRetention, snapshotVars
  <1>2. /\ DOMAIN sweep' = SweepFields /\ sweep'.step = "snapshots"
        /\ sweep'.lacking = sweep.lacking
        /\ sweep'.listed = sweep.listed /\ sweep'.missing = sweep.missing
        /\ UNCHANGED sweepCache
    BY DEF StartRetention, SweepOK, SweepFields
  <1>3. SweepOK'
    BY <1>2 DEF SweepOK, SweepSteps
  <1>4. QED
    BY <1>1, <1>3

\* What retention keeps is what was there.
LEMMA KeptDoes ==
    ASSUME NEW docs, DOMAIN docs = Groups, \A g \in Groups : DOMAIN docs[g] = Days
    PROVE  /\ DOMAIN Kept(docs) = Groups
           /\ \A g \in Groups : DOMAIN Kept(docs)[g] = Days
           /\ \A g \in Groups, d \in Days : Kept(docs)[g][d] \in {docs[g][d], None}
  BY DEF Kept

\* Documents may be deleted, as long as a deleted snapshot is recorded.
Shrunk ==
    /\ \A g \in Groups, d \in Days :
         /\ snapshots'[g][d] = snapshots[g][d] \/ (snapshots'[g][d] = None /\ cut')
         /\ analytics'[g][d] \in {analytics[g][d], None}
    /\ cut => cut'

LEMMA RetentionOK ==
    ASSUME SaverOK, SweepOK, NEW step, NEW next, Retention(step, next),
           next \in SweepSteps \ {"fill", "recent", "groups"},
           DOMAIN snapshots' = Groups, DOMAIN analytics' = Groups,
           \A g \in Groups : DOMAIN snapshots'[g] = Days /\ DOMAIN analytics'[g] = Days,
           Shrunk, syncs' \in [Groups -> Seq(Sync)],
           Fault \/ UNCHANGED faults
    PROVE  SaverOK' /\ SweepOK' /\ UNCHANGED <<now, saves>>
  <1>1. /\ UNCHANGED <<now, groups, saves, sweepCache>>
        /\ sweep' = IF next = "idle" THEN NoSweep ELSE [sweep EXCEPT !.step = next]
    BY DEF Retention, RestUnchanged
  <1>2. SweepOK'
    <2>1. CASE next = "idle"
      BY <1>1, <2>1, NoSweepOK
    <2>2. CASE next # "idle"
      <3>1. /\ DOMAIN sweep' = SweepFields /\ sweep'.step = next
            /\ sweep'.lacking = sweep.lacking
            /\ sweep'.listed = sweep.listed /\ sweep'.missing = sweep.missing
        BY <1>1, <2>2 DEF SweepOK, SweepFields
      <3>2. QED
        BY <1>1, <3>1 DEF SweepOK, SweepSteps
    <2>3. QED
      BY <2>1, <2>2
  <1>3. ClockOK' /\ SavesOK'
    BY <1>1, ClockKept DEF SaverOK, SavesOK, SaveOK, Today
  <1>4. DocumentsOK'
    <2>1. ASSUME NEW g \in Groups, NEW d \in Days
          PROVE  /\ snapshots'[g][d] # None => SnapshotBy(snapshots'[g][d], now) /\ d <= Today
                 /\ analytics'[g][d] # None => analytics'[g][d] \in Analytics /\ d <= Today
      BY DEF SaverOK, DocumentsOK, Shrunk
    <2>2. QED
      BY <1>1, <2>1 DEF DocumentsOK, Today, Sync
  <1>5. QED
    BY <1>1, <1>2, <1>3, <1>4 DEF SaverOK

LEMMA DeleteOldSnapshotsOK ==
    ASSUME SaverOK, SweepOK, DeleteOldSnapshots
    PROVE  /\ SaverOK' /\ SweepOK' /\ UNCHANGED <<now, saves>> /\ Shrunk
           /\ disturbed \subseteq disturbed'
  <1>1. /\ Retention("snapshots", "analytics") /\ UNCHANGED <<analytics, syncs>>
        /\ disturbed \subseteq disturbed'
    BY DEF DeleteOldSnapshots
  <1>2. /\ DOMAIN snapshots = Groups /\ \A g \in Groups : DOMAIN snapshots[g] = Days
        /\ DOMAIN analytics = Groups /\ \A g \in Groups : DOMAIN analytics[g] = Days
        /\ syncs \in [Groups -> Seq(Sync)]
    BY DEF SaverOK, DocumentsOK
  <1>3. /\ DOMAIN snapshots' = Groups /\ \A g \in Groups : DOMAIN snapshots'[g] = Days
        /\ Shrunk
    <2>1. CASE snapshots' = Kept(snapshots) /\ cut' = (cut \/ Kept(snapshots) # snapshots)
      BY <1>1, <1>2, <2>1, KeptDoes DEF Shrunk
    <2>2. CASE UNCHANGED <<snapshots, cut>>
      BY <1>1, <1>2, <2>2 DEF Shrunk
    <2>3. QED
      BY <2>1, <2>2 DEF DeleteOldSnapshots
  <1>4. "analytics" \in SweepSteps \ {"fill", "recent", "groups"}
    BY DEF SweepSteps
  <1>5. Fault \/ UNCHANGED faults
    BY DEF DeleteOldSnapshots
  <1>6. QED
    BY <1>1, <1>2, <1>3, <1>4, <1>5, RetentionOK

LEMMA DeleteOldAnalyticsOK ==
    ASSUME SaverOK, SweepOK, DeleteOldAnalytics
    PROVE  /\ SaverOK' /\ SweepOK' /\ UNCHANGED <<now, saves, snapshots>> /\ Shrunk
           /\ disturbed \subseteq disturbed'
  <1>1. /\ Retention("analytics", "syncs") /\ UNCHANGED <<snapshots, syncs, disturbed, cut>>
    BY DEF DeleteOldAnalytics
  <1>2. /\ DOMAIN snapshots = Groups /\ \A g \in Groups : DOMAIN snapshots[g] = Days
        /\ DOMAIN analytics = Groups /\ \A g \in Groups : DOMAIN analytics[g] = Days
        /\ syncs \in [Groups -> Seq(Sync)]
    BY DEF SaverOK, DocumentsOK
  <1>3. /\ DOMAIN analytics' = Groups /\ \A g \in Groups : DOMAIN analytics'[g] = Days
        /\ Shrunk
    BY <1>1, <1>2, KeptDoes DEF DeleteOldAnalytics, Shrunk
  <1>4. "syncs" \in SweepSteps \ {"fill", "recent", "groups"}
    BY DEF SweepSteps
  <1>5. Fault \/ UNCHANGED faults
    BY DEF DeleteOldAnalytics
  <1>6. QED
    BY <1>1, <1>2, <1>3, <1>4, <1>5, RetentionOK

LEMMA InRangeType ==
    ASSUME NEW documents \in Seq(Sync), NEW from, NEW to
    PROVE  InRange(documents, from, to) \in Seq(Sync)
  <1> DEFINE seqs == [i \in DOMAIN documents |->
                        IF from <= documents[i].day /\ documents[i].day <= to
                        THEN <<documents[i]>> ELSE <<>>]
  <1>1. DOMAIN documents = 1..Len(documents) /\ Len(documents) \in Nat
    OBVIOUS
  <1>2. \A i \in DOMAIN documents : documents[i] \in Sync
    OBVIOUS
  <1>3. \A i \in DOMAIN documents : seqs[i] \in Seq(Sync)
    BY <1>2
  <1>4. seqs \in Seq(Seq(Sync))
    BY <1>1, <1>3
  <1>5. InRange(documents, from, to) = FlattenSeq(seqs)
    BY DEF InRange
  <1> HIDE DEF seqs
  <1>6. QED
    BY <1>4, <1>5, FlattenSeqJoins

LEMMA DeleteOldSyncsOK ==
    ASSUME SaverOK, SweepOK, DeleteOldSyncs
    PROVE  /\ SaverOK' /\ SweepOK'
           /\ UNCHANGED <<now, saves, snapshots, analytics, disturbed, cut>>
  <1>1. /\ Retention("syncs", "idle") /\ UNCHANGED <<snapshots, analytics, disturbed, cut>>
    BY DEF DeleteOldSyncs
  <1>2. /\ DOMAIN snapshots = Groups /\ \A g \in Groups : DOMAIN snapshots[g] = Days
        /\ DOMAIN analytics = Groups /\ \A g \in Groups : DOMAIN analytics[g] = Days
        /\ syncs \in [Groups -> Seq(Sync)]
    BY DEF SaverOK, DocumentsOK
  <1>3. Shrunk
    BY <1>1 DEF Shrunk
  <1>4. syncs' \in [Groups -> Seq(Sync)]
    <2>1. \A g \in Groups : InRange(syncs[g], sweep.day, LastDay) \in Seq(Sync)
      BY <1>2, InRangeType
    <2>2. QED
      BY <1>1, <1>2, <2>1 DEF DeleteOldSyncs
  <1>5. "idle" \in SweepSteps \ {"fill", "recent", "groups"}
    BY DEF SweepSteps
  <1>6. Fault \/ UNCHANGED faults
    BY DEF DeleteOldSyncs
  <1>7. QED
    BY <1>1, <1>2, <1>3, <1>4, <1>5, <1>6, RetentionOK
----------------------------------------------------------------------------
(* Type correctness.                                                       *)

LEMMA TickOK ==
    ASSUME SaverOK, SweepOK, Tick
    PROVE  SaverOK' /\ SweepOK' /\ UNCHANGED <<snapshots, analytics, saves, disturbed, cut>>
  <1>1. /\ UNCHANGED <<faults, groups, snapshots, analytics, syncs, saves, disturbed, cut, sweep>>
        /\ now' = now + 1 /\ now < LastTick
        /\ sweepCache' \in {<<>>, sweepCache}
    BY DEF Tick, snapshotVars
  <1>2. now \in Nat /\ now' \in Nat /\ now' <= LastTick /\ now <= now'
    BY <1>1, DaysType DEF SaverOK, ClockOK, GroupsTypeOK
  <1>3. Today \in Nat /\ Today' \in Nat /\ Today <= Today'
    BY <1>2, DayType DEF Today
  <1>4. \A x : SnapshotBy(x, now) => SnapshotBy(x, now')
    BY <1>2 DEF SnapshotBy, Snapshot
  <1>5. ClockOK'
    BY <1>1, <1>2 DEF SaverOK, ClockOK, GroupsTypeOK
  <1>6. Days \subseteq Int
    BY DaysType
  <1>7. DocumentsOK'
    <2>1. ASSUME NEW g \in Groups, NEW d \in Days
          PROVE  /\ snapshots[g][d] # None =>
                      SnapshotBy(snapshots[g][d], now') /\ d <= Today'
                 /\ analytics[g][d] # None => analytics[g][d] \in Analytics /\ d <= Today'
      <3>1. d \in Int
        BY <1>6
      <3>2. QED
        BY <1>3, <1>4, <3>1 DEF SaverOK, DocumentsOK
    <2>2. QED
      BY <1>1, <2>1 DEF SaverOK, DocumentsOK
  <1>8. SavesOK'
    <2>1. ASSUME NEW s \in Savers PROVE SaveOK(saves[s])'
      <3>1. SaveOK(saves[s]) /\ saves'[s] = saves[s]
        BY <1>1 DEF SaverOK, SavesOK
      <3>2. saves[s].step # "idle" => saves[s].day \in Int
        BY <1>6, <3>1 DEF SaveOK
      <3>3. QED
        BY <1>3, <1>4, <3>1, <3>2 DEF SaveOK
    <2>2. QED
      BY <1>1, <2>1 DEF SaverOK, SavesOK
  <1>9. SweepOK'
    BY <1>1 DEF SweepOK
  <1>10. QED
    BY <1>1, <1>5, <1>7, <1>8, <1>9 DEF SaverOK

LEMMA LoseEntryOK ==
    ASSUME SaverOK, SweepOK, LoseEntry
    PROVE  SaverOK' /\ SweepOK'
           /\ UNCHANGED <<now, snapshots, analytics, saves, disturbed, cut>>
  <1>1. SaverOK' /\ UNCHANGED <<now, snapshots, analytics, saves, disturbed, cut>>
    BY SaverKept DEF LoseEntry, snapshotVars
  <1>2. PICK key \in DOMAIN sweepCache : sweepCache' = Without(sweepCache, key)
    BY DEF LoseEntry
  <1>3. \A k \in DOMAIN sweepCache' : k \in DOMAIN sweepCache /\ sweepCache'[k] = sweepCache[k]
    BY <1>2 DEF Without
  <1>4. SweepOK'
    BY <1>3 DEF LoseEntry, SweepOK
  <1>5. QED
    BY <1>1, <1>4

LEMMA CrashSweepOK ==
    ASSUME SaverOK, SweepOK, CrashSweep
    PROVE  /\ SaverOK' /\ SweepOK' /\ UNCHANGED <<now, snapshots, analytics, cut>>
           /\ disturbed \subseteq disturbed' /\ Over(Sweeper)
           /\ \A t \in Savers \ {Sweeper} : saves'[t] = saves[t]
  <1>1. Sweeper \in Savers
    BY DEF Savers
  <1>2. QED
    BY <1>1, CrashDoes, NoSweepOK DEF CrashSweep, GiveUp

LEMMA CrashWorkerOK ==
    ASSUME SaverOK, NEW w \in Workers, CrashWorker(w)
    PROVE  /\ SaverOK' /\ UNCHANGED <<now, snapshots, analytics, cut>>
           /\ disturbed \subseteq disturbed' /\ Over(w)
           /\ \A t \in Savers \ {w} : saves'[t] = saves[t]
  <1>1. w \in Savers
    BY DEF Savers
  <1>2. QED
    BY <1>1, CrashDoes DEF CrashWorker

LEMMA SweepKept ==
    ASSUME SweepOK, UNCHANGED sweepVars PROVE SweepOK'
  BY DEF SweepOK, sweepVars

LEMMA StartsOK == Init => SaverOK /\ SweepOK
  <1> SUFFICES ASSUME Init PROVE SaverOK /\ SweepOK
    OBVIOUS
  <1>1. ClockOK
    BY WalletGroupsAssumption, DaysType DEF Init, GroupsInit, ClockOK, GroupsTypeOK
  <1>2. DocumentsOK
    BY DEF Init, SnapshotsInit, DocumentsOK
  <1>3. SavesOK
    <2>1. Sweeper \in Savers /\ NoSave.step = "idle"
      BY DEF Savers, NoSave
    <2>2. QED
      BY <2>1, NoSaveOK DEF Init, SnapshotsInit, SavesOK
  <1>4. SweepOK
    BY DEF Init, SweepInit, NoSweep, SweepOK, SweepFields, SweepSteps
  <1>5. QED
    BY <1>1, <1>2, <1>3, <1>4 DEF SaverOK

LEMMA SaveStaysOK ==
    ASSUME SaverOK, NEW s \in Savers, SaveDailySnapshot(s)
    PROVE  SaverOK'
  BY UpsertSnapshotDoes, ReadPreviousDoes, ReadFirstDoes, ReadTotalsDoes, UpsertAnalyticsDoes
     DEF SaveDailySnapshot

LEMMA StaysOK == SaverOK /\ SweepOK /\ [Next]_vars => SaverOK' /\ SweepOK'
  <1> SUFFICES ASSUME SaverOK, SweepOK, [Next]_vars PROVE SaverOK' /\ SweepOK'
    OBVIOUS
  <1>1. ASSUME NEW w \in Workers, SaverStep(w) PROVE SaverOK' /\ SweepOK'
    <2>1. w \in Savers
      BY DEF Savers
    <2>2. SaverOK'
      BY <1>1, <2>1, CompleteJobDoes, SaveStaysOK, InsertSyncDoes, MarkSyncedDoes, CrashWorkerOK
         DEF SaverStep, WorkerStep
    <2>3. QED
      BY <1>1, <2>2, SweepKept DEF SaverStep
  <1>2. CASE SweepSave
    <2>1. Sweeper \in Savers
      BY DEF Savers
    <2>2. QED
      BY <1>2, <2>1, SaveStaysOK, SweepKept DEF SweepSave
  <1>3. CASE SweepStep
    BY <1>2, <1>3, FindLackingOK, BackfillOK, ListAllOK, FindMissingOK, ProcessPairOK,
       SaveGroupOK, StartRetentionOK, DeleteOldSnapshotsOK, DeleteOldAnalyticsOK,
       DeleteOldSyncsOK DEF SweepStep
  <1>4. CASE UNCHANGED vars
    BY <1>4, SaverKept, SweepKept DEF vars, snapshotVars
  <1>5. QED
    BY <1>1, <1>3, <1>4, TickOK, LoseEntryOK, CrashSweepOK DEF Next

\* Every state holds what the code keeps: one document per group and day,
\* dated to a day that has begun, an integer for every total, and the local
\* state of each save and of the snapshot job.
THEOREM PortfolioTypeOK == Spec => []TypeOK
  <1>1. SaverOK /\ SweepOK => TypeOK
    <2> SUFFICES ASSUME SaverOK, SweepOK PROVE TypeOK
      OBVIOUS
    <2>1. GroupsTypeOK /\ now \in Nat
      BY TodayType DEF SaverOK, ClockOK
    <2>2. ASSUME NEW g \in Groups, NEW d \in Days
          PROVE  /\ snapshots[g][d] = None \/ snapshots[g][d].createdAt \in 0..now
                 /\ analytics[g][d] = None \/ analytics[g][d].total \in Int
      <3>1. analytics[g][d] # None => analytics[g][d].total \in Int
        <4>1. \A a \in Analytics : a.total \in Int
          BY DEF Analytics
        <4>2. QED
          BY <4>1 DEF SaverOK, DocumentsOK
      <3>2. QED
        BY <2>1, <3>1 DEF SaverOK, DocumentsOK, SnapshotBy, Snapshot
    <2>3. ASSUME NEW s \in Savers
          PROVE  saves[s].step \in SaveSteps
                 /\ (saves[s].step # "idle" => saves[s].group \in Groups)
      BY DEF SaverOK, SavesOK, SaveOK
    <2>4. \A g \in Groups : syncs[g] \in Seq([day : Days, syncedAt : Nat, total : Int])
      BY DEF SaverOK, DocumentsOK, Sync
    <2>5. sweep.step \in SweepSteps /\ sweep.missing \subseteq DOMAIN sweep.listed
          /\ DOMAIN sweepCache \subseteq [day : Days, pair : Pair]
      BY DEF SweepOK
    <2>6. QED
      BY <2>1, <2>2, <2>3, <2>4, <2>5 DEF TypeOK
  <1>2. QED
    BY <1>1, StartsOK, StaysOK, PTL DEF Spec

----------------------------------------------------------------------------
(* The inductive invariant of the days.  Its parts speak of the undisturbed *)
(* days only: there every step of a save happens on the day itself, one    *)
(* save at a time.                                                         *)

Undisturbed(g, d) == <<g, d>> \notin disturbed

SaveOf(s, g, d) == InFlight(s) /\ saves[s].group = g /\ saves[s].day = d

AtStep(s, g, d, steps) ==
    saves[s].step \in steps /\ saves[s].group = g /\ saves[s].day = d

Saved(s, g, d) == AtStep(s, g, d, {"previous", "first", "totals", "analytics"})
HasPrevious(s, g, d) == AtStep(s, g, d, {"first", "totals", "analytics"})
HasFirst(s, g, d) == AtStep(s, g, d, {"totals", "analytics"})

AllUndisturbed(g) == \A d \in DaysWithSnapshot(g) : Undisturbed(g, d)

\* An undisturbed day has one save in flight at most.
Alone ==
    \A s, t \in Savers, g \in Groups, d \in Days :
        s # t /\ SaveOf(s, g, d) /\ SaveOf(t, g, d) => <<g, d>> \in disturbed

\* Until retention cuts, nothing is derived of a day without a snapshot.
Backed ==
    ~cut => \A g \in Groups, d \in Days :
        analytics[g][d] # None \/ (\E s \in Savers : Saved(s, g, d)) =>
            snapshots[g][d] # None

\* What is in the collection is what the save has written.
OwnSnapshot ==
    \A s \in Savers, g \in Groups, d \in Days :
        Saved(s, g, d) /\ Undisturbed(g, d) /\ snapshots[g][d] # None =>
            snapshots[g][d] = saves[s].snapshot

\* The day before has not changed since the save has read it.
RightPrevious ==
    \A s \in Savers, g \in Groups, d \in Days :
        HasPrevious(s, g, d) /\ Undisturbed(g, d) =>
            /\ d > 0 /\ Undisturbed(g, d - 1) /\ analytics[g][d - 1] # None =>
                 saves[s].previous = analytics[g][d - 1]
            /\ ~cut /\ (d = 0 \/ snapshots[g][d - 1] = None) => saves[s].previous = None

\* Nor has the first snapshot.
RightFirst ==
    \A s \in Savers, g \in Groups, d \in Days :
        HasFirst(s, g, d) /\ ~cut /\ AllUndisturbed(g) =>
            saves[s].first = GetFirstSnapshot(g)

\* The analytics of a day follow from those of the day before, and from the
\* day's snapshot and the first one when no save has a part of them to write.
Marked(g, d) ==
    /\ analytics[g][d].highWaterMark >= analytics[g][d].total
    /\ d > 0 /\ Undisturbed(g, d - 1) /\ analytics[g][d - 1] # None =>
         /\ analytics[g][d].highWaterMark >= analytics[g][d - 1].highWaterMark
         /\ analytics[g][d].dailyPnl = analytics[g][d].total - analytics[g][d - 1].total
    /\ ~cut /\ (d = 0 \/ snapshots[g][d - 1] = None) => analytics[g][d].dailyPnl = 0

Agreed(g, d) ==
    ~(\E s \in Savers : Saved(s, g, d)) =>
        /\ snapshots[g][d] # None => analytics[g][d].total = snapshots[g][d].total
        /\ ~cut /\ AllUndisturbed(g) =>
             analytics[g][d].cumulativePnl =
                analytics[g][d].total - GetFirstSnapshot(g).total

Chained ==
    \A g \in Groups, d \in Days :
        analytics[g][d] # None /\ Undisturbed(g, d) => Marked(g, d) /\ Agreed(g, d)

DaysInv == Alone /\ Backed /\ OwnSnapshot /\ RightPrevious /\ RightFirst /\ Chained

----------------------------------------------------------------------------
(* Steps that write nothing.                                               *)

\* A save begins; one of a day that has another in flight disturbs it.
Begun(s) ==
    /\ ~InFlight(s) /\ saves'[s].step = "upsert"
    /\ \A t \in Savers \ {s} : saves'[t] = saves[t]
    /\ Saving(saves'[s].group, saves'[s].day) =>
         <<saves'[s].group, saves'[s].day>> \in disturbed'

\* Saves only begin and end, and a save that has not come to its end
\* disturbs its day.
Calm ==
    /\ Shrunk /\ disturbed \subseteq disturbed'
    /\ \A s \in Savers : saves'[s] = saves[s] \/ Over(s) \/ Begun(s)

LEMMA CalmSaves ==
    ASSUME Calm, NEW s \in Savers, NEW g, NEW d
    PROVE  /\ SaveOf(s, g, d)' => SaveOf(s, g, d) \/ Begun(s)
           /\ \A steps \in SUBSET {"previous", "first", "totals", "analytics"} :
                AtStep(s, g, d, steps)' =>
                    AtStep(s, g, d, steps) /\ saves'[s] = saves[s]
           /\ Saved(s, g, d) /\ Undisturbed(g, d)' => Saved(s, g, d)'
  <1>1. CASE saves'[s] = saves[s]
    BY <1>1 DEF SaveOf, AtStep, Saved, InFlight
  <1>2. CASE Over(s)
    BY <1>2 DEF Over, SaveOf, AtStep, Saved, InFlight, Undisturbed
  <1>3. CASE Begun(s)
    BY <1>3 DEF Begun, SaveOf, AtStep, Saved, InFlight
  <1>4. QED
    BY <1>1, <1>2, <1>3 DEF Calm

\* Without a cut no snapshot is deleted.
LEMMA CalmFirst ==
    ASSUME Calm, ~cut', NEW g \in Groups
    PROVE  /\ ~cut /\ \A d \in Days : snapshots'[g][d] = snapshots[g][d]
           /\ DaysWithSnapshot(g)' = DaysWithSnapshot(g)
           /\ AllUndisturbed(g)' => AllUndisturbed(g)
           /\ GetFirstSnapshot(g)' = GetFirstSnapshot(g)
  <1>1. ~cut /\ \A d \in Days : snapshots'[g][d] = snapshots[g][d]
    BY DEF Calm, Shrunk
  <1>2. DaysWithSnapshot(g)' = DaysWithSnapshot(g)
    BY <1>1 DEF DaysWithSnapshot
  <1>3. DaysWithSnapshot(g) \subseteq Days
    BY DEF DaysWithSnapshot
  <1>4. AllUndisturbed(g)' => AllUndisturbed(g)
    BY <1>2 DEF Calm, AllUndisturbed, Undisturbed
  <1>5. GetFirstSnapshot(g)' = GetFirstSnapshot(g)
    <2>1. CASE DaysWithSnapshot(g) = {}
      BY <1>2, <2>1 DEF GetFirstSnapshot
    <2>2. CASE DaysWithSnapshot(g) # {}
      <3>1. Min(DaysWithSnapshot(g)) \in DaysWithSnapshot(g)
        BY <1>3, <2>2, DaysType, FS_Subset, MinOfFinite
      <3>2. QED
        BY <1>1, <1>2, <1>3, <2>2, <3>1 DEF GetFirstSnapshot
    <2>3. QED
      BY <2>1, <2>2
  <1>6. QED
    BY <1>1, <1>2, <1>4, <1>5

LEMMA CalmStep == DaysInv /\ Calm => DaysInv'
  <1> SUFFICES ASSUME DaysInv, Calm PROVE DaysInv'
    OBVIOUS
  <1>0. /\ disturbed \subseteq disturbed' /\ (cut => cut')
        /\ \A g \in Groups, d \in Days :
             /\ snapshots'[g][d] = snapshots[g][d] \/ (snapshots'[g][d] = None /\ cut')
             /\ analytics'[g][d] \in {analytics[g][d], None}
    BY DEF Calm, Shrunk
  <1>1. \A g, d : Undisturbed(g, d)' => Undisturbed(g, d)
    BY <1>0 DEF Undisturbed
  <1>2. ASSUME NEW s \in Savers, NEW g, NEW d
        PROVE  /\ Saved(s, g, d)' => Saved(s, g, d) /\ saves'[s] = saves[s]
               /\ HasPrevious(s, g, d)' => HasPrevious(s, g, d) /\ saves'[s] = saves[s]
               /\ HasFirst(s, g, d)' => HasFirst(s, g, d) /\ saves'[s] = saves[s]
    BY CalmSaves DEF Saved, HasPrevious, HasFirst
  <1>3. ASSUME NEW s \in Savers, NEW t \in Savers, NEW g \in Groups, NEW d \in Days,
               s # t, SaveOf(s, g, d)', SaveOf(t, g, d)'
        PROVE  <<g, d>> \in disturbed'
    <2>1. ASSUME NEW u \in Savers, NEW v \in Savers, u # v, Begun(u),
                 SaveOf(u, g, d)', SaveOf(v, g, d)'
          PROVE  <<g, d>> \in disturbed'
      <3>1. saves'[u].group = g /\ saves'[u].day = d
        BY <2>1 DEF SaveOf
      <3>2. SaveOf(v, g, d)
        BY <2>1 DEF Begun, SaveOf, InFlight
      <3>3. QED
        BY <2>1, <3>1, <3>2 DEF Begun, Saving, SaveOf
    <2>2. CASE ~Begun(s) /\ ~Begun(t)
      BY <1>0, <1>3, <2>2, CalmSaves DEF DaysInv, Alone
    <2>3. QED
      BY <1>3, <2>1, <2>2
  <1>4. Backed'
    BY <1>0, <1>2 DEF DaysInv, Backed
  <1>5. OwnSnapshot'
    BY <1>0, <1>1, <1>2 DEF DaysInv, OwnSnapshot
  <1>6. ASSUME NEW d \in Days
        PROVE  d # 0 \/ d > 0 => d > 0 /\ d - 1 \in Days
    BY DaysType
  <1>7. ASSUME NEW s \in Savers, NEW g \in Groups, NEW d \in Days,
               HasPrevious(s, g, d)', Undisturbed(g, d)'
        PROVE  /\ d > 0 /\ Undisturbed(g, d - 1)' /\ analytics'[g][d - 1] # None =>
                    saves'[s].previous = analytics'[g][d - 1]
               /\ ~cut' /\ (d = 0 \/ snapshots'[g][d - 1] = None) =>
                    saves'[s].previous = None
    <2>1. HasPrevious(s, g, d) /\ Undisturbed(g, d) /\ saves'[s] = saves[s]
      BY <1>1, <1>2, <1>7
    <2>2. /\ d > 0 /\ Undisturbed(g, d - 1) /\ analytics[g][d - 1] # None =>
               saves[s].previous = analytics[g][d - 1]
          /\ ~cut /\ (d = 0 \/ snapshots[g][d - 1] = None) => saves[s].previous = None
      BY <2>1 DEF DaysInv, RightPrevious
    <2>3. CASE d = 0
      BY <1>0, <2>1, <2>2, <2>3
    <2>4. CASE d # 0
      <3>1. d > 0 /\ d - 1 \in Days
        BY <1>6, <2>4
      <3>2. PICK e \in Days : e = d - 1
        BY <3>1
      <3>3. QED
        BY <1>0, <1>1, <2>1, <2>2, <2>4, <3>1, <3>2
    <2>5. QED
      BY <2>3, <2>4
  <1>8. RightFirst'
    BY <1>0, <1>2, CalmFirst DEF DaysInv, RightFirst
  <1>9. ASSUME NEW g \in Groups, NEW d \in Days, analytics'[g][d] # None, Undisturbed(g, d)'
        PROVE  Marked(g, d)' /\ Agreed(g, d)'
    <2>1. analytics'[g][d] = analytics[g][d] /\ Marked(g, d) /\ Agreed(g, d)
      BY <1>0, <1>1, <1>9 DEF DaysInv, Chained
    <2>2. Marked(g, d)'
      <3>1. CASE d = 0
        BY <1>0, <2>1, <3>1 DEF Marked
      <3>2. CASE d # 0
        <4>1. d > 0 /\ d - 1 \in Days
          BY <1>6, <3>2
        <4>2. PICK e \in Days : e = d - 1
          BY <4>1
        <4>3. QED
          BY <1>0, <1>1, <2>1, <3>2, <4>1, <4>2 DEF Marked
      <3>3. QED
        BY <3>1, <3>2
    <2>3. Agreed(g, d)'
      <3>1. (\E s \in Savers : Saved(s, g, d)) => \E s \in Savers : Saved(s, g, d)'
        BY <1>9, CalmSaves
      <3>2. QED
        BY <1>0, <2>1, <3>1, CalmFirst DEF Agreed
    <2>4. QED
      BY <2>2, <2>3
  <1>10. Chained'
    BY <1>9 DEF Chained
  <1>11. QED
    BY <1>3, <1>4, <1>5, <1>7, <1>8, <1>10 DEF DaysInv, Alone, RightPrevious

----------------------------------------------------------------------------
(* The steps of a save.                                                    *)

SavedSteps == {"previous", "first", "totals", "analytics"}

LEMMA AloneKept ==
    ASSUME Alone, disturbed \subseteq disturbed',
           \A s \in Savers : \A g, d : SaveOf(s, g, d)' => SaveOf(s, g, d)
    PROVE  Alone'
  BY DEF Alone

\* A read changes nothing but what the save knows.
LEMMA ReadKeeps ==
    ASSUME DaysInv, NEW s \in Savers, disturbed \subseteq disturbed',
           UNCHANGED <<now, snapshots, analytics, cut>>,
           \A t \in Savers \ {s} : saves'[t] = saves[t],
           saves[s].step \in SavedSteps, saves'[s].step \in SavedSteps,
           saves'[s].group = saves[s].group, saves'[s].day = saves[s].day,
           saves'[s].snapshot = saves[s].snapshot
    PROVE  /\ Alone' /\ Backed' /\ OwnSnapshot' /\ Chained'
           /\ \A t \in Savers \ {s}, g \in Groups, d \in Days :
                /\ HasPrevious(t, g, d)' => HasPrevious(t, g, d)
                /\ HasFirst(t, g, d)' => HasFirst(t, g, d)
           /\ \A t \in Savers : \A g, d : Saved(t, g, d)' <=> Saved(t, g, d)
           /\ \A g, d : Undisturbed(g, d)' => Undisturbed(g, d)
           /\ \A g : /\ DaysWithSnapshot(g)' = DaysWithSnapshot(g)
                     /\ AllUndisturbed(g)' => AllUndisturbed(g)
                     /\ GetFirstSnapshot(g)' = GetFirstSnapshot(g)
  <1>1. \A t \in Savers : \A g, d : Saved(t, g, d)' <=> Saved(t, g, d)
    BY DEF Saved, AtStep, SavedSteps
  <1>2. \A g, d : Undisturbed(g, d)' => Undisturbed(g, d)
    BY DEF Undisturbed
  <1>3. \A t \in Savers : \A g, d : SaveOf(t, g, d)' => SaveOf(t, g, d)
    BY DEF SaveOf, InFlight, SavedSteps
  <1>4. Alone'
    BY <1>3, AloneKept DEF DaysInv
  <1>5. Backed'
    BY <1>1 DEF DaysInv, Backed
  <1>6. OwnSnapshot'
    <2>1. \A t \in Savers : saves'[t].snapshot = saves[t].snapshot
      OBVIOUS
    <2>2. QED
      BY <1>1, <1>2, <2>1 DEF DaysInv, OwnSnapshot
  <1>7. \A g : /\ DaysWithSnapshot(g)' = DaysWithSnapshot(g)
               /\ GetFirstSnapshot(g)' = GetFirstSnapshot(g)
    BY DEF DaysWithSnapshot, GetFirstSnapshot
  <1>8. \A g : AllUndisturbed(g)' => AllUndisturbed(g)
    BY <1>2, <1>7 DEF AllUndisturbed
  <1>9. ASSUME NEW g \in Groups, NEW d \in Days, analytics[g][d] # None, Undisturbed(g, d)'
        PROVE  Marked(g, d)' /\ Agreed(g, d)'
    <2>1. Marked(g, d) /\ Agreed(g, d)
      BY <1>2, <1>9 DEF DaysInv, Chained
    <2>2. Marked(g, d)'
      BY <1>2, <2>1 DEF Marked
    <2>3. Agreed(g, d)'
      BY <1>1, <1>7, <1>8, <2>1 DEF Agreed
    <2>4. QED
      BY <2>2, <2>3
  <1>10. Chained'
    BY <1>9 DEF Chained
  <1>11. \A t \in Savers \ {s}, g \in Groups, d \in Days :
           /\ HasPrevious(t, g, d)' => HasPrevious(t, g, d)
           /\ HasFirst(t, g, d)' => HasFirst(t, g, d)
    BY DEF HasPrevious, HasFirst, AtStep
  <1>12. QED
    BY <1>1, <1>2, <1>4, <1>5, <1>6, <1>7, <1>8, <1>10, <1>11

\* A save that has read before keeps what it knows.
LEMMA KnownKept ==
    ASSUME DaysInv, NEW s \in Savers, disturbed \subseteq disturbed',
           UNCHANGED <<snapshots, analytics, cut>>,
           NEW t \in Savers, saves'[t].previous = saves[t].previous
    PROVE  \A g \in Groups, d \in Days :
             /\ HasPrevious(t, g, d)' => HasPrevious(t, g, d)
             /\ HasPrevious(t, g, d)' /\ Undisturbed(g, d)'
             => /\ d > 0 /\ Undisturbed(g, d - 1)' /\ analytics'[g][d - 1] # None =>
                     saves'[t].previous = analytics'[g][d - 1]
                /\ ~cut' /\ (d = 0 \/ snapshots'[g][d - 1] = None) =>
                     saves'[t].previous = None
  BY DEF DaysInv, RightPrevious, Undisturbed

LEMMA ReadPreviousStep ==
    ASSUME SaverOK, DaysInv, NEW s \in Savers, ReadPrevious(s)
    PROVE  DaysInv'
  <1> DEFINE g == saves[s].group
             d == saves[s].day
  <1>1. /\ g \in Groups /\ d \in Days
        /\ disturbed \subseteq disturbed' /\ UNCHANGED <<now, snapshots, analytics, cut>>
        /\ \A t \in Savers \ {s} : saves'[t] = saves[t]
        /\ saves[s].step = "previous" /\ saves'[s].step = "first"
        /\ saves'[s].group = g /\ saves'[s].day = d
        /\ saves'[s].snapshot = saves[s].snapshot
        /\ <<g, d>> \notin disturbed' =>
                Today = d /\ saves'[s].previous = GetAnalytics(g, d - 1)
    BY ReadPreviousDoes
  <1> HIDE DEF g, d
  <1>2. /\ Alone' /\ Backed' /\ OwnSnapshot' /\ Chained'
        /\ \A t \in Savers \ {s}, h \in Groups, e \in Days :
             /\ HasPrevious(t, h, e)' => HasPrevious(t, h, e)
             /\ HasFirst(t, h, e)' => HasFirst(t, h, e)
        /\ \A h : /\ AllUndisturbed(h)' => AllUndisturbed(h)
                  /\ GetFirstSnapshot(h)' = GetFirstSnapshot(h)
    <2>1. saves[s].step \in SavedSteps /\ saves'[s].step \in SavedSteps
      BY <1>1 DEF SavedSteps
    <2>2. saves'[s].group = saves[s].group /\ saves'[s].day = saves[s].day
      BY <1>1 DEF g, d
    <2>3. QED
      BY <1>1, <2>1, <2>2, ReadKeeps
  <1>3. RightPrevious'
    <2>1. ASSUME NEW t \in Savers, NEW h \in Groups, NEW e \in Days,
                 HasPrevious(t, h, e)', Undisturbed(h, e)'
          PROVE  /\ e > 0 /\ Undisturbed(h, e - 1)' /\ analytics'[h][e - 1] # None =>
                      saves'[t].previous = analytics'[h][e - 1]
                 /\ ~cut' /\ (e = 0 \/ snapshots'[h][e - 1] = None) =>
                      saves'[t].previous = None
      <3>1. CASE t = s
        <4>1. h = g /\ e = d
          BY <1>1, <2>1, <3>1 DEF HasPrevious, AtStep
        <4>2. saves'[s].previous = GetAnalytics(h, e - 1)
          BY <1>1, <2>1, <4>1 DEF Undisturbed
        <4>3. e # 0 => e > 0 /\ e - 1 \in Days
          BY DaysType
        <4>4. e = 0 => e - 1 \notin Days
          BY DaysType
        <4>5. ~cut => \A f \in Days : snapshots[h][f] = None => analytics[h][f] = None
          BY DEF DaysInv, Backed
        <4>6. QED
          BY <1>1, <3>1, <4>2, <4>3, <4>4, <4>5 DEF GetAnalytics
      <3>2. CASE t # s
        <4>1. HasPrevious(t, h, e)' => HasPrevious(t, h, e)
          BY <1>2, <3>2
        <4>2. saves'[t].previous = saves[t].previous
          BY <1>1, <3>2
        <4>3. QED
          BY <1>1, <2>1, <4>1, <4>2, KnownKept
      <3>3. QED
        BY <3>1, <3>2
    <2>2. QED
      BY <2>1 DEF RightPrevious
  <1>4. RightFirst'
    <2>1. ASSUME NEW h, NEW e PROVE ~HasFirst(s, h, e)'
      BY <1>1 DEF HasFirst, AtStep
    <2>2. QED
      BY <1>1, <1>2, <2>1 DEF RightFirst, DaysInv
  <1>5. QED
    BY <1>2, <1>3, <1>4 DEF DaysInv

LEMMA ReadFirstStep ==
    ASSUME SaverOK, DaysInv, NEW s \in Savers, ReadFirst(s)
    PROVE  DaysInv'
  <1> DEFINE g == saves[s].group
             d == saves[s].day
  <1>1. /\ g \in Groups /\ d \in Days
        /\ disturbed \subseteq disturbed' /\ UNCHANGED <<now, snapshots, analytics, cut>>
        /\ \A t \in Savers \ {s} : saves'[t] = saves[t]
        /\ saves[s].step = "first" /\ saves'[s].step = "totals"
        /\ saves'[s].group = g /\ saves'[s].day = d
        /\ saves'[s].snapshot = saves[s].snapshot
        /\ saves'[s].previous = saves[s].previous
        /\ <<g, d>> \notin disturbed' =>
                Today = d /\ saves'[s].first = GetFirstSnapshot(g)
    BY ReadFirstDoes
  <1> HIDE DEF g, d
  <1>2. /\ Alone' /\ Backed' /\ OwnSnapshot' /\ Chained'
        /\ \A t \in Savers \ {s}, h \in Groups, e \in Days :
             /\ HasPrevious(t, h, e)' => HasPrevious(t, h, e)
             /\ HasFirst(t, h, e)' => HasFirst(t, h, e)
        /\ \A t \in Savers : \A h, e : Saved(t, h, e)' <=> Saved(t, h, e)
        /\ \A h : /\ AllUndisturbed(h)' => AllUndisturbed(h)
                  /\ GetFirstSnapshot(h)' = GetFirstSnapshot(h)
                  /\ DaysWithSnapshot(h)' = DaysWithSnapshot(h)
    <2>1. saves[s].step \in SavedSteps /\ saves'[s].step \in SavedSteps
      BY <1>1 DEF SavedSteps
    <2>2. saves'[s].group = saves[s].group /\ saves'[s].day = saves[s].day
      BY <1>1 DEF g, d
    <2>3. QED
      BY <1>1, <2>1, <2>2, ReadKeeps
  <1>3. RightPrevious'
    <2>1. \A t \in Savers, h \in Groups, e \in Days :
            HasPrevious(t, h, e)' => HasPrevious(t, h, e)
      <3>1. \A h, e : HasPrevious(s, h, e)' => HasPrevious(s, h, e)
        BY <1>1 DEF HasPrevious, AtStep, g, d
      <3>2. QED
        BY <1>2, <3>1
    <2>2. \A t \in Savers : saves'[t].previous = saves[t].previous
      BY <1>1
    <2>3. QED
      BY <1>1, <2>1, <2>2, KnownKept DEF RightPrevious
  <1>4. ASSUME NEW t \in Savers, NEW h \in Groups, NEW e \in Days,
               HasFirst(t, h, e)', ~cut', AllUndisturbed(h)'
        PROVE  saves'[t].first = GetFirstSnapshot(h)'
    <2>1. CASE t = s
      <3>1. h = g /\ e = d /\ Saved(s, g, d)
        BY <1>1, <1>4, <2>1 DEF HasFirst, AtStep, Saved, g, d
      <3>2. d \in DaysWithSnapshot(g)
        BY <1>1, <1>4, <3>1 DEF DaysInv, Backed, DaysWithSnapshot
      <3>3. <<g, d>> \notin disturbed'
        BY <1>2, <1>4, <3>1, <3>2 DEF AllUndisturbed, Undisturbed
      <3>4. QED
        BY <1>1, <1>2, <2>1, <3>1, <3>3
    <2>2. CASE t # s
      BY <1>1, <1>2, <1>4, <2>2 DEF DaysInv, RightFirst
    <2>3. QED
      BY <2>1, <2>2
  <1>5. QED
    BY <1>2, <1>3, <1>4 DEF DaysInv, RightFirst

LEMMA ReadTotalsStep ==
    ASSUME SaverOK, DaysInv, NEW s \in Savers, ReadTotals(s)
    PROVE  DaysInv'
  <1> DEFINE g == saves[s].group
             d == saves[s].day
  <1>1. /\ g \in Groups /\ d \in Days
        /\ disturbed \subseteq disturbed' /\ UNCHANGED <<now, snapshots, analytics, cut>>
        /\ \A t \in Savers \ {s} : saves'[t] = saves[t]
        /\ saves[s].step = "totals" /\ saves'[s].step = "analytics"
        /\ saves'[s].group = g /\ saves'[s].day = d
        /\ saves'[s].snapshot = saves[s].snapshot
        /\ saves'[s].previous = saves[s].previous
        /\ saves'[s].first = saves[s].first
    BY ReadTotalsDoes
  <1> HIDE DEF g, d
  <1>2. /\ Alone' /\ Backed' /\ OwnSnapshot' /\ Chained'
        /\ \A t \in Savers \ {s}, h \in Groups, e \in Days :
             /\ HasPrevious(t, h, e)' => HasPrevious(t, h, e)
             /\ HasFirst(t, h, e)' => HasFirst(t, h, e)
        /\ \A h : /\ AllUndisturbed(h)' => AllUndisturbed(h)
                  /\ GetFirstSnapshot(h)' = GetFirstSnapshot(h)
    <2>1. saves[s].step \in SavedSteps /\ saves'[s].step \in SavedSteps
      BY <1>1 DEF SavedSteps
    <2>2. saves'[s].group = saves[s].group /\ saves'[s].day = saves[s].day
      BY <1>1 DEF g, d
    <2>3. QED
      BY <1>1, <2>1, <2>2, ReadKeeps
  <1>3. \A h, e : /\ HasPrevious(s, h, e)' => HasPrevious(s, h, e)
                  /\ HasFirst(s, h, e)' => HasFirst(s, h, e)
    BY <1>1 DEF HasPrevious, HasFirst, AtStep, g, d
  <1>4. \A t \in Savers : /\ saves'[t].previous = saves[t].previous
                          /\ saves'[t].first = saves[t].first
    BY <1>1
  <1>5. RightPrevious'
    BY <1>1, <1>2, <1>3, <1>4, KnownKept DEF RightPrevious
  <1>6. RightFirst'
    BY <1>1, <1>2, <1>3, <1>4 DEF RightFirst, DaysInv
  <1>7. QED
    BY <1>2, <1>5, <1>6 DEF DaysInv

\* A snapshot that is added to a later day is not the first one.
LEMMA FirstKept ==
    ASSUME NEW g \in Groups, NEW e \in DaysWithSnapshot(g),
           \A d \in Days : \/ snapshots'[g][d] = snapshots[g][d]
                           \/ snapshots'[g][d] # None /\ e < d
    PROVE  GetFirstSnapshot(g)' = GetFirstSnapshot(g)
  <1> DEFINE old == DaysWithSnapshot(g)
             new == {d \in Days : snapshots'[g][d] # None}
  <1>1. old \subseteq Days /\ new \subseteq Days /\ Days \subseteq Int /\ IsFiniteSet(Days)
    BY DaysType DEF DaysWithSnapshot
  <1>2. e \in old /\ e \in new /\ old \subseteq new
    BY DaysType DEF DaysWithSnapshot
  <1>3. \A d \in new : d \in old \/ e < d
    BY DEF DaysWithSnapshot
  <1>4. DaysWithSnapshot(g)' = new
    BY DEF DaysWithSnapshot
  <1> HIDE DEF old, new
  <1>5. IsFiniteSet(old) /\ IsFiniteSet(new)
    BY <1>1, FS_Subset
  <1>6. Min(old) \in old /\ \A y \in old : Min(old) <= y
    BY <1>1, <1>2, <1>5, MinOfFinite
  <1>7. Min(new) \in new /\ \A y \in new : Min(new) <= y
    BY <1>1, <1>2, <1>5, MinOfFinite
  <1>8. Min(new) = Min(old)
    <2>1. PICK m \in Int, n \in Int : m = Min(old) /\ n = Min(new)
      BY <1>1, <1>6, <1>7
    <2>2. e \in Int /\ n <= e /\ n <= m /\ m <= e
      BY <1>1, <1>2, <1>6, <1>7, <2>1
    <2>3. n \in old
      BY <1>3, <1>7, <2>1, <2>2
    <2>4. m <= n
      BY <1>6, <2>1, <2>3
    <2>5. QED
      BY <2>1, <2>2, <2>4
  <1>9. snapshots'[g][Min(old)] = snapshots[g][Min(old)]
    <2>1. Min(old) \in Days /\ Min(old) <= e /\ e \in Int /\ Min(old) \in Int
      BY <1>1, <1>2, <1>6
    <2>2. QED
      BY <2>1
  <1>10. QED
    BY <1>2, <1>4, <1>8, <1>9 DEF GetFirstSnapshot, old

LEMMA UpsertSnapshotStep ==
    ASSUME SaverOK, DaysInv, NEW s \in Savers, UpsertSnapshot(s)
    PROVE  DaysInv'
  <1> DEFINE g == saves[s].group
             d == saves[s].day
             own == saves[s].snapshot
  <1>1. /\ g \in Groups /\ d \in Days
        /\ disturbed \subseteq disturbed' /\ UNCHANGED <<now, analytics, cut>>
        /\ saves[s].step = "upsert"
        /\ \A t \in Savers \ {s} : saves'[t] = saves[t]
        /\ \A h \in Groups, e \in Days : <<h, e>> # <<g, d>> =>
                snapshots'[h][e] = snapshots[h][e]
        /\ snapshots'[g][d] \in {snapshots[g][d], own}
        /\ \/ /\ saves'[s] = [saves[s] EXCEPT !.step = "previous"]
              /\ snapshots'[g][d] = own
           \/ /\ <<g, d>> \in disturbed'
              /\ saves'[s] = IF s = Sweeper THEN NoSave
                             ELSE [saves[s] EXCEPT !.step = "sync"]
        /\ <<g, d>> \notin disturbed' => Today = d
    BY UpsertSnapshotDoes
  <1>2. DOMAIN saves[s] = SaveFields /\ own # None
    BY <1>1, DailySnapshotsAssumption DEF SaverOK, SavesOK, SaveOK, SnapshotBy
  <1>3. /\ \A t \in Savers : saves[t].step # "idle" => saves[t].day <= Today
        /\ \A h \in Groups, e \in Days : analytics[h][e] # None => e <= Today
    BY DEF SaverOK, SavesOK, SaveOK, DocumentsOK
  <1>4. \A t \in Savers : \A h, e : SaveOf(t, h, e)' => SaveOf(t, h, e)
    <2>1. \A h, e : SaveOf(s, h, e)' => SaveOf(s, h, e)
      BY <1>1, <1>2 DEF SaveOf, InFlight, SaveFields, NoSave
    <2>2. QED
      BY <1>1, <2>1 DEF SaveOf, InFlight
  <1>5. /\ saves'[s].step \in {"previous", "sync", "idle"}
        /\ saves'[s].step = "previous" =>
             /\ saves'[s].group = g /\ saves'[s].day = d /\ saves'[s].snapshot = own
             /\ snapshots'[g][d] = own
        /\ saves'[s].step # "previous" => <<g, d>> \in disturbed'
    BY <1>1, <1>2 DEF SaveFields, NoSave
  <1>6. SaveOf(s, g, d)
    BY <1>1 DEF SaveOf, InFlight
  <1> HIDE DEF g, d, own
  <1>7. /\ \A h, e : ~HasPrevious(s, h, e)' /\ ~HasFirst(s, h, e)' /\ ~Saved(s, h, e)
        /\ \A h, e : Saved(s, h, e)' => h = g /\ e = d
        /\ \A t \in Savers \ {s} : \A h, e :
             /\ HasPrevious(t, h, e)' <=> HasPrevious(t, h, e)
             /\ HasFirst(t, h, e)' <=> HasFirst(t, h, e)
             /\ Saved(t, h, e)' <=> Saved(t, h, e)
    BY <1>1, <1>5 DEF HasPrevious, HasFirst, Saved, AtStep
  <1>8. \A h \in Groups, e \in Days : snapshots[h][e] # None => snapshots'[h][e] # None
    BY <1>1, <1>2
  <1>9. \A h, e : Undisturbed(h, e)' => Undisturbed(h, e)
    BY <1>1 DEF Undisturbed
  <1>10. ASSUME NEW h \in Groups, AllUndisturbed(h)' PROVE AllUndisturbed(h)
    BY <1>8, <1>9, <1>10 DEF AllUndisturbed, DaysWithSnapshot
  <1>11. ASSUME NEW h \in Groups, AllUndisturbed(h)', NEW e \in DaysWithSnapshot(h),
                e <= Today, <<h, e>> # <<g, d>>
         PROVE  GetFirstSnapshot(h)' = GetFirstSnapshot(h)
    <2>1. ASSUME NEW x \in Days
          PROVE  snapshots'[h][x] = snapshots[h][x] \/ (snapshots'[h][x] # None /\ e < x)
      <3>1. CASE <<h, x>> = <<g, d>> /\ snapshots'[h][x] # snapshots[h][x]
        <4>1. snapshots'[h][x] # None
          BY <1>1, <1>2, <3>1
        <4>2. Undisturbed(h, x)'
          BY <1>11, <4>1 DEF AllUndisturbed, DaysWithSnapshot
        <4>3. Today = x /\ e # x
          BY <1>1, <1>11, <3>1, <4>2 DEF Undisturbed
        <4>4. e \in Int /\ x \in Int
          BY DaysType DEF DaysWithSnapshot
        <4>5. QED
          BY <1>11, <4>1, <4>3, <4>4
      <3>2. QED
        BY <1>1, <3>1
    <2>2. QED
      BY <2>1, FirstKept
  <1>12. Alone'
    BY <1>1, <1>4, AloneKept DEF DaysInv
  <1>13. Backed'
    <2>1. ASSUME ~cut, NEW h \in Groups, NEW e \in Days,
                 analytics[h][e] # None \/ (\E t \in Savers : Saved(t, h, e)')
          PROVE  snapshots'[h][e] # None
      <3>1. CASE Saved(s, h, e)'
        <4>1. saves'[s].step = "previous" /\ h = g /\ e = d
          BY <1>5, <1>7, <3>1 DEF Saved, AtStep
        <4>2. QED
          BY <1>2, <1>5, <4>1
      <3>2. CASE ~Saved(s, h, e)'
        <4>1. snapshots[h][e] # None
          BY <1>7, <2>1, <3>2 DEF DaysInv, Backed
        <4>2. QED
          BY <1>8, <4>1
      <3>3. QED
        BY <3>1, <3>2
    <2>2. QED
      BY <1>1, <2>1 DEF Backed
  <1>14. OwnSnapshot'
    <2>1. ASSUME NEW t \in Savers, NEW h \in Groups, NEW e \in Days,
                 Saved(t, h, e)', Undisturbed(h, e)', snapshots'[h][e] # None
          PROVE  snapshots'[h][e] = saves'[t].snapshot
      <3>1. CASE t = s
        BY <1>5, <1>7, <2>1, <3>1 DEF Saved, AtStep
      <3>2. CASE t # s /\ <<h, e>> = <<g, d>>
        <4>1. SaveOf(t, g, d)
          BY <1>7, <2>1, <3>2 DEF Saved, AtStep, SaveOf, InFlight
        <4>2. QED
          BY <1>1, <1>6, <2>1, <3>2, <4>1 DEF DaysInv, Alone, Undisturbed
      <3>3. CASE t # s /\ <<h, e>> # <<g, d>>
        BY <1>1, <1>7, <1>9, <2>1, <3>3 DEF DaysInv, OwnSnapshot
      <3>4. QED
        BY <3>1, <3>2, <3>3
    <2>2. QED
      BY <2>1 DEF OwnSnapshot
  <1>15. RightPrevious'
    <2>1. ASSUME NEW t \in Savers, NEW h \in Groups, NEW e \in Days,
                 HasPrevious(t, h, e)', Undisturbed(h, e)'
          PROVE  /\ e > 0 /\ Undisturbed(h, e - 1)' /\ analytics'[h][e - 1] # None =>
                      saves'[t].previous = analytics'[h][e - 1]
                 /\ ~cut' /\ (e = 0 \/ snapshots'[h][e - 1] = None) =>
                      saves'[t].previous = None
      <3>1. t # s /\ HasPrevious(t, h, e) /\ saves'[t] = saves[t]
        BY <1>1, <1>7, <2>1
      <3>2. /\ e > 0 /\ Undisturbed(h, e - 1) /\ analytics[h][e - 1] # None =>
                 saves[t].previous = analytics[h][e - 1]
            /\ ~cut /\ (e = 0 \/ snapshots[h][e - 1] = None) => saves[t].previous = None
        BY <1>9, <2>1, <3>1 DEF DaysInv, RightPrevious
      <3>3. e # 0 => e - 1 \in Days
        BY DaysType
      <3>4. e # 0 /\ snapshots'[h][e - 1] = None => snapshots[h][e - 1] = None
        BY <1>8, <3>3
      <3>5. QED
        BY <1>1, <1>9, <3>1, <3>2, <3>4
    <2>2. QED
      BY <2>1 DEF RightPrevious
  <1>16. RightFirst'
    <2>1. ASSUME NEW t \in Savers, NEW h \in Groups, NEW e \in Days,
                 HasFirst(t, h, e)', ~cut', AllUndisturbed(h)'
          PROVE  saves'[t].first = GetFirstSnapshot(h)'
      <3>1. t # s /\ HasFirst(t, h, e) /\ Saved(t, h, e) /\ SaveOf(t, h, e)
            /\ saves'[t] = saves[t]
        BY <1>1, <1>7, <2>1 DEF HasFirst, Saved, AtStep, SaveOf, InFlight
      <3>2. e \in DaysWithSnapshot(h)
        BY <1>1, <2>1, <3>1 DEF DaysInv, Backed, DaysWithSnapshot
      <3>3. Undisturbed(h, e)'
        BY <1>8, <2>1, <3>2 DEF AllUndisturbed, DaysWithSnapshot
      <3>4. <<h, e>> # <<g, d>>
        BY <1>1, <1>6, <3>1, <3>3 DEF DaysInv, Alone, Undisturbed
      <3>5. e <= Today
        BY <1>3, <3>1 DEF SaveOf, InFlight
      <3>6. saves[t].first = GetFirstSnapshot(h)
        BY <1>1, <1>10, <2>1, <3>1 DEF DaysInv, RightFirst
      <3>7. QED
        BY <1>11, <2>1, <3>1, <3>2, <3>4, <3>5, <3>6
    <2>2. QED
      BY <2>1 DEF RightFirst
  <1>17. ASSUME NEW h \in Groups, NEW e \in Days, analytics[h][e] # None, Undisturbed(h, e)'
         PROVE  Marked(h, e)' /\ Agreed(h, e)'
    <2>1. Marked(h, e) /\ Agreed(h, e)
      BY <1>9, <1>17 DEF DaysInv, Chained
    <2>2. Marked(h, e)'
      <3>1. e # 0 => e - 1 \in Days
        BY DaysType
      <3>2. e # 0 /\ snapshots'[h][e - 1] = None => snapshots[h][e - 1] = None
        BY <1>8, <3>1
      <3>3. QED
        BY <1>1, <1>9, <2>1, <3>2 DEF Marked
    <2>3. Agreed(h, e)'
      <3>1. SUFFICES ASSUME ~(\E t \in Savers : Saved(t, h, e)')
                     PROVE  /\ snapshots'[h][e] # None =>
                                 analytics'[h][e].total = snapshots'[h][e].total
                            /\ ~cut' /\ AllUndisturbed(h)' =>
                                 analytics'[h][e].cumulativePnl =
                                    analytics'[h][e].total - GetFirstSnapshot(h)'.total
        BY DEF Agreed
      <3>2. <<h, e>> # <<g, d>>
        BY <1>5, <1>17, <3>1 DEF Saved, AtStep, Undisturbed
      <3>3. ~(\E t \in Savers : Saved(t, h, e))
        BY <1>7, <3>1
      <3>4. /\ snapshots[h][e] # None => analytics[h][e].total = snapshots[h][e].total
            /\ ~cut /\ AllUndisturbed(h) =>
                 analytics[h][e].cumulativePnl =
                    analytics[h][e].total - GetFirstSnapshot(h).total
        BY <2>1, <3>3 DEF Agreed
      <3>5. ~cut => e \in DaysWithSnapshot(h)
        BY <1>17 DEF DaysInv, Backed, DaysWithSnapshot
      <3>6. e <= Today
        BY <1>3, <1>17
      <3>7. QED
        BY <1>1, <1>10, <1>11, <3>2, <3>4, <3>5, <3>6
    <2>4. QED
      BY <2>2, <2>3
  <1>18. QED
    BY <1>1, <1>12, <1>13, <1>14, <1>15, <1>16, <1>17 DEF DaysInv, Chained

LEMMA UpsertAnalyticsStep ==
    ASSUME SaverOK, DaysInv, NEW s \in Savers, UpsertAnalytics(s)
    PROVE  DaysInv'
  <1>0. PICK g, d, own, a : /\ g = saves[s].group /\ d = saves[s].day
                            /\ own = saves[s].snapshot /\ a = Merged(s)
    OBVIOUS
  <1>1. /\ g \in Groups /\ d \in Days
        /\ disturbed \subseteq disturbed' /\ UNCHANGED <<now, snapshots, cut>>
        /\ saves[s].step = "analytics"
        /\ \A t \in Savers \ {s} : saves'[t] = saves[t]
        /\ saves'[s] = IF s = Sweeper THEN NoSave ELSE [saves[s] EXCEPT !.step = "sync"]
        /\ \A h \in Groups, e \in Days : <<h, e>> # <<g, d>> =>
             analytics'[h][e] = analytics[h][e]
        /\ analytics'[g][d] \in {analytics[g][d], a}
        /\ <<g, d>> \notin disturbed' => Today = d /\ analytics'[g][d] = a
    BY <1>0, UpsertAnalyticsDoes
  <1>2. DOMAIN saves[s] = SaveFields /\ SaveOK(saves[s]) /\ own \in Snapshot
    BY <1>0, <1>1 DEF SaverOK, SavesOK, SaveOK, SnapshotBy
  <1>3. /\ \A t \in Savers : saves[t].step # "idle" => saves[t].day <= Today
        /\ \A h \in Groups, e \in Days : analytics[h][e] # None => e <= Today
    BY DEF SaverOK, SavesOK, SaveOK, DocumentsOK
  <1>4. \A t \in Savers : \A h, e : SaveOf(t, h, e)' => SaveOf(t, h, e)
    <2>1. \A h, e : SaveOf(s, h, e)' => SaveOf(s, h, e)
      BY <1>0, <1>1, <1>2 DEF SaveOf, InFlight, SaveFields, NoSave
    <2>2. QED
      BY <1>1, <2>1 DEF SaveOf, InFlight
  <1>5. saves'[s].step \in {"sync", "idle"}
    BY <1>1, <1>2 DEF SaveFields, NoSave
  <1>6. HasFirst(s, g, d) /\ HasPrevious(s, g, d) /\ Saved(s, g, d)
    BY <1>0, <1>1 DEF HasFirst, HasPrevious, Saved, AtStep
  <1>7. /\ a \in Analytics /\ a.total = own.total
        /\ a.highWaterMark = HighWaterMark(own.total, saves[s].previous)
        /\ a.dailyPnl = own.total - (IF saves[s].previous = None THEN own.total
                                     ELSE saves[s].previous.total)
        /\ a.cumulativePnl = own.total - (IF saves[s].first = None THEN own.total
                                          ELSE saves[s].first.total)
    BY <1>0, <1>1, <1>2, StoredIsComputed, ComputedType DEF SaverOK, Computed, SaveOK
  <1>8. saves[s].previous # None => saves[s].previous \in Analytics
    BY <1>2 DEF SaveOK
  <1>9. \A h \in Groups, e \in Days : analytics[h][e] # None => analytics[h][e] \in Analytics
    BY DEF SaverOK, DocumentsOK
  <1>10. /\ \A h, e : ~HasPrevious(s, h, e)' /\ ~HasFirst(s, h, e)' /\ ~Saved(s, h, e)'
         /\ \A h, e : Saved(s, h, e) => h = g /\ e = d
         /\ \A t \in Savers \ {s} : \A h, e :
              /\ HasPrevious(t, h, e)' <=> HasPrevious(t, h, e)
              /\ HasFirst(t, h, e)' <=> HasFirst(t, h, e)
              /\ Saved(t, h, e)' <=> Saved(t, h, e)
    BY <1>0, <1>1, <1>5 DEF HasPrevious, HasFirst, Saved, AtStep
  <1>11. \A h, e : Undisturbed(h, e)' => Undisturbed(h, e)
    BY <1>1 DEF Undisturbed
  <1>12. \A h : /\ DaysWithSnapshot(h)' = DaysWithSnapshot(h)
                /\ GetFirstSnapshot(h)' = GetFirstSnapshot(h)
    BY <1>1 DEF DaysWithSnapshot, GetFirstSnapshot
  <1>13. \A h : AllUndisturbed(h)' => AllUndisturbed(h)
    BY <1>11, <1>12 DEF AllUndisturbed
  <1>14. Alone'
    BY <1>1, <1>4, AloneKept DEF DaysInv
  <1>15. Backed'
    <2>1. ~cut => snapshots[g][d] # None
      BY <1>1, <1>6 DEF DaysInv, Backed
    <2>2. QED
      BY <1>1, <1>10, <2>1 DEF DaysInv, Backed
  <1>16. OwnSnapshot'
    BY <1>1, <1>10, <1>11 DEF DaysInv, OwnSnapshot
  <1>17. ASSUME NEW h \in Groups, NEW e \in Days, e <= Today, e # 0, Undisturbed(h, e - 1)'
         PROVE  analytics'[h][e - 1] = analytics[h][e - 1]
    <2>1. e - 1 \in Days /\ e \in Int
      BY <1>17, DaysType
    <2>2. ~(Today = d /\ e - 1 = d)
      BY <1>17, <2>1, <1>1, DaysType
    <2>3. <<h, e - 1>> # <<g, d>>
      BY <1>1, <1>17, <2>2 DEF Undisturbed
    <2>4. QED
      BY <1>1, <2>1, <2>3
  <1>18. RightPrevious'
    <2>1. ASSUME NEW t \in Savers, NEW h \in Groups, NEW e \in Days,
                 HasPrevious(t, h, e)', Undisturbed(h, e)'
          PROVE  /\ e > 0 /\ Undisturbed(h, e - 1)' /\ analytics'[h][e - 1] # None =>
                      saves'[t].previous = analytics'[h][e - 1]
                 /\ ~cut' /\ (e = 0 \/ snapshots'[h][e - 1] = None) =>
                      saves'[t].previous = None
      <3>1. t # s /\ HasPrevious(t, h, e) /\ saves'[t] = saves[t]
        BY <1>1, <1>10, <2>1
      <3>2. /\ e > 0 /\ Undisturbed(h, e - 1) /\ analytics[h][e - 1] # None =>
                 saves[t].previous = analytics[h][e - 1]
            /\ ~cut /\ (e = 0 \/ snapshots[h][e - 1] = None) => saves[t].previous = None
        BY <1>11, <2>1, <3>1 DEF DaysInv, RightPrevious
      <3>3. e <= Today
        BY <1>3, <3>1 DEF HasPrevious, AtStep
      <3>4. e > 0 => e # 0
        BY DaysType
      <3>5. QED
        BY <1>1, <1>11, <1>17, <3>1, <3>2, <3>3, <3>4
    <2>2. QED
      BY <2>1 DEF RightPrevious
  <1>19. RightFirst'
    BY <1>1, <1>10, <1>12, <1>13 DEF DaysInv, RightFirst
  <1>20. ASSUME Undisturbed(g, d)' PROVE Marked(g, d)' /\ Agreed(g, d)'
    <2>1. /\ analytics'[g][d] = a /\ Today = d /\ Undisturbed(g, d)
      BY <1>1, <1>11, <1>20 DEF Undisturbed
    <2>2. /\ d > 0 /\ Undisturbed(g, d - 1) /\ analytics[g][d - 1] # None =>
               saves[s].previous = analytics[g][d - 1]
          /\ ~cut /\ (d = 0 \/ snapshots[g][d - 1] = None) => saves[s].previous = None
      BY <1>1, <1>6, <2>1 DEF DaysInv, RightPrevious
    <2>3. own.total \in Int
      BY <1>2 DEF Snapshot
    <2>4. /\ a.highWaterMark >= a.total
          /\ saves[s].previous # None =>
               /\ a.highWaterMark >= saves[s].previous.highWaterMark
               /\ a.dailyPnl = a.total - saves[s].previous.total
          /\ saves[s].previous = None => a.dailyPnl = 0
      BY <1>7, <1>8, <2>3 DEF Analytics, HighWaterMark, Larger
    <2>5. Marked(g, d)'
      <3>1. ASSUME d > 0, Undisturbed(g, d - 1)', analytics'[g][d - 1] # None
            PROVE  /\ a.highWaterMark >= analytics'[g][d - 1].highWaterMark
                   /\ a.dailyPnl = a.total - analytics'[g][d - 1].total
        <4>1. d # 0 /\ d <= Today
          BY <1>1, <2>1, <3>1, DaysType
        <4>2. analytics'[g][d - 1] = analytics[g][d - 1]
          BY <1>1, <1>17, <3>1, <4>1
        <4>3. saves[s].previous = analytics[g][d - 1]
          BY <1>11, <2>2, <3>1, <4>2
        <4>4. QED
          BY <2>4, <3>1, <4>2, <4>3
      <3>2. QED
        BY <1>1, <2>1, <2>2, <2>4, <3>1 DEF Marked
    <2>6. snapshots[g][d] # None => snapshots[g][d] = own
      BY <1>0, <1>1, <1>6, <2>1 DEF DaysInv, OwnSnapshot
    <2>7. ~cut => d \in DaysWithSnapshot(g)
      BY <1>1, <1>6 DEF DaysInv, Backed, DaysWithSnapshot
    <2>8. ~cut /\ AllUndisturbed(g) => saves[s].first = GetFirstSnapshot(g)
      BY <1>1, <1>6 DEF DaysInv, RightFirst
    <2>9. ~cut => GetFirstSnapshot(g) # None
      BY <1>1, <2>7, FirstSnapshotType, DailySnapshotsAssumption DEF SnapshotBy
    <2>10. Agreed(g, d)'
      BY <1>1, <1>7, <1>12, <1>13, <2>1, <2>6, <2>8, <2>9 DEF Agreed
    <2>11. QED
      BY <2>5, <2>10
  <1>21. ASSUME NEW h \in Groups, NEW e \in Days, analytics'[h][e] # None,
                Undisturbed(h, e)', <<h, e>> # <<g, d>>
         PROVE  Marked(h, e)' /\ Agreed(h, e)'
    <2>1. /\ analytics'[h][e] = analytics[h][e] /\ Marked(h, e) /\ Agreed(h, e)
      BY <1>1, <1>11, <1>21 DEF DaysInv, Chained
    <2>2. e <= Today /\ (e > 0 => e # 0)
      BY <1>3, <1>21, <2>1, DaysType
    <2>3. Marked(h, e)'
      BY <1>1, <1>11, <1>17, <2>1, <2>2 DEF Marked
    <2>4. Agreed(h, e)'
      BY <1>1, <1>10, <1>12, <1>13, <1>21, <2>1 DEF Agreed
    <2>5. QED
      BY <2>3, <2>4
  <1>22. Chained'
    BY <1>1, <1>20, <1>21 DEF Chained
  <1>23. QED
    BY <1>14, <1>15, <1>16, <1>18, <1>19, <1>22 DEF DaysInv

----------------------------------------------------------------------------
(* The theorems of the days.                                               *)

LEMMA SaveStepKeepsDays ==
    ASSUME SaverOK, DaysInv, NEW s \in Savers, SaveDailySnapshot(s)
    PROVE  DaysInv'
  BY UpsertSnapshotStep, ReadPreviousStep, ReadFirstStep, ReadTotalsStep, UpsertAnalyticsStep
     DEF SaveDailySnapshot

\* A step that writes no document and changes one save at most is calm.
LEMMA OneSaveCalm ==
    ASSUME NEW s \in Savers, UNCHANGED <<snapshots, analytics, cut>>,
           disturbed \subseteq disturbed', \A t \in Savers \ {s} : saves'[t] = saves[t],
           saves'[s] = saves[s] \/ Over(s) \/ Begun(s)
    PROVE  Calm
  BY DEF Calm, Shrunk

LEMMA DaysStart == Init => DaysInv
  <1> SUFFICES ASSUME Init PROVE DaysInv
    OBVIOUS
  <1>1. /\ \A g \in Groups, d \in Days : snapshots[g][d] = None /\ analytics[g][d] = None
        /\ \A s \in Savers : saves[s].step = "idle"
    BY DEF Init, SnapshotsInit, NoSave
  <1>2. \A s \in Savers : \A g, d : /\ ~SaveOf(s, g, d) /\ ~Saved(s, g, d)
                                /\ ~HasPrevious(s, g, d) /\ ~HasFirst(s, g, d)
    BY <1>1 DEF SaveOf, InFlight, Saved, HasPrevious, HasFirst, AtStep
  <1>3. QED
    BY <1>1, <1>2 DEF DaysInv, Alone, Backed, OwnSnapshot, RightPrevious, RightFirst, Chained

LEMMA DaysStay == SaverOK /\ SweepOK /\ DaysInv /\ [Next]_vars => DaysInv'
  <1> SUFFICES ASSUME SaverOK, SweepOK, DaysInv, [Next]_vars PROVE DaysInv'
    OBVIOUS
  <1>1. ASSUME UNCHANGED <<snapshots, analytics, saves, disturbed, cut>> PROVE DaysInv'
    BY <1>1, CalmStep DEF Calm, Shrunk
  <1>2. Sweeper \in Savers
    BY DEF Savers
  <1>3. ASSUME NEW w \in Workers, SaverStep(w) PROVE DaysInv'
    <2>1. w \in Savers
      BY DEF Savers
    <2>2. ASSUME NEW g \in Groups, CompleteJob(w, g) PROVE DaysInv'
      <3>1. /\ disturbed \subseteq disturbed' /\ UNCHANGED <<snapshots, analytics, cut>>
            /\ \A t \in Savers \ {w} : saves'[t] = saves[t]
            /\ saves[w].step = "idle"
            /\ saves'[w].step = "upsert" /\ saves'[w].group = g /\ saves'[w].day = Today
            /\ Saving(g, Today) => <<g, Today>> \in disturbed'
        BY <2>2, CompleteJobDoes
      <3>2. Begun(w)
        BY <3>1 DEF Begun, InFlight
      <3>3. QED
        BY <2>1, <3>1, <3>2, OneSaveCalm, CalmStep
    <2>3. CASE InsertSync(w) \/ MarkSynced(w) \/ CrashWorker(w)
      <3>1. /\ disturbed \subseteq disturbed' /\ UNCHANGED <<snapshots, analytics, cut>>
            /\ \A t \in Savers \ {w} : saves'[t] = saves[t]
            /\ Over(w)
        BY <2>3, InsertSyncDoes, MarkSyncedDoes, CrashWorkerOK
      <3>2. QED
        BY <2>1, <3>1, OneSaveCalm, CalmStep
    <2>4. QED
      BY <1>3, <2>1, <2>2, <2>3, SaveStepKeepsDays DEF SaverStep, WorkerStep
  <1>4. ASSUME NEW g \in Groups, SaveGroup(g) PROVE DaysInv'
    <2>1. /\ disturbed \subseteq disturbed' /\ UNCHANGED <<snapshots, analytics, cut>>
          /\ saves[Sweeper].step = "idle"
          /\ \/ UNCHANGED <<saves, disturbed>>
             \/ /\ \A t \in Savers \ {Sweeper} : saves'[t] = saves[t]
                /\ saves'[Sweeper].step = "upsert" /\ saves'[Sweeper].group = g
                /\ saves'[Sweeper].day = Today
                /\ Saving(g, Today) => <<g, Today>> \in disturbed'
      BY <1>4, SaveGroupOK
    <2>2. UNCHANGED saves \/ Begun(Sweeper)
      BY <2>1 DEF Begun, InFlight
    <2>3. \A t \in Savers \ {Sweeper} : saves'[t] = saves[t]
      BY <2>1
    <2>4. QED
      BY <1>2, <2>1, <2>2, <2>3, OneSaveCalm, CalmStep
  <1>5. CASE DeleteOldSnapshots \/ DeleteOldAnalytics
    BY <1>5, DeleteOldSnapshotsOK, DeleteOldAnalyticsOK, CalmStep DEF Calm
  <1>6. CASE CrashSweep
    BY <1>2, <1>6, CrashSweepOK, OneSaveCalm, CalmStep
  <1>7. CASE SweepSave
    BY <1>2, <1>7, SaveStepKeepsDays DEF SweepSave
  <1>8. CASE SweepStep
    <2>1. ASSUME NEW g \in Groups, Backfill(g) PROVE DaysInv'
      BY <1>1, <2>1, BackfillOK
    <2>2. CASE FindLacking \/ ListAll \/ FindMissing \/ StartRetention
               \/ \E pair \in Pair : ProcessPair(pair)
      BY <1>1, <2>2 DEF FindLacking, ListAll, FindMissing, StartRetention, ProcessPair,
                        snapshotVars
    <2>3. CASE DeleteOldSyncs
      BY <1>1, <2>3, DeleteOldSyncsOK
    <2>4. QED
      BY <1>4, <1>5, <1>7, <1>8, <2>1, <2>2, <2>3 DEF SweepStep
  <1>9. CASE Tick \/ LoseEntry
    BY <1>1, <1>9, TickOK, LoseEntryOK
  <1>10. CASE UNCHANGED vars
    BY <1>1, <1>10 DEF vars, snapshotVars
  <1>11. QED
    BY <1>3, <1>6, <1>8, <1>9, <1>10 DEF Next

LEMMA DaysAlways == Spec => [](SaverOK /\ SweepOK /\ DaysInv)
  BY StartsOK, StaysOK, DaysStart, DaysStay, PTL DEF Spec

\* The latest day and what the summary takes from it.
LEMMA LatestDay ==
    ASSUME SaverOK, NEW g \in Groups, DaysWithAnalytics(g) # {}
    PROVE  LET latest == Max(DaysWithAnalytics(g))
           IN  /\ latest \in DaysWithAnalytics(g) /\ latest \in Nat
               /\ \A d \in DaysWithAnalytics(g) : d \in Nat /\ d <= latest
               /\ UnbrokenRun(g) =
                    {d \in DaysWithAnalytics(g) :
                        \A x \in d..latest : x \in DaysWithAnalytics(g) /\ Settled(g, x)}
               /\ AnalyticsSummary(g).highWaterMark = analytics[g][latest].highWaterMark
               /\ AnalyticsSummary(g).totalPnl = analytics[g][latest].cumulativePnl
  <1> DEFINE days == DaysWithAnalytics(g)
             latest == Max(days)
  <1>1. days \subseteq Days /\ Days \subseteq Nat /\ IsFiniteSet(Days)
    BY DaysType DEF DaysWithAnalytics
  <1>2. /\ UnbrokenRun(g) =
             {d \in days : \A x \in d..latest : x \in days /\ Settled(g, x)}
        /\ AnalyticsSummary(g).highWaterMark = analytics[g][latest].highWaterMark
        /\ AnalyticsSummary(g).totalPnl = analytics[g][latest].cumulativePnl
    BY DEF UnbrokenRun, AnalyticsSummary
  <1>3. Max(days) \in days /\ \A y \in days : Max(days) >= y
    <2>1. days # {}
      OBVIOUS
    <2> HIDE DEF days
    <2>2. IsFiniteSet(days)
      BY <1>1, FS_Subset
    <2>3. days \subseteq Int
      BY <1>1
    <2>4. QED
      BY <2>1, <2>2, <2>3, MaxOfFinite
  <1>4. QED
    BY <1>1, <1>2, <1>3

\* The mark of every day of the run is no lower than the totals before it.
LEMMA MarksRise ==
    ASSUME SaverOK, DaysInv, NEW g \in Groups, NEW first \in Nat, NEW latest \in Nat,
           \A x \in first..latest : x \in DaysWithAnalytics(g) /\ Undisturbed(g, x)
    PROVE  \A x \in first..latest : analytics[g][x].highWaterMark >= analytics[g][first].total
  <1> DEFINE Lower == {x \in first..latest :
                         ~(analytics[g][x].highWaterMark >= analytics[g][first].total)}
  <1>1. \A x \in first..latest :
          /\ x \in Days /\ analytics[g][x] # None /\ analytics[g][x] \in Analytics
          /\ Marked(g, x)
    BY DEF DaysWithAnalytics, DaysInv, Chained, SaverOK, DocumentsOK
  <1>2. SUFFICES ASSUME Lower # {} PROVE FALSE
    OBVIOUS
  <1>3. PICK x \in Lower : \A y \in Lower : x <= y
    <2>1. Lower \subseteq Nat
      OBVIOUS
    <2> HIDE DEF Lower
    <2>2. QED
      BY <1>2, <2>1, SmallestNumber
  <1>4. x \in first..latest /\ x \in Int
    OBVIOUS
  <1>5. x # first
    BY <1>1, <1>3, <1>4 DEF Marked, Analytics
  <1>6. x - 1 \in first..latest /\ x > 0 /\ ~(x <= x - 1)
    BY <1>4, <1>5
  <1>7. analytics[g][x - 1].highWaterMark >= analytics[g][first].total
    BY <1>3, <1>6
  <1>8. analytics[g][x].highWaterMark >= analytics[g][x - 1].highWaterMark
    BY <1>1, <1>4, <1>6 DEF Marked
  <1>9. PICK p \in Int, q \in Int, r \in Int :
          /\ p = analytics[g][x].highWaterMark /\ q = analytics[g][x - 1].highWaterMark
          /\ r = analytics[g][first].total
    <2>1. first \in first..latest
      BY <1>4
    <2>2. QED
      BY <1>1, <1>4, <1>6, <2>1 DEF Analytics
  <1>10. ~(p >= r) /\ q >= r /\ p >= q
    BY <1>3, <1>7, <1>8, <1>9
  <1>11. QED
    BY <1>9, <1>10

\* The high-water mark of the summary is no lower than the value of any day
\* of the unbroken run of settled days up to the latest one, whatever the
\* savers, the clock, retention and the faults of other days do.
THEOREM HighWaterCarriedAlways == Spec => []HighWaterCarried
  <1>1. SaverOK /\ DaysInv => HighWaterCarried
    <2> SUFFICES ASSUME SaverOK, DaysInv, NEW g \in Groups, DaysWithAnalytics(g) # {},
                        NEW d \in UnbrokenRun(g)
                 PROVE  AnalyticsSummary(g).highWaterMark >= analytics[g][d].total
      BY DEF HighWaterCarried
    <2>1. PICK latest \in Nat :
            /\ \A x \in DaysWithAnalytics(g) : x \in Nat /\ x <= latest
            /\ UnbrokenRun(g) =
                 {x \in DaysWithAnalytics(g) :
                     \A y \in x..latest : y \in DaysWithAnalytics(g) /\ Settled(g, y)}
            /\ AnalyticsSummary(g).highWaterMark = analytics[g][latest].highWaterMark
      BY LatestDay
    <2>2. /\ d \in Nat /\ d <= latest
          /\ \A y \in d..latest : y \in DaysWithAnalytics(g) /\ Undisturbed(g, y)
      BY <2>1 DEF Settled, Undisturbed
    <2>3. analytics[g][latest].highWaterMark >= analytics[g][d].total
      BY <2>2, MarksRise
    <2>4. QED
      BY <2>1, <2>3
  <1>2. QED
    BY <1>1, DaysAlways, PTL

\* Profits of consecutive days add up to the difference of their totals.
LEMMA PnlTelescopes ==
    ASSUME NEW f, NEW value, NEW first \in Nat, NEW latest \in Nat, first <= latest,
           \A x \in first..latest : value[x] \in Int,
           f[first] = 0, \A x \in first..latest : x # first => f[x] = value[x] - value[x - 1]
    PROVE  SumFunctionOnSet(f, first..latest) = value[latest] - value[first]
  <1> DEFINE Sum(n) == SumFunctionOnSet(f, first..n)
             Wrong == {n \in first..latest : Sum(n) # value[n] - value[first]}
  <1>1. \A x \in first..latest : f[x] \in Int
    <2>1. ASSUME NEW x \in first..latest PROVE f[x] \in Int
      <3>1. CASE x = first
        BY <3>1
      <3>2. CASE x # first
        <4>1. x - 1 \in first..latest
          BY <3>2
        <4>2. f[x] = value[x] - value[x - 1] /\ value[x] \in Int /\ value[x - 1] \in Int
          BY <3>2, <4>1
        <4>3. QED
          BY <4>2
      <3>3. QED
        BY <3>1, <3>2
    <2>2. QED
      BY <2>1
  <1>2. SUFFICES ASSUME Wrong # {} PROVE FALSE
    <2>1. latest \in first..latest
      OBVIOUS
    <2>2. QED
      BY <2>1
  <1>3. PICK n \in Wrong : \A m \in Wrong : n <= m
    <2>1. Wrong \subseteq Nat
      OBVIOUS
    <2> HIDE DEF Wrong
    <2>2. QED
      BY <1>2, <2>1, SmallestNumber
  <1>4. n \in first..latest /\ n \in Int /\ Sum(n) # value[n] - value[first]
    OBVIOUS
  <1>5. CASE n = first
    <2>1. PICK S : S = first..n
      OBVIOUS
    <2>2. first \in S /\ S \ {first} = {} /\ \A x \in S : f[x] \in Int
      BY <1>1, <1>5, <2>1
    <2>3. IsFiniteSet(S)
      <3>1. first \in Int
        OBVIOUS
      <3>2. IsFiniteSet(first..first)
        BY <3>1, FS_Interval
      <3>3. QED
        BY <1>5, <2>1, <3>2
    <2>4. SumFunctionOnSet(f, S) = f[first] + SumFunctionOnSet(f, S \ {first})
      BY ONLY <2>2, <2>3, SumOfOne
    <2>5. SumFunctionOnSet(f, first..n) = 0
      <3>1. SumFunctionOnSet(f, S \ {first}) = 0
        BY ONLY <2>2, SumEmpty
      <3>2. f[first] = 0
        OBVIOUS
      <3>3. SumFunctionOnSet(f, S) = 0
        BY ONLY <2>4, <3>1, <3>2
      <3>4. QED
        BY <2>1, <3>3
    <2>6. QED
      <3>1. value[first] \in Int
        BY <1>4, <1>5
      <3>2. QED
        BY <1>4, <1>5, <2>5, <3>1
  <1>6. CASE n # first
    <2>1. /\ n - 1 \in first..latest /\ ~(n <= n - 1)
          /\ first..n = (first..(n - 1)) \cup {n} /\ n \notin first..(n - 1)
          /\ n - 1 \in Int
      BY <1>4, <1>6
    <2>2. Sum(n - 1) = value[n - 1] - value[first]
      BY <1>3, <2>1
    <2>3. IsFiniteSet(first..(n - 1))
      BY <2>1, FS_Interval
    <2>4. \A x \in (first..(n - 1)) \cup {n} : f[x] \in Int
      BY <1>1, <1>4, <2>1
    <2>5. SumFunctionOnSet(f, (first..(n - 1)) \cup {n}) = Sum(n - 1) + f[n]
      <3>1. PICK S : S = first..(n - 1)
        OBVIOUS
      <3>2. IsFiniteSet(S) /\ n \notin S /\ \A x \in S \cup {n} : f[x] \in Int
        BY <2>1, <2>3, <2>4, <3>1
      <3>3. SumFunctionOnSet(f, S \cup {n}) = SumFunctionOnSet(f, S) + f[n]
        BY ONLY <3>2, SumOfAdded
      <3>4. QED
        BY <3>1, <3>3
    <2>6. f[n] = value[n] - value[n - 1]
      BY <1>4, <1>6
    <2>7. value[n] \in Int /\ value[n - 1] \in Int /\ value[first] \in Int
      BY <1>4, <2>1
    <2>8. Sum(n) = Sum(n - 1) + f[n]
      BY <2>1, <2>5
    <2> HIDE DEF Sum
    <2>9. QED
      BY <1>4, <2>2, <2>6, <2>7, <2>8
  <1>7. QED
    BY <1>5, <1>6

\* The days with a snapshot are all the days of the run, up to the latest.
LEMMA RunOfSnapshots ==
    ASSUME SaverOK, DaysInv, NEW g \in Groups, DaysWithAnalytics(g) # {}, ~cut,
           DaysWithSnapshot(g) = UnbrokenRun(g)
    PROVE  \E first \in Nat, latest \in Nat :
             /\ first <= latest /\ DaysWithSnapshot(g) = first..latest
             /\ AnalyticsSummary(g).totalPnl = analytics[g][latest].cumulativePnl
             /\ GetFirstSnapshot(g) = snapshots[g][first]
             /\ \A x \in first..latest :
                  x \in Days /\ analytics[g][x] # None /\ Settled(g, x) /\ snapshots[g][x] # None
  <1>1. PICK latest \in Nat :
          /\ latest \in DaysWithAnalytics(g)
          /\ \A x \in DaysWithAnalytics(g) : x \in Nat /\ x <= latest
          /\ UnbrokenRun(g) =
               {x \in DaysWithAnalytics(g) :
                   \A y \in x..latest : y \in DaysWithAnalytics(g) /\ Settled(g, y)}
          /\ AnalyticsSummary(g).totalPnl = analytics[g][latest].cumulativePnl
    BY LatestDay
  <1>2. DaysWithSnapshot(g) # {}
    BY <1>1 DEF DaysInv, Backed, DaysWithAnalytics, DaysWithSnapshot
  <1>3. PICK first :
          /\ first \in DaysWithSnapshot(g) /\ \A x \in DaysWithSnapshot(g) : first <= x
          /\ GetFirstSnapshot(g) = snapshots[g][first]
    BY <1>2, FirstSnapshotType
  <1>4. /\ first \in Nat /\ first <= latest
        /\ \A y \in first..latest : y \in DaysWithAnalytics(g) /\ Settled(g, y)
    BY <1>1, <1>3
  <1>5. first..latest \subseteq DaysWithSnapshot(g)
    <2>1. ASSUME NEW x \in first..latest PROVE x \in UnbrokenRun(g)
      <3>1. x \in DaysWithAnalytics(g) /\ x..latest \subseteq first..latest
        BY <1>4
      <3>2. QED
        BY <1>1, <1>4, <3>1
    <2>2. QED
      BY <2>1
  <1>6. DaysWithSnapshot(g) \subseteq first..latest
    <2>1. ASSUME NEW x \in DaysWithSnapshot(g) PROVE x \in Nat /\ first <= x /\ x <= latest
      BY <1>1, <1>3
    <2>2. QED
      BY <1>4, <2>1
  <1>7. \A x \in first..latest : x \in Days /\ analytics[g][x] # None /\ snapshots[g][x] # None
    BY <1>4, <1>5 DEF DaysWithAnalytics, DaysWithSnapshot
  <1>8. QED
    BY <1>1, <1>3, <1>4, <1>5, <1>6, <1>7

\* The total profit of the summary is the sum of the daily ones that the
\* history reports, when every day since the first snapshot has one, all
\* settled, and retention has not cut the first off.
THEOREM PnlAddsUpAlways == Spec => []PnlAddsUp
  <1>1. SaverOK /\ DaysInv => PnlAddsUp
    <2> SUFFICES ASSUME SaverOK, DaysInv, NEW g \in Groups, DaysWithAnalytics(g) # {}, ~cut,
                        DaysWithSnapshot(g) = UnbrokenRun(g)
                 PROVE  LET points == History(g, 0, LastDay)
                        IN  AnalyticsSummary(g).totalPnl =
                              SumFunction([d \in DOMAIN points |-> points[d].dailyPnl])
      BY DEF PnlAddsUp
    <2>1. PICK first \in Nat, latest \in Nat :
            /\ first <= latest /\ DaysWithSnapshot(g) = first..latest
            /\ AnalyticsSummary(g).totalPnl = analytics[g][latest].cumulativePnl
            /\ GetFirstSnapshot(g) = snapshots[g][first]
            /\ \A x \in first..latest :
                 x \in Days /\ analytics[g][x] # None /\ Settled(g, x) /\ snapshots[g][x] # None
      BY RunOfSnapshots
    <2> DEFINE points == History(g, 0, LastDay)
               f == [d \in DOMAIN points |-> points[d].dailyPnl]
               value == [x \in first..latest |-> analytics[g][x].total]
    <2>2. first \in first..latest /\ latest \in first..latest
      BY <2>1
    <2>3. {x \in DaysWithSnapshot(g) : 0 <= x /\ x <= LastDay} = first..latest
      BY <2>1, DaysType
    <2>4. DOMAIN points = first..latest
          /\ \A x \in first..latest : points[x].dailyPnl = analytics[g][x].dailyPnl
      BY <2>1, <2>3 DEF History
    <2> HIDE DEF points
    <2>5. DOMAIN f = first..latest /\ \A x \in first..latest : f[x] = analytics[g][x].dailyPnl
      BY <2>4
    <2>6. \A x \in first..latest :
            /\ analytics[g][x] \in Analytics /\ Marked(g, x) /\ Agreed(g, x)
            /\ Undisturbed(g, x)
      BY <2>1 DEF SaverOK, DocumentsOK, DaysInv, Chained, Settled, Undisturbed
    <2>7. \A x \in first..latest : value[x] \in Int
      BY <2>6 DEF Analytics
    <2>8. f[first] = 0
      <3>1. first = 0 \/ snapshots[g][first - 1] = None
        <4>1. first # 0 => first - 1 \in 0..LastDay /\ first - 1 \notin first..latest
          BY <2>1, <2>2, DaysType
        <4>2. QED
          BY <2>1, <4>1, DaysType DEF DaysWithSnapshot
      <3>2. QED
        BY <2>2, <2>5, <2>6, <3>1 DEF Marked
    <2>9. ASSUME NEW x \in first..latest, x # first PROVE f[x] = value[x] - value[x - 1]
      <3>1. x \in first..latest /\ x - 1 \in first..latest /\ x > 0
        BY <2>9
      <3>2. analytics[g][x - 1] # None /\ Undisturbed(g, x - 1) /\ Marked(g, x)
        BY <2>1, <2>6, <3>1
      <3>3. analytics[g][x].dailyPnl = analytics[g][x].total - analytics[g][x - 1].total
        BY <3>1, <3>2 DEF Marked
      <3>4. QED
        BY <2>5, <3>1, <3>3
    <2>16. /\ value[latest] = analytics[g][latest].total
           /\ value[first] = analytics[g][first].total
      BY <2>2
    <2> HIDE DEF f, value
    <2>10. SumFunctionOnSet(f, first..latest) = value[latest] - value[first]
      <3>1. first \in Nat /\ latest \in Nat /\ first <= latest
        BY <2>1
      <3>2. \A x \in first..latest : x # first => f[x] = value[x] - value[x - 1]
        BY <2>9
      <3>3. QED
        BY ONLY <2>7, <2>8, <3>1, <3>2, PnlTelescopes, ZenonT(60)
    <2>11. \A x \in first..latest : ~(\E s \in Savers : Saved(s, g, x))
      BY <2>1 DEF Settled, Quiet, Saved, AtStep, InFlight
    <2>12. AllUndisturbed(g)
      BY <2>1, <2>6 DEF AllUndisturbed
    <2>13. /\ analytics[g][first].total = snapshots[g][first].total
           /\ analytics[g][latest].cumulativePnl =
                analytics[g][latest].total - snapshots[g][first].total
      BY <2>1, <2>2, <2>6, <2>11, <2>12 DEF Agreed
    <2>14. SumFunction(f) = SumFunctionOnSet(f, first..latest)
      BY <2>5 DEF SumFunction
    <2>15. AnalyticsSummary(g).totalPnl = SumFunction(f)
      BY <2>1, <2>10, <2>13, <2>14, <2>16
    <2>17. QED
      BY <2>15 DEF f, points
  <1>2. QED
    BY <1>1, DaysAlways, PTL

----------------------------------------------------------------------------
(* The sweep.                                                              *)

\* A group that is done has a snapshot since the sweep began, if the sweep
\* has found anything of it.
DoneWith(g) ==
    Found(g) # {} => \E d \in Day(sweep.begun)..Today : snapshots[g][d] # None

\* What the sweep has found is in its cache.
FoundIsCached ==
    \A p \in DOMAIN sweep.found :
        LET key == [day |-> sweep.day, pair |-> p]
        IN  key \in DOMAIN sweepCache /\ sweepCache[key] = sweep.found[p]

\* The save of the sweep is of a group that was missing, holds what was
\* found of it and is of a day since the sweep began.
SavesWhatIsFound ==
    /\ saves[Sweeper].group \in sweep.due
    /\ Found(saves[Sweeper].group) \subseteq Range(saves[Sweeper].snapshot.positions)
    /\ Day(sweep.begun) <= saves[Sweeper].day
    /\ saves[Sweeper].step # "upsert" =>
         snapshots[saves[Sweeper].group][saves[Sweeper].day] # None

\* Groups are saved only after every pair has been processed, and each one
\* that was missing is still to be saved, being saved or done.
GroupsInTurn ==
    /\ sweep.due \subseteq DOMAIN sweep.listed /\ sweep.missing \subseteq sweep.due
    /\ sweep.pairs # {} => sweep.missing = sweep.due /\ ~InFlight(Sweeper)
    /\ FoundIsCached
    /\ InFlight(Sweeper) => SavesWhatIsFound
    /\ \A g \in sweep.due :
         g \in sweep.missing \/ (InFlight(Sweeper) /\ saves[Sweeper].group = g) \/ DoneWith(g)

SweepInv ==
    /\ sweep.step # "groups" => ~InFlight(Sweeper)
    /\ faults = 0 /\ sweep.step # "idle" =>
         /\ sweep.begun \in Nat /\ sweep.begun <= now
         /\ sweep.step \in {"fill", "recent"} => DOMAIN sweep.found = {} /\ sweep.due = {}
         /\ sweep.step = "groups" => GroupsInTurn
         /\ sweep.step = "snapshots" =>
              sweep.due \subseteq Groups /\ \A g \in sweep.due : DoneWith(g)

LEMMA NoFault ==
    ASSUME SaverOK, Fault \/ UNCHANGED faults, faults' = 0
    PROVE  faults = 0 /\ UNCHANGED faults /\ ~Fault
  BY WalletGroupsAssumption DEF SaverOK, ClockOK, GroupsTypeOK, Fault

\* Snapshots that stay keep a group done.
LEMMA DoneStays ==
    ASSUME SaverOK, NEW g \in Groups, DoneWith(g), UNCHANGED sweep,
           Today \in Int, Today' \in Int, Today <= Today', Day(sweep.begun) \in Nat,
           \A d \in Days : snapshots[g][d] # None => snapshots'[g][d] # None
    PROVE  DoneWith(g)'
  <1>1. SUFFICES ASSUME Found(g)' # {}
                 PROVE  \E d \in Day(sweep'.begun)..Today' : snapshots'[g][d] # None
    BY DEF DoneWith
  <1>2. Found(g) # {} /\ sweep' = sweep
    BY <1>1 DEF Found
  <1>3. PICK d \in Day(sweep.begun)..Today : snapshots[g][d] # None
    BY <1>2 DEF DoneWith
  <1>4. d \in Day(sweep.begun)..Today'
    OBVIOUS
  <1>5. d \in Days
    <2>1. Today <= LastDay /\ d \in Int /\ 0 <= d
      BY TodayType, DaysType, <1>3 DEF SaverOK
    <2>2. QED
      BY <2>1, <1>3, DaysType
  <1>6. QED
    BY <1>2, <1>3, <1>4, <1>5

LEMMA BegunDay ==
    ASSUME SaverOK, sweep.begun \in Nat, sweep.begun <= now
    PROVE  /\ Day(sweep.begun) \in Nat /\ Today \in Nat /\ Today \in Days
           /\ Day(sweep.begun) <= Today
  <1>1. now \in Nat /\ Today \in Nat /\ Today \in Days
    BY TodayType DEF SaverOK
  <1>2. QED
    BY <1>1, DayType DEF Today

\* Whoever else saves, the sweep goes on as it was.
LEMMA SweepUndisturbed ==
    ASSUME SaverOK, SaverOK', SweepOK, SweepInv, UNCHANGED <<sweep, sweepCache>>,
           saves'[Sweeper] = saves[Sweeper], faults' = 0 => faults = 0, now <= now',
           \A g \in Groups, d \in Days : snapshots[g][d] # None => snapshots'[g][d] # None
    PROVE  SweepInv'
  <1>1. InFlight(Sweeper)' <=> InFlight(Sweeper)
    BY DEF InFlight
  <1>2. sweep'.step # "groups" => ~InFlight(Sweeper)'
    BY <1>1 DEF SweepInv
  <1>3. SUFFICES ASSUME faults' = 0, sweep.step # "idle"
                 PROVE  /\ sweep.begun \in Nat /\ sweep.begun <= now'
                        /\ sweep.step \in {"fill", "recent"} =>
                             DOMAIN sweep.found = {} /\ sweep.due = {}
                        /\ sweep.step = "groups" => GroupsInTurn'
                        /\ sweep.step = "snapshots" =>
                             sweep.due \subseteq Groups /\ \A g \in sweep.due : DoneWith(g)'
    BY <1>2 DEF SweepInv
  <1>4. /\ sweep.begun \in Nat /\ sweep.begun <= now
        /\ sweep.step \in {"fill", "recent"} => DOMAIN sweep.found = {} /\ sweep.due = {}
        /\ sweep.step = "groups" => GroupsInTurn
        /\ sweep.step = "snapshots" =>
             sweep.due \subseteq Groups /\ \A g \in sweep.due : DoneWith(g)
    BY <1>3 DEF SweepInv
  <1>5. now \in Nat /\ now' \in Nat /\ sweep.begun <= now'
    BY <1>4 DEF SaverOK, ClockOK, GroupsTypeOK
  <1>6. Today \in Int /\ Today' \in Int /\ Today <= Today' /\ Day(sweep.begun) \in Nat
    BY <1>4, <1>5, DayType DEF Today
  <1>7. \A g \in Groups : DoneWith(g) => DoneWith(g)'
    BY <1>6, DoneStays
  <1>8. CASE sweep.step = "groups"
    <2>1. /\ GroupsInTurn /\ sweep.due \subseteq Groups
      BY <1>4, <1>8 DEF GroupsInTurn, SweepOK
    <2>2. InFlight(Sweeper) => SavesWhatIsFound'
      <3>1. SUFFICES ASSUME InFlight(Sweeper) PROVE SavesWhatIsFound'
        OBVIOUS
      <3>2. /\ saves[Sweeper].group \in Groups /\ saves[Sweeper].day \in Days
        BY <3>1 DEF InFlight, SaverOK, SavesOK, SaveOK, Savers
      <3>3. SavesWhatIsFound
        BY <2>1, <3>1 DEF GroupsInTurn
      <3>4. QED
        BY <3>2, <3>3 DEF SavesWhatIsFound, Found
    <2>3. FoundIsCached'
      BY <2>1 DEF GroupsInTurn, FoundIsCached
    <2>4. GroupsInTurn'
      BY <1>1, <1>7, <2>1, <2>2, <2>3 DEF GroupsInTurn
    <2>5. QED
      BY <1>4, <1>5, <1>8, <2>4
  <1>9. CASE sweep.step # "groups"
    BY <1>4, <1>5, <1>7, <1>9
  <1>10. QED
    BY <1>8, <1>9

\* No step of a save deletes a snapshot.
LEMMA SaveKeepsSnapshots ==
    ASSUME SaverOK, NEW s \in Savers, SaveDailySnapshot(s)
    PROVE  /\ SaverOK' /\ UNCHANGED now /\ (Fault \/ UNCHANGED faults)
           /\ \A t \in Savers \ {s} : saves'[t] = saves[t]
           /\ \A g \in Groups, d \in Days :
                snapshots[g][d] # None => snapshots'[g][d] # None
  <1>1. Fault \/ UNCHANGED faults
    BY DEF SaveDailySnapshot, UpsertSnapshot, ReadPrevious, ReadFirst, ReadTotals,
           UpsertAnalytics, SaveStep
  <1>2. CASE UpsertSnapshot(s)
    <2> DEFINE g == saves[s].group
               d == saves[s].day
    <2>1. /\ SaverOK' /\ g \in Groups /\ d \in Days
          /\ disturbed \subseteq disturbed' /\ UNCHANGED <<now, analytics, cut>>
          /\ saves[s].step = "upsert"
          /\ \A t \in Savers \ {s} : saves'[t] = saves[t]
          /\ \A h \in Groups, e \in Days : <<h, e>> # <<g, d>> =>
               snapshots'[h][e] = snapshots[h][e]
          /\ snapshots'[g][d] \in {snapshots[g][d], saves[s].snapshot}
          /\ \/ /\ saves'[s] = [saves[s] EXCEPT !.step = "previous"]
                /\ snapshots'[g][d] = saves[s].snapshot
             \/ /\ Fault /\ <<g, d>> \in disturbed'
                /\ saves'[s] = IF s = Sweeper THEN NoSave
                               ELSE [saves[s] EXCEPT !.step = "sync"]
          /\ <<g, d>> \notin disturbed' => Today = d
      BY <1>2, UpsertSnapshotDoes
    <2>2. saves[s].snapshot # None
      BY <2>1, DailySnapshotsAssumption DEF SaverOK, SavesOK, SaveOK, SnapshotBy
    <2> HIDE DEF g, d
    <2>3. \A h \in Groups, e \in Days : snapshots[h][e] # None => snapshots'[h][e] # None
      BY <2>1, <2>2
    <2>4. QED
      BY <1>1, <2>1, <2>3
  <1>3. CASE ~UpsertSnapshot(s)
    BY <1>1, <1>3, ReadPreviousDoes, ReadFirstDoes, ReadTotalsDoes, UpsertAnalyticsDoes
       DEF SaveDailySnapshot
  <1>4. QED
    BY <1>2, <1>3

\* The workers change neither the save of the sweep nor delete a snapshot.
LEMMA WorkerKeepsSweep ==
    ASSUME SaverOK, SweepOK, SweepInv, NEW w \in Workers, SaverStep(w)
    PROVE  SweepInv'
  <1>1. w \in Savers /\ Sweeper \in Savers \ {w}
    BY DailySnapshotsAssumption DEF Savers
  <1>3. /\ SaverOK' /\ UNCHANGED now /\ (Fault \/ UNCHANGED faults)
        /\ saves'[Sweeper] = saves[Sweeper]
        /\ \A g \in Groups, d \in Days : snapshots[g][d] # None => snapshots'[g][d] # None
    <2>1. CASE SaveDailySnapshot(w)
      BY <1>1, <2>1, SaveKeepsSnapshots
    <2>2. ASSUME NEW g \in Groups, CompleteJob(w, g)
          PROVE  /\ SaverOK' /\ UNCHANGED <<now, faults, snapshots>>
                 /\ \A t \in Savers \ {w} : saves'[t] = saves[t]
      BY <2>2, CompleteJobDoes
    <2>3. CASE InsertSync(w) \/ MarkSynced(w) \/ CrashWorker(w)
      <3>1. /\ SaverOK' /\ UNCHANGED <<now, snapshots>>
            /\ \A t \in Savers \ {w} : saves'[t] = saves[t]
        BY <2>3, InsertSyncDoes, MarkSyncedDoes, CrashWorkerOK
      <3>2. Fault \/ UNCHANGED faults
        BY <2>3 DEF InsertSync, MarkSynced, CrashWorker
      <3>3. QED
        BY <1>1, <3>1, <3>2
    <2>4. QED
      BY <1>1, <2>1, <2>2, <2>3 DEF SaverStep, WorkerStep
  <1>4. faults' = 0 => faults = 0
    BY <1>3, NoFault
  <1>5. now <= now'
    BY <1>3 DEF SaverOK, ClockOK, GroupsTypeOK
  <1>6. UNCHANGED <<sweep, sweepCache>>
    BY DEF SaverStep, sweepVars
  <1>7. QED
    BY <1>3, <1>4, <1>5, <1>6, SweepUndisturbed

\* A step of the sweep's own save, without a fault: it goes on, holding the
\* same snapshot, or it is over, the snapshot written.
LEMMA SweepSaveGoesOn ==
    ASSUME SaverOK, SaveDailySnapshot(Sweeper), UNCHANGED faults
    PROVE  /\ saves[Sweeper].step \in {"upsert"} \cup SavedSteps
           /\ \/ saves'[Sweeper] = NoSave /\ saves[Sweeper].step # "upsert"
              \/ /\ saves'[Sweeper].step \in SavedSteps
                 /\ saves'[Sweeper].group = saves[Sweeper].group
                 /\ saves'[Sweeper].day = saves[Sweeper].day
                 /\ saves'[Sweeper].snapshot = saves[Sweeper].snapshot
                 /\ saves[Sweeper].step = "upsert" =>
                      snapshots'[saves[Sweeper].group][saves[Sweeper].day] # None
  <1>1. Sweeper \in Savers /\ ~Fault
    <2>1. faults \in Nat
      BY WalletGroupsAssumption DEF SaverOK, ClockOK, GroupsTypeOK
    <2>2. QED
      BY <2>1 DEF Savers, Fault
  <1> DEFINE g == saves[Sweeper].group
             d == saves[Sweeper].day
  <1>2. CASE UpsertSnapshot(Sweeper)
    <2>1. /\ SaverOK' /\ g \in Groups /\ d \in Days
          /\ disturbed \subseteq disturbed' /\ UNCHANGED <<now, analytics, cut>>
          /\ saves[Sweeper].step = "upsert"
          /\ \A t \in Savers \ {Sweeper} : saves'[t] = saves[t]
          /\ \A h \in Groups, e \in Days : <<h, e>> # <<g, d>> =>
               snapshots'[h][e] = snapshots[h][e]
          /\ snapshots'[g][d] \in {snapshots[g][d], saves[Sweeper].snapshot}
          /\ \/ /\ saves'[Sweeper] = [saves[Sweeper] EXCEPT !.step = "previous"]
                /\ snapshots'[g][d] = saves[Sweeper].snapshot
             \/ /\ Fault /\ <<g, d>> \in disturbed'
                /\ saves'[Sweeper] = IF Sweeper = Sweeper THEN NoSave
                               ELSE [saves[Sweeper] EXCEPT !.step = "sync"]
          /\ <<g, d>> \notin disturbed' => Today = d
      BY <1>1, <1>2, UpsertSnapshotDoes
    <2>2. /\ saves'[Sweeper] = [saves[Sweeper] EXCEPT !.step = "previous"]
          /\ snapshots'[g][d] = saves[Sweeper].snapshot
      BY <1>1, <2>1
    <2>3. /\ saves[Sweeper].snapshot # None /\ DOMAIN saves[Sweeper] = SaveFields
      BY <1>1, <2>1, DailySnapshotsAssumption DEF SaverOK, SavesOK, SaveOK, SnapshotBy
    <2>4. /\ saves'[Sweeper].step = "previous" /\ saves'[Sweeper].group = g
          /\ saves'[Sweeper].day = d /\ saves'[Sweeper].snapshot = saves[Sweeper].snapshot
      BY <2>2, <2>3 DEF SaveFields
    <2>5. QED
      BY <2>1, <2>2, <2>3, <2>4 DEF SavedSteps
  <1>3. CASE ReadPrevious(Sweeper)
    BY <1>1, <1>3, ReadPreviousDoes DEF SavedSteps
  <1>4. CASE ReadFirst(Sweeper)
    BY <1>1, <1>4, ReadFirstDoes DEF SavedSteps
  <1>5. CASE ReadTotals(Sweeper)
    BY <1>1, <1>5, ReadTotalsDoes DEF SavedSteps
  <1>6. CASE UpsertAnalytics(Sweeper)
    <2>1. /\ saves[Sweeper].step = "analytics"
          /\ saves'[Sweeper] = IF Sweeper = Sweeper THEN NoSave
                               ELSE [saves[Sweeper] EXCEPT !.step = "sync"]
      BY <1>1, <1>6, UpsertAnalyticsDoes
    <2>2. QED
      BY <2>1 DEF SavedSteps
  <1>7. QED
    BY <1>2, <1>3, <1>4, <1>5, <1>6 DEF SaveDailySnapshot

LEMMA SweepSaveStep ==
    ASSUME SaverOK, SweepOK, SweepInv, SweepSave
    PROVE  SweepInv'
  <1>1. SaveDailySnapshot(Sweeper) /\ UNCHANGED <<sweep, sweepCache>>
    BY DEF SweepSave, sweepVars
  <1>2. Sweeper \in Savers /\ InFlight(Sweeper)
    BY <1>1 DEF Savers, SaveDailySnapshot, UpsertSnapshot, ReadPrevious, ReadFirst, ReadTotals,
                UpsertAnalytics, SaveStep, InFlight
  <1>3. /\ SaverOK' /\ UNCHANGED now /\ (Fault \/ UNCHANGED faults)
        /\ \A g \in Groups, d \in Days : snapshots[g][d] # None => snapshots'[g][d] # None
    BY <1>1, <1>2, SaveKeepsSnapshots
  <1>4. sweep.step = "groups"
    BY <1>2 DEF SweepInv
  <1>5. SUFFICES ASSUME faults' = 0
                 PROVE  /\ sweep.begun \in Nat /\ sweep.begun <= now /\ GroupsInTurn'
    BY <1>1, <1>3, <1>4 DEF SweepInv
  <1>6. faults = 0 /\ UNCHANGED faults
    BY <1>3, <1>5, NoFault
  <1>7. sweep.begun \in Nat /\ sweep.begun <= now /\ GroupsInTurn
    BY <1>4, <1>6 DEF SweepInv
  <1>8. /\ Day(sweep.begun) \in Nat /\ Today \in Nat /\ Today \in Days /\ Today' = Today
    BY <1>3, <1>7, BegunDay DEF Today
  <1>9. /\ saves[Sweeper].group \in Groups /\ saves[Sweeper].day \in Days
        /\ saves[Sweeper].day <= Today
    BY <1>2 DEF InFlight, SaverOK, SavesOK, SaveOK
  <1>10. /\ saves[Sweeper].step \in {"upsert"} \cup SavedSteps
         /\ \/ saves'[Sweeper] = NoSave /\ saves[Sweeper].step # "upsert"
            \/ /\ saves'[Sweeper].step \in SavedSteps
               /\ saves'[Sweeper].group = saves[Sweeper].group
               /\ saves'[Sweeper].day = saves[Sweeper].day
               /\ saves'[Sweeper].snapshot = saves[Sweeper].snapshot
               /\ saves[Sweeper].step = "upsert" =>
                    snapshots'[saves[Sweeper].group][saves[Sweeper].day] # None
    BY <1>1, <1>6, SweepSaveGoesOn
  <1>11. SavesWhatIsFound /\ sweep.due \subseteq Groups
    BY <1>2, <1>7 DEF GroupsInTurn, SweepOK
  <1>12. \A g \in Groups : DoneWith(g) => DoneWith(g)'
    <2>1. Today \in Int /\ Today' \in Int /\ Today <= Today'
      BY <1>8
    <2>2. QED
      BY <1>1, <1>3, <1>8, <2>1, DoneStays
  <1>13. snapshots'[saves[Sweeper].group][saves[Sweeper].day] # None
    BY <1>3, <1>9, <1>10, <1>11 DEF SavesWhatIsFound
  <1>14. FoundIsCached'
    BY <1>1, <1>7 DEF GroupsInTurn, FoundIsCached
  <1>15. sweep.pairs = {}
    BY <1>2, <1>7 DEF GroupsInTurn
  <1>16. CASE saves'[Sweeper] = NoSave
    <2>1. ~InFlight(Sweeper)'
      BY <1>16 DEF InFlight, NoSave
    <2>2. ASSUME NEW h \in Groups, h = saves[Sweeper].group PROVE DoneWith(h)'
      <3>1. PICK d : d = saves[Sweeper].day
        OBVIOUS
      <3>2. d \in Day(sweep.begun)..Today' /\ snapshots'[h][d] # None
        BY <1>8, <1>9, <1>11, <1>13, <2>2, <3>1, DaysType DEF SavesWhatIsFound
      <3>3. QED
        BY <1>1, <3>2 DEF DoneWith
    <2>3. QED
      BY <1>1, <1>7, <1>11, <1>12, <1>14, <1>15, <2>1, <2>2 DEF GroupsInTurn
  <1>17. CASE saves'[Sweeper] # NoSave
    <2>1. InFlight(Sweeper)'
      BY <1>10, <1>17 DEF InFlight, SavedSteps
    <2>2. SavesWhatIsFound'
      BY <1>1, <1>10, <1>11, <1>13, <1>17 DEF SavesWhatIsFound, Found
    <2>3. QED
      BY <1>1, <1>2, <1>7, <1>10, <1>11, <1>12, <1>14, <1>15, <1>17, <2>1, <2>2
         DEF GroupsInTurn
  <1>18. QED
    BY <1>7, <1>16, <1>17

\* Before its groups are listed and checked the sweep has found nothing.
LEMMA SweepBegins ==
    ASSUME SaverOK, SweepOK, SweepInv, FindLacking \/ ListAll \/ \E g \in Groups : Backfill(g)
    PROVE  SweepInv'
  <1>1. /\ sweep.step \in {"idle", "fill"} /\ ~InFlight(Sweeper)
        /\ UNCHANGED <<now, saves>> /\ (Fault \/ UNCHANGED faults)
    BY DEF FindLacking, ListAll, Backfill, RestUnchanged, snapshotVars, SweepInv
  <1>2. ~InFlight(Sweeper)'
    BY <1>1 DEF InFlight
  <1>3. now \in Nat
    BY TodayType DEF SaverOK
  <1>4. SUFFICES ASSUME faults' = 0, sweep'.step # "idle"
                 PROVE  /\ sweep'.begun \in Nat /\ sweep'.begun <= now
                        /\ sweep'.step \in {"fill", "recent"} =>
                             DOMAIN sweep'.found = {} /\ sweep'.due = {}
                        /\ sweep'.step = "groups" => GroupsInTurn'
                        /\ sweep'.step # "snapshots"
    BY <1>1, <1>2 DEF SweepInv
  <1>5. faults = 0 /\ ~Fault
    BY <1>1, <1>4, NoFault
  <1>6. CASE FindLacking
    <2>1. sweep' = [NoSweep EXCEPT !.step = "fill", !.begun = now, !.lacking = Lacking]
      BY <1>5, <1>6 DEF FindLacking
    <2>2. /\ sweep'.step = "fill" /\ sweep'.begun = now /\ sweep'.found = <<>>
          /\ sweep'.due = {}
      BY <2>1 DEF NoSweep
    <2>3. QED
      BY <1>3, <2>2
  <1>7. CASE sweep.step = "fill"
    <2>1. /\ sweep.begun \in Nat /\ sweep.begun <= now
          /\ DOMAIN sweep.found = {} /\ sweep.due = {}
      BY <1>5, <1>7 DEF SweepInv
    <2>2. CASE \E g \in Groups : Backfill(g)
      <3>1. /\ sweep'.step = "fill" /\ sweep'.begun = sweep.begun
            /\ sweep'.found = sweep.found /\ sweep'.due = sweep.due
        BY <1>7, <2>2 DEF Backfill, SweepOK, SweepFields
      <3>2. QED
        BY <2>1, <3>1
    <2>3. CASE ListAll
      <3>1. sweep' = [sweep EXCEPT !.day = Today,
                        !.step = IF ListGroups = {} THEN "groups" ELSE "recent",
                        !.listed = [g \in ListGroups |-> groups[g]]]
        BY <1>5, <2>3 DEF ListAll
      <3>2. /\ sweep'.step \in {"groups", "recent"} /\ sweep'.begun = sweep.begun
            /\ sweep'.found = sweep.found /\ sweep'.due = sweep.due
            /\ sweep'.missing = sweep.missing
        BY <3>1 DEF SweepOK, SweepFields
      <3>3. sweep.missing = {}
        BY <1>7 DEF SweepOK
      <3>4. GroupsInTurn'
        BY <1>2, <2>1, <3>2, <3>3 DEF GroupsInTurn, FoundIsCached
      <3>5. QED
        BY <2>1, <3>2, <3>4
    <2>4. QED
      BY <1>7, <2>2, <2>3 DEF FindLacking
  <1>8. QED
    BY <1>6, <1>7 DEF ListAll, Backfill

LEMMA FindMissingStep ==
    ASSUME SaverOK, SweepOK, SweepInv, FindMissing
    PROVE  SweepInv'
  <1>1. /\ sweep.step = "recent" /\ ~InFlight(Sweeper)
        /\ UNCHANGED <<now, saves>> /\ (Fault \/ UNCHANGED faults)
    BY DEF FindMissing, snapshotVars, SweepInv
  <1>2. ~InFlight(Sweeper)'
    BY <1>1 DEF InFlight
  <1>3. SUFFICES ASSUME faults' = 0, sweep'.step # "idle"
                 PROVE  /\ sweep'.begun \in Nat /\ sweep'.begun <= now
                        /\ sweep'.step = "groups" /\ GroupsInTurn'
    BY <1>1, <1>2 DEF SweepInv
  <1>4. faults = 0 /\ ~Fault
    BY <1>1, <1>3, NoFault
  <1> DEFINE missing == {g \in DOMAIN sweep.listed :
                            ~RecentlySaved(g) /\ IsActiveGroup(sweep.listed[g])}
             pairs == UNION {PairsOf(sweep.listed[g].wallets) : g \in missing}
  <1>5. sweep' = [sweep EXCEPT !.missing = missing, !.due = missing,
                    !.listed = [g \in missing |-> @[g]],
                    !.step = "groups",
                    !.pairs = pairs]
    BY <1>4 DEF FindMissing
  <1> HIDE DEF missing, pairs
  <1>6. /\ sweep'.step = "groups" /\ sweep'.missing = missing /\ sweep'.due = missing
        /\ DOMAIN sweep'.listed = missing /\ sweep'.found = sweep.found
        /\ sweep'.begun = sweep.begun
    BY <1>5 DEF SweepOK, SweepFields
  <1>7. /\ sweep.begun \in Nat /\ sweep.begun <= now /\ DOMAIN sweep.found = {}
    BY <1>1, <1>4 DEF SweepInv
  <1>8. GroupsInTurn'
    BY <1>2, <1>6, <1>7 DEF GroupsInTurn, FoundIsCached
  <1>9. QED
    BY <1>6, <1>7, <1>8

\* What is found of a pair is put into the cache, or was there already.
LEMMA ProcessPairStep ==
    ASSUME SaverOK, SweepOK, SweepInv, NEW pair \in Pair, ProcessPair(pair)
    PROVE  SweepInv'
  <1>1. /\ sweep.step = "groups" /\ pair \in sweep.pairs
        /\ UNCHANGED <<now, saves, snapshots>> /\ (Fault \/ UNCHANGED faults)
        /\ sweep'.step = "groups"
    BY DEF ProcessPair, snapshotVars, SweepOK, SweepFields
  <1>2. SUFFICES ASSUME faults' = 0
                 PROVE  sweep'.begun \in Nat /\ sweep'.begun <= now /\ GroupsInTurn'
    BY <1>1 DEF SweepInv
  <1>3. faults = 0 /\ ~Fault /\ UNCHANGED faults
    BY <1>1, <1>2, NoFault
  <1>4. sweep.begun \in Nat /\ sweep.begun <= now /\ GroupsInTurn
    BY <1>1, <1>3 DEF SweepInv
  <1>5. sweep.missing = sweep.due /\ ~InFlight(Sweeper) /\ ~InFlight(Sweeper)'
    BY <1>1, <1>4 DEF GroupsInTurn, InFlight
  <1> DEFINE key == [day |-> sweep.day, pair |-> pair]
  <1>6. PICK results :
          /\ sweep' = [sweep EXCEPT !.pairs = @ \ {pair},
                                    !.found = With(@, pair, results)]
          /\ \/ key \in DOMAIN sweepCache /\ results = sweepCache[key] /\ UNCHANGED sweepCache
             \/ sweepCache' = With(sweepCache, key, results)
    BY <1>3 DEF ProcessPair
  <1>7. /\ sweep'.begun = sweep.begun /\ sweep'.due = sweep.due
        /\ sweep'.missing = sweep.missing /\ sweep'.listed = sweep.listed
        /\ sweep'.found = With(sweep.found, pair, results) /\ sweep'.day = sweep.day
    BY <1>6 DEF SweepOK, SweepFields
  <1>8. FoundIsCached'
    <2>1. ASSUME NEW p \in DOMAIN sweep'.found
          PROVE  LET k == [day |-> sweep.day, pair |-> p]
                 IN  k \in DOMAIN sweepCache' /\ sweepCache'[k] = sweep'.found[p]
      <3> DEFINE k == [day |-> sweep.day, pair |-> p]
      <3>1. k = key <=> p = pair
        OBVIOUS
      <3>2. p # pair => k \in DOMAIN sweepCache /\ sweepCache[k] = sweep.found[p]
                        /\ p \in DOMAIN sweep.found
        BY <1>4, <1>7, <2>1 DEF GroupsInTurn, FoundIsCached, With
      <3>3. sweep'.found[p] = IF p = pair THEN results ELSE sweep.found[p]
        BY <1>7, <2>1 DEF With
      <3> HIDE DEF k, key
      <3>4. k \in DOMAIN sweepCache' /\ sweepCache'[k] = sweep'.found[p]
        BY <1>6, <3>1, <3>2, <3>3 DEF With
      <3>5. QED
        BY <3>4 DEF k
    <2>2. QED
      BY <1>7, <2>1 DEF FoundIsCached
  <1>9. GroupsInTurn'
    BY <1>4, <1>5, <1>7, <1>8 DEF GroupsInTurn
  <1>10. QED
    BY <1>4, <1>7, <1>9

\* Without a fault a group is saved with everything that was found of it.
LEMMA SaveGroupStep ==
    ASSUME SaverOK, SweepOK, SweepInv, NEW g \in Groups, SaveGroup(g)
    PROVE  SweepInv'
  <1>1. /\ sweep.pairs = {} /\ sweep.step = "groups" /\ g \in sweep.missing
        /\ sweep' = [sweep EXCEPT !.missing = @ \ {g}] /\ UNCHANGED sweepCache
        /\ saves[Sweeper].step = "idle" /\ UNCHANGED <<now, snapshots>>
        /\ UNCHANGED faults =>
                LET found == Collected(Written(sweep.listed[g].wallets))
                IN  \/ found = <<>> /\ UNCHANGED saves
                    \/ saves'[Sweeper].step = "upsert" /\ saves'[Sweeper].group = g
                       /\ saves'[Sweeper].day = Today
                       /\ saves'[Sweeper].snapshot.positions = found
    BY SaveGroupOK
  <1>2. Fault \/ UNCHANGED faults
    BY DEF SaveGroup
  <1>3. /\ sweep'.step = "groups" /\ sweep'.missing = sweep.missing \ {g}
        /\ sweep'.begun = sweep.begun /\ sweep'.due = sweep.due /\ sweep'.pairs = {}
        /\ sweep'.listed = sweep.listed /\ sweep'.found = sweep.found /\ sweep'.day = sweep.day
    BY <1>1 DEF SweepOK, SweepFields
  <1>4. SUFFICES ASSUME faults' = 0
                 PROVE  sweep'.begun \in Nat /\ sweep'.begun <= now /\ GroupsInTurn'
    BY <1>1, <1>3 DEF SweepInv
  <1>5. faults = 0 /\ UNCHANGED faults
    BY <1>2, <1>4, NoFault
  <1>6. sweep.begun \in Nat /\ sweep.begun <= now /\ GroupsInTurn /\ ~InFlight(Sweeper)
    BY <1>1, <1>5 DEF SweepInv, InFlight
  <1>7. \A h : Found(h)' = Found(h)
    BY <1>3 DEF Found
  <1>8. \A h : DoneWith(h) => DoneWith(h)'
    <2>1. Today' = Today
      BY <1>1 DEF Today
    <2>2. QED
      BY <1>1, <1>3, <1>7, <2>1 DEF DoneWith
  <1> DEFINE wallets == sweep.listed[g].wallets
  <1>9. Found(g) \subseteq Range(Collected(Written(wallets)))
    <2>1. wallets \in SUBSET Accounts
      BY <1>1 DEF SweepOK, Document
    <2>2. IsFiniteSet(Written(wallets))
      BY <2>1, PairsAreFinite
    <2>3. \A p \in Written(wallets) : KeyOf(p) \in DOMAIN sweepCache =>
            Range(sweepCache[KeyOf(p)]) \subseteq Range(Collected(Written(wallets)))
      BY <2>2, CollectedDoes
    <2>4. ASSUME NEW p \in PairsOf(wallets) \cap DOMAIN sweep.found
          PROVE  Range(sweep.found[p]) \subseteq Range(Collected(Written(wallets)))
      <3>1. PICK q \in Written(wallets) : p = InLowerCase(q)
        BY DEF PairsOf
      <3>2. KeyOf(q) \in DOMAIN sweepCache /\ sweepCache[KeyOf(q)] = sweep.found[p]
        BY <1>6, <3>1 DEF GroupsInTurn, FoundIsCached, KeyOf
      <3>3. QED
        BY <2>3, <3>2
    <2>5. QED
      BY <2>4 DEF Found
  <1>10. FoundIsCached'
    BY <1>1, <1>3, <1>6 DEF GroupsInTurn, FoundIsCached
  <1>11. g \in sweep.due /\ sweep.due \subseteq DOMAIN sweep.listed
    BY <1>1, <1>6 DEF GroupsInTurn
  <1>12. CASE Collected(Written(wallets)) = <<>> /\ UNCHANGED saves
    <2>1. Range(<<>>) = {}
      BY DEF Range
    <2>2. Found(g) = {}
      BY <1>9, <1>12, <2>1
    <2>3. DoneWith(g)'
      BY <1>7, <2>2 DEF DoneWith
    <2>4. ~InFlight(Sweeper)'
      BY <1>6, <1>12 DEF InFlight
    <2>5. GroupsInTurn'
      BY <1>3, <1>6, <1>8, <1>10, <2>3, <2>4 DEF GroupsInTurn
    <2>6. QED
      BY <1>3, <1>6, <2>5
  <1>13. CASE /\ saves'[Sweeper].step = "upsert" /\ saves'[Sweeper].group = g
              /\ saves'[Sweeper].day = Today
              /\ saves'[Sweeper].snapshot.positions = Collected(Written(wallets))
    <2>1. InFlight(Sweeper)'
      BY <1>13 DEF InFlight
    <2>2. Day(sweep.begun) <= Today
      BY <1>6, BegunDay
    <2>3. SavesWhatIsFound'
      BY <1>3, <1>7, <1>9, <1>11, <1>13, <2>2 DEF SavesWhatIsFound, Found
    <2>4. GroupsInTurn'
      BY <1>3, <1>6, <1>8, <1>10, <1>13, <2>1, <2>3 DEF GroupsInTurn
    <2>5. QED
      BY <1>3, <1>6, <2>4
  <1>14. QED
    BY <1>1, <1>5, <1>12, <1>13

LEMMA RetentionStep ==
    ASSUME SaverOK, SweepOK, SweepInv,
           StartRetention \/ DeleteOldSnapshots \/ DeleteOldAnalytics \/ DeleteOldSyncs
    PROVE  SweepInv'
  <1>1. CASE StartRetention
    <2>1. /\ sweep.step = "groups" /\ sweep.missing = {} /\ ~InFlight(Sweeper)
          /\ sweep' = [sweep EXCEPT !.step = "snapshots", !.day = Today - RetentionDays]
          /\ UNCHANGED <<now, faults, saves, snapshots>>
      BY <1>1 DEF StartRetention, snapshotVars
    <2>2. /\ sweep'.step = "snapshots" /\ sweep'.begun = sweep.begun /\ sweep'.due = sweep.due
          /\ sweep'.listed = sweep.listed /\ sweep'.found = sweep.found
      BY <2>1 DEF SweepOK, SweepFields
    <2>3. ~InFlight(Sweeper)'
      BY <2>1 DEF InFlight
    <2>4. \A h : DoneWith(h) => DoneWith(h)'
      <3>1. Today' = Today /\ \A h : Found(h)' = Found(h)
        BY <2>1, <2>2 DEF Today, Found
      <3>2. QED
        BY <2>1, <2>2, <3>1 DEF DoneWith
    <2>5. ASSUME faults' = 0
          PROVE  /\ sweep'.begun \in Nat /\ sweep'.begun <= now
                 /\ sweep'.due \subseteq Groups /\ \A g \in sweep'.due : DoneWith(g)'
      <3>1. sweep.begun \in Nat /\ sweep.begun <= now /\ GroupsInTurn
        BY <2>1, <2>5 DEF SweepInv
      <3>2. QED
        BY <2>1, <2>2, <2>4, <3>1 DEF GroupsInTurn, SweepOK
    <2>6. QED
      BY <2>1, <2>2, <2>3, <2>5 DEF SweepInv
  <1>2. ASSUME NEW step, NEW next, Retention(step, next),
               step \in {"snapshots", "analytics", "syncs"},
               next \in {"analytics", "syncs", "idle"}, Fault \/ UNCHANGED faults
        PROVE  SweepInv'
    <2>1. /\ sweep.step \in {"snapshots", "analytics", "syncs"} /\ ~InFlight(Sweeper)
          /\ UNCHANGED <<now, saves>>
          /\ sweep' = IF next = "idle" THEN NoSweep ELSE [sweep EXCEPT !.step = next]
      BY <1>2 DEF Retention, RestUnchanged, SweepInv
    <2>2. ~InFlight(Sweeper)'
      BY <2>1 DEF InFlight
    <2>3. sweep'.step = next /\ (next # "idle" => sweep'.begun = sweep.begun)
      BY <2>1 DEF SweepOK, SweepFields, NoSweep
    <2>4. faults' = 0 => faults = 0
      BY <1>2, NoFault
    <2>5. QED
      BY <1>2, <2>1, <2>2, <2>3, <2>4 DEF SweepInv
  <1>3. CASE DeleteOldSnapshots
    <2>1. Retention("snapshots", "analytics") /\ (Fault \/ UNCHANGED faults)
      BY <1>3 DEF DeleteOldSnapshots
    <2>2. QED
      BY <1>2, <2>1
  <1>4. CASE DeleteOldAnalytics
    <2>1. Retention("analytics", "syncs") /\ (Fault \/ UNCHANGED faults)
      BY <1>4 DEF DeleteOldAnalytics
    <2>2. QED
      BY <1>2, <2>1
  <1>5. CASE DeleteOldSyncs
    <2>1. Retention("syncs", "idle") /\ (Fault \/ UNCHANGED faults)
      BY <1>5 DEF DeleteOldSyncs
    <2>2. QED
      BY <1>2, <2>1
  <1>6. QED
    BY <1>1, <1>3, <1>4, <1>5

LEMMA SweepInvStarts == Init => SweepInv
  <1> SUFFICES ASSUME Init PROVE SweepInv
    OBVIOUS
  <1>1. Sweeper \in Savers
    BY DEF Savers
  <1>2. saves[Sweeper].step = "idle" /\ sweep.step = "idle"
    BY <1>1 DEF Init, SnapshotsInit, SweepInit, NoSave, NoSweep
  <1>3. QED
    BY <1>2 DEF SweepInv, InFlight

LEMMA SweepInvStays == SaverOK /\ SweepOK /\ SweepInv /\ [Next]_vars => SweepInv'
  <1> SUFFICES ASSUME SaverOK, SweepOK, SweepInv, [Next]_vars PROVE SweepInv'
    OBVIOUS
  <1>1. SaverOK'
    BY StaysOK
  <1>2. now \in Nat
    BY TodayType DEF SaverOK
  <1>3. CASE Tick
    <2>1. /\ UNCHANGED <<faults, saves, snapshots, sweep>> /\ now' = now + 1
          /\ sweep.step # "idle" => UNCHANGED sweepCache
      BY <1>3 DEF Tick, snapshotVars
    <2>2. CASE sweep.step = "idle"
      BY <2>1, <2>2 DEF SweepInv, InFlight
    <2>3. CASE sweep.step # "idle"
      BY <1>1, <1>2, <2>1, <2>3, SweepUndisturbed
    <2>4. QED
      BY <2>2, <2>3
  <1>4. ASSUME Fault, UNCHANGED sweep, UNCHANGED saves PROVE SweepInv'
    BY <1>4, NoFault DEF SweepInv, InFlight
  <1>5. CASE LoseEntry
    BY <1>4, <1>5 DEF LoseEntry, snapshotVars
  <1>6. CASE CrashSweep
    <2>1. Sweeper \in Savers /\ sweep' = NoSweep
      BY <1>6 DEF Savers, CrashSweep, GiveUp
    <2>2. saves'[Sweeper] = NoSave
      BY <1>6, <2>1 DEF CrashSweep, SaverOK, SavesOK
    <2>3. QED
      BY <2>1, <2>2 DEF SweepInv, InFlight, NoSave, NoSweep
  <1>7. CASE SweepStep
    BY <1>7, SweepBegins, FindMissingStep, ProcessPairStep, SaveGroupStep, SweepSaveStep,
       RetentionStep DEF SweepStep
  <1>8. CASE UNCHANGED vars
    <2>1. UNCHANGED <<now, faults, saves, snapshots, sweep, sweepCache>>
      BY <1>8 DEF vars, snapshotVars, sweepVars
    <2>2. QED
      BY <1>1, <1>2, <2>1, SweepUndisturbed
  <1>9. QED
    BY <1>3, <1>5, <1>6, <1>7, <1>8, WorkerKeepsSweep DEF Next

\* Without a fault, what the sweep saves of a group holds every position it
\* has found of its accounts, and once all groups are done each one that was
\* missing and has positions has a snapshot of a day since the sweep began,
\* whatever workers, midnights and other groups come between.
THEOREM SweepSavesAllAlways == Spec => []SweepSavesAll
  <1>1. SweepInv => SweepSavesAll
    BY DEF SweepInv, SweepSavesAll, GroupsInTurn, SavesWhatIsFound, DoneWith
  <1>2. QED
    BY <1>1, StartsOK, StaysOK, SweepInvStarts, SweepInvStays, PTL DEF Spec

----------------------------------------------------------------------------
(* The sync snapshots of a day.                                            *)

InDay(x, from, to) == IF from <= x.day /\ x.day <= to THEN <<x>> ELSE <<>>

LEMMA InRangeAppend ==
    ASSUME NEW documents \in Seq(Sync), NEW x \in Sync, NEW from, NEW to
    PROVE  InRange(Append(documents, x), from, to)
             = InRange(documents, from, to) \o InDay(x, from, to)
  <1> DEFINE more == Append(documents, x)
             seqs == [i \in DOMAIN documents |-> InDay(documents[i], from, to)]
             moreSeqs == [i \in DOMAIN more |-> InDay(more[i], from, to)]
             n == Len(documents)
  <1>1. /\ n \in Nat /\ DOMAIN documents = 1..n /\ DOMAIN more = 1..(n + 1)
        /\ more[n + 1] = x /\ \A i \in 1..n : more[i] = documents[i] /\ documents[i] \in Sync
    OBVIOUS
  <1>2. \A y \in Sync : InDay(y, from, to) \in Seq(Sync)
    BY DEF InDay
  <1>3. seqs \in Seq(Seq(Sync)) /\ InDay(x, from, to) \in Seq(Sync)
    BY <1>1, <1>2
  <1>4. moreSeqs = Append(seqs, InDay(x, from, to))
    <2>1. DOMAIN seqs = 1..n /\ Len(seqs) = n
      BY <1>1, <1>3
    <2> DEFINE appended == Append(seqs, InDay(x, from, to))
    <2>2. appended \in Seq(Seq(Sync)) /\ DOMAIN appended = 1..(n + 1) /\ DOMAIN moreSeqs = 1..(n + 1)
      BY <1>1, <1>3, <2>1
    <2>3. ASSUME NEW i \in 1..(n + 1) PROVE appended[i] = moreSeqs[i]
      <3>1. CASE i = n + 1
        BY <1>1, <1>3, <2>1, <3>1
      <3>2. CASE i # n + 1
        <4>1. i \in 1..n
          BY <1>1, <3>2
        <4>2. appended[i] = seqs[i] /\ seqs[i] = InDay(documents[i], from, to)
          BY <1>1, <1>3, <2>1, <4>1
        <4>3. moreSeqs[i] = InDay(more[i], from, to) /\ more[i] = documents[i]
          BY <1>1, <4>1
        <4> HIDE DEF appended, moreSeqs, seqs, more
        <4>4. QED
          BY <4>2, <4>3
      <3>3. QED
        BY <3>1, <3>2
    <2>4. appended = [i \in 1..(n + 1) |-> appended[i]]
      BY <2>2
    <2>5. moreSeqs = [i \in 1..(n + 1) |-> moreSeqs[i]]
      BY <1>1
    <2> HIDE DEF appended, moreSeqs
    <2>6. appended = moreSeqs
      BY <2>3, <2>4, <2>5
    <2>7. QED
      BY <2>6 DEF appended
  <1>5. InRange(documents, from, to) = FlattenSeq(seqs) /\ InRange(more, from, to) = FlattenSeq(moreSeqs)
    BY DEF InRange, InDay
  <1> HIDE DEF seqs, moreSeqs
  <1>6. FlattenSeq(Append(seqs, InDay(x, from, to))) = FlattenSeq(seqs) \o InDay(x, from, to)
    BY <1>3, FlattenSeqAppend
  <1>7. QED
    BY <1>4, <1>5, <1>6

LEMMA InRangeOfNone ==
    ASSUME NEW from, NEW to
    PROVE  InRange(<<>>, from, to) = <<>>
  <1> DEFINE seqs == [i \in DOMAIN <<>> |->
                        IF from <= <<>>[i].day /\ <<>>[i].day <= to THEN <<<<>>[i]>> ELSE <<>>]
  <1>1. InRange(<<>>, from, to) = FlattenSeq(seqs)
    BY DEF InRange
  <1>2. seqs = <<>> /\ Len(<<>>) = 0
    OBVIOUS
  <1> HIDE DEF seqs
  <1>3. QED
    BY <1>1, <1>2 DEF FlattenSeq

\* Deleting other days leaves the day as it is.
LEMMA InRangeTwice ==
    ASSUME NEW from \in Int, NEW to \in Int, NEW d \in Int, from <= d, d <= to,
           NEW documents \in Seq(Sync)
    PROVE  InRange(InRange(documents, from, to), d, d) = InRange(documents, d, d)
  <1> DEFINE Same(s) == InRange(InRange(s, from, to), d, d) = InRange(s, d, d)
             Bad == {n \in Nat : \E s \in Seq(Sync) : Len(s) = n /\ ~Same(s)}
  <1>1. Bad = {}
    <2>1. SUFFICES ASSUME Bad # {} PROVE FALSE
      OBVIOUS
    <2>2. PICK n \in Bad : \A m \in Bad : n <= m
      <3>1. Bad \subseteq Nat
        OBVIOUS
      <3> HIDE DEF Bad
      <3>2. QED
        BY <2>1, <3>1, SmallestNumber
    <2>3. PICK s \in Seq(Sync) : Len(s) = n /\ ~Same(s)
      BY <2>2
    <2>4. n # 0
      <3>1. ASSUME n = 0 PROVE FALSE
        <4>1. s = <<>>
          BY <2>3, <3>1
        <4>2. Same(s)
          BY <4>1, InRangeOfNone
        <4>3. QED
          BY <2>3, <4>2
      <3>2. QED
        BY <3>1
    <2>5. PICK front \in Seq(Sync), last \in Sync : s = Append(front, last) /\ Len(front) = n - 1
      <3> DEFINE front == [i \in 1..(n - 1) |-> s[i]]
      <3>1. n \in Nat /\ n - 1 \in Nat /\ s[n] \in Sync /\ \A i \in 1..(n - 1) : s[i] \in Sync
        BY <2>2, <2>3, <2>4
      <3>2. front \in Seq(Sync) /\ Len(front) = n - 1
        BY <3>1
      <3>3. s = Append(front, s[n])
        BY <2>3, <3>1, <3>2
      <3>4. QED
        BY <3>1, <3>2, <3>3
    <2>6. Same(front)
      <3>1. n - 1 \in Nat /\ ~(n <= n - 1)
        BY <2>2, <2>4
      <3>2. n - 1 \notin Bad
        <4> HIDE DEF Bad
        <4>1. QED
          BY <2>2, <3>1
      <3> HIDE DEF Same
      <3>3. QED
        BY <2>5, <3>1, <3>2
    <2>7. /\ InRange(s, from, to) = InRange(front, from, to) \o InDay(last, from, to)
          /\ InRange(s, d, d) = InRange(front, d, d) \o InDay(last, d, d)
      <3>1. InRange(Append(front, last), from, to)
              = InRange(front, from, to) \o InDay(last, from, to)
        BY InRangeAppend
      <3>2. InRange(Append(front, last), d, d) = InRange(front, d, d) \o InDay(last, d, d)
        BY InRangeAppend
      <3>3. s = Append(front, last)
        BY <2>5
      <3>4. QED
        BY ONLY <3>1, <3>2, <3>3
    <2>8. InRange(front, from, to) \in Seq(Sync) /\ InRange(front, d, d) \in Seq(Sync)
      BY InRangeType
    <2>9. last.day \in Int
      BY DaysType DEF Sync
    <2>10. CASE from <= last.day /\ last.day <= to
      <3>1. InRange(s, from, to) = Append(InRange(front, from, to), last)
        BY <2>7, <2>8, <2>10 DEF InDay
      <3>2. InRange(InRange(s, from, to), d, d)
              = InRange(InRange(front, from, to), d, d) \o InDay(last, d, d)
        <4>1. PICK kept \in Seq(Sync) : kept = InRange(front, from, to)
          BY <2>8
        <4>2. InRange(Append(kept, last), d, d) = InRange(kept, d, d) \o InDay(last, d, d)
          BY InRangeAppend
        <4>3. QED
          BY ONLY <3>1, <4>1, <4>2
      <3>3. QED
        BY <2>3, <2>6, <2>7, <3>2
    <2>11. CASE ~(from <= last.day /\ last.day <= to)
      <3>1. InDay(last, from, to) = <<>> /\ InDay(last, d, d) = <<>>
        BY <2>9, <2>11 DEF InDay
      <3>2. InRange(s, from, to) = InRange(front, from, to) /\ InRange(s, d, d) = InRange(front, d, d)
        BY <2>7, <2>8, <3>1
      <3>3. QED
        BY <2>3, <2>6, <3>2
    <2>12. QED
      BY <2>10, <2>11
  <1>2. Len(documents) \in Nat
    OBVIOUS
  <1> HIDE DEF Same
  <1>3. Same(documents)
    BY <1>1, <1>2
  <1>4. QED
    BY <1>3 DEF Same

\* The latest of a day, which get_sync_history lists first, has the total.
LatestSyncIs(documents, d, total) ==
    LET day == Reverse(InRange(documents, d, d))
    IN  day # <<>> /\ day[1].total = total

LEMMA LatestAppended ==
    ASSUME NEW documents \in Seq(Sync), NEW x \in Sync, NEW d \in Int
    PROVE  /\ x.day = d => LatestSyncIs(Append(documents, x), d, x.total)
           /\ x.day # d => InRange(Append(documents, x), d, d) = InRange(documents, d, d)
  <1> DEFINE old == InRange(documents, d, d)
             day == InRange(Append(documents, x), d, d)
  <1>1. old \in Seq(Sync) /\ day = old \o InDay(x, d, d) /\ x.day \in Int
    <2>1. old \in Seq(Sync)
      BY InRangeType
    <2>2. day = old \o InDay(x, d, d)
      BY InRangeAppend
    <2>3. x.day \in Int
      BY DaysType DEF Sync
    <2>4. QED
      BY <2>1, <2>2, <2>3
  <1> HIDE DEF old, day
  <1>2. x.day # d => day = old
    BY <1>1 DEF InDay
  <1>3. ASSUME x.day = d PROVE Reverse(day) # <<>> /\ Reverse(day)[1] = x
    <2>1. day = Append(old, x)
      BY <1>1, <1>3 DEF InDay
    <2>2. Len(day) = Len(old) + 1 /\ Len(old) \in Nat /\ day[Len(old) + 1] = x
      BY <1>1, <2>1
    <2>3. DOMAIN Reverse(day) = 1..Len(day) /\ 1 \in 1..Len(day)
          /\ Reverse(day)[1] = day[(Len(day) - 1) + 1]
      BY <2>2 DEF Reverse
    <2>4. QED
      BY <2>2, <2>3
  <1>4. QED
    BY <1>2, <1>3 DEF LatestSyncIs, old, day

----------------------------------------------------------------------------
(* The inductive invariant of what is kept of a day: the snapshot, the     *)
(* analytics and the last sync snapshot of an undisturbed day come from    *)
(* one save.                                                               *)

SharesOf(x) == BuildSummary(x.positions).byProtocol

\* The analytics are those of the snapshot.
Describes(a, x) ==
    /\ a.total = x.total
    /\ DOMAIN a.protocols = DOMAIN SharesOf(x)
    /\ \A p \in DOMAIN SharesOf(x) : a.protocols[p].value = SharesOf(x)[p]

AddsUp(x) == x.total = NetWorth(x.positions)

NetWorths ==
    /\ \A g \in Groups, d \in Days : snapshots[g][d] # None => AddsUp(snapshots[g][d])
    /\ \A s \in Savers : InFlight(s) => AddsUp(saves[s].snapshot)

ToSync(s, g, d) == AtStep(s, g, d, {"previous", "first", "totals", "analytics", "sync"})

\* What is not there yet, a save is about to write; the snapshot job writes
\* no sync snapshot.
Together(g, d) ==
    /\ \/ \E s \in Savers : Saved(s, g, d)
       \/ analytics[g][d] # None /\ Describes(analytics[g][d], snapshots[g][d])
    /\ \A s \in Savers : AtStep(s, g, d, {"sync"}) => snapshots[g][d] = saves[s].snapshot
    /\ \/ <<g, d>> \in swept
       \/ \E s \in Savers : ToSync(s, g, d)
       \/ LatestSyncIs(syncs[g], d, snapshots[g][d].total)

SavedTogether ==
    \A g \in Groups, d \in Days :
        Undisturbed(g, d) /\ snapshots[g][d] # None => Together(g, d)

SweptBySweeper ==
    InFlight(Sweeper) => <<saves[Sweeper].group, saves[Sweeper].day>> \in swept

\* Retention deletes a snapshot before what was made of it.
Retained ==
    /\ sweep.step \in {"snapshots", "analytics", "syncs"} =>
         sweep.day \in Int /\ sweep.day <= Today
    /\ sweep.step \in {"analytics", "syncs"} =>
         \A g \in Groups, d \in Days :
            d < sweep.day /\ Undisturbed(g, d) => snapshots[g][d] = None

AgreesInv == NetWorths /\ SavedTogether /\ SweptBySweeper /\ Retained

\* What a day has together it keeps.
LEMMA TogetherKept ==
    ASSUME NEW g, NEW d, Together(g, d), swept \subseteq swept',
           snapshots'[g][d] = snapshots[g][d], analytics'[g][d] = analytics[g][d],
           InRange(syncs'[g], d, d) = InRange(syncs[g], d, d),
           \A s \in Savers :
             /\ Saved(s, g, d) => Saved(s, g, d)'
             /\ ToSync(s, g, d) => ToSync(s, g, d)'
             /\ AtStep(s, g, d, {"sync"})' =>
                    AtStep(s, g, d, {"sync"}) /\ saves'[s].snapshot = saves[s].snapshot
    PROVE  Together(g, d)'
  <1>1. (\E s \in Savers : Saved(s, g, d))'
          \/ (analytics'[g][d] # None /\ Describes(analytics'[g][d], snapshots'[g][d]))
    BY DEF Together
  <1>2. ASSUME NEW s \in Savers, AtStep(s, g, d, {"sync"})'
        PROVE  snapshots'[g][d] = saves'[s].snapshot
    BY <1>2 DEF Together
  <1>3. \/ <<g, d>> \in swept'
        \/ \E s \in Savers : ToSync(s, g, d)'
        \/ LatestSyncIs(syncs'[g], d, snapshots'[g][d].total)
    <2>1. CASE LatestSyncIs(syncs[g], d, snapshots[g][d].total)
      BY <2>1 DEF LatestSyncIs
    <2>2. CASE <<g, d>> \in swept \/ \E s \in Savers : ToSync(s, g, d)
      BY <2>2
    <2>3. QED
      BY <2>1, <2>2 DEF Together
  <1>4. QED
    BY <1>1, <1>2, <1>3 DEF Together, Describes

----------------------------------------------------------------------------
(* Steps that write nothing.                                               *)

\* A save goes on reading.
Reading(s) ==
    /\ saves[s].step \in SavedSteps /\ saves'[s].step \in SavedSteps
    /\ saves'[s].group = saves[s].group /\ saves'[s].day = saves[s].day
    /\ saves'[s].snapshot = saves[s].snapshot

\* A save is given up.
Dropped(s) ==
    /\ ~InFlight(s)'
    /\ InFlight(s) => <<saves[s].group, saves[s].day>> \in disturbed'

\* Nothing is written and nothing but snapshots deleted.
OnlyReads ==
    /\ disturbed \subseteq disturbed' /\ swept \subseteq swept'
    /\ UNCHANGED <<analytics, syncs>>
    /\ \A g \in Groups, d \in Days : snapshots'[g][d] \in {snapshots[g][d], None}
    /\ \A s \in Savers : \/ saves'[s] = saves[s] \/ Dropped(s) \/ Reading(s)
                         \/ Begun(s) /\ AddsUp(saves'[s].snapshot)

LEMMA OnlyReadsSaves ==
    ASSUME OnlyReads, NEW s \in Savers, NEW g, NEW d
    PROVE  /\ AtStep(s, g, d, {"sync"})' =>
                AtStep(s, g, d, {"sync"}) /\ saves'[s].snapshot = saves[s].snapshot
           /\ Undisturbed(g, d)' => (Saved(s, g, d) => Saved(s, g, d)')
           /\ Undisturbed(g, d)' => (ToSync(s, g, d) => ToSync(s, g, d)')
           /\ InFlight(s)' =>
                \/ AddsUp(saves'[s].snapshot)
                \/ (InFlight(s) /\ saves'[s].snapshot = saves[s].snapshot)
  <1>1. CASE saves'[s] = saves[s]
    BY <1>1 DEF AtStep, Saved, ToSync, InFlight
  <1>2. CASE Dropped(s)
    BY <1>2 DEF Dropped, AtStep, Saved, ToSync, InFlight, Undisturbed
  <1>3. CASE Reading(s)
    BY <1>3 DEF Reading, AtStep, Saved, ToSync, InFlight, SavedSteps
  <1>4. CASE Begun(s) /\ AddsUp(saves'[s].snapshot)
    BY <1>4 DEF Begun, AtStep, Saved, ToSync, InFlight
  <1>5. QED
    BY <1>1, <1>2, <1>3, <1>4 DEF OnlyReads

LEMMA OnlyReadsKeep ==
    ASSUME NetWorths, SavedTogether, OnlyReads
    PROVE  NetWorths' /\ SavedTogether'
  <1>1. /\ disturbed \subseteq disturbed' /\ swept \subseteq swept'
        /\ UNCHANGED <<analytics, syncs>>
        /\ \A g \in Groups, d \in Days : snapshots'[g][d] \in {snapshots[g][d], None}
    BY DEF OnlyReads
  <1>2. NetWorths'
    <2>1. ASSUME NEW s \in Savers, InFlight(s)' PROVE AddsUp(saves'[s].snapshot)
      <3>1. \/ AddsUp(saves'[s].snapshot)
            \/ (InFlight(s) /\ saves'[s].snapshot = saves[s].snapshot)
        BY <2>1, OnlyReadsSaves
      <3>2. QED
        BY <3>1 DEF NetWorths
    <2>2. QED
      BY <1>1, <2>1 DEF NetWorths, AddsUp
  <1>3. ASSUME NEW g \in Groups, NEW d \in Days, Undisturbed(g, d)', snapshots'[g][d] # None
        PROVE  Together(g, d)'
    <2>1. Undisturbed(g, d) /\ snapshots'[g][d] = snapshots[g][d] /\ Together(g, d)
      BY <1>1, <1>3 DEF Undisturbed, SavedTogether
    <2>2. \A s \in Savers :
             /\ Saved(s, g, d) => Saved(s, g, d)'
             /\ ToSync(s, g, d) => ToSync(s, g, d)'
             /\ AtStep(s, g, d, {"sync"})' =>
                    AtStep(s, g, d, {"sync"}) /\ saves'[s].snapshot = saves[s].snapshot
      BY <1>3, OnlyReadsSaves
    <2>3. QED
      BY <1>1, <2>1, <2>2, TogetherKept
  <1>4. QED
    BY <1>2, <1>3 DEF SavedTogether

----------------------------------------------------------------------------
(* Steps of a save that write a document.                                  *)

\* A save writes its own day only.
LEMMA OneDayWritten ==
    ASSUME SavedTogether, NEW s \in Savers, NEW g, NEW d,
           saves[s].group = g, saves[s].day = d,
           disturbed \subseteq disturbed', swept \subseteq swept',
           \A t \in Savers \ {s} : saves'[t] = saves[t],
           saves'[s].step # "idle" => saves'[s].group = g /\ saves'[s].day = d,
           \A h \in Groups, e \in Days : <<h, e>> # <<g, d>> =>
             /\ snapshots'[h][e] = snapshots[h][e] /\ analytics'[h][e] = analytics[h][e]
             /\ Undisturbed(h, e)' => InRange(syncs'[h], e, e) = InRange(syncs[h], e, e),
           g \in Groups /\ d \in Days /\ Undisturbed(g, d)' /\ snapshots'[g][d] # None =>
                Together(g, d)'
    PROVE  SavedTogether'
  <1>1. ASSUME NEW h \in Groups, NEW e \in Days, Undisturbed(h, e)', snapshots'[h][e] # None,
               <<h, e>> # <<g, d>>
        PROVE  Together(h, e)'
    <2>1. /\ snapshots'[h][e] = snapshots[h][e] /\ analytics'[h][e] = analytics[h][e]
          /\ InRange(syncs'[h], e, e) = InRange(syncs[h], e, e)
      BY <1>1
    <2>2. Together(h, e)
      BY <1>1, <2>1 DEF SavedTogether, Undisturbed
    <2>3. ASSUME NEW t \in Savers
          PROVE  /\ Saved(t, h, e) => Saved(t, h, e)'
                 /\ ToSync(t, h, e) => ToSync(t, h, e)'
                 /\ AtStep(t, h, e, {"sync"})' =>
                        AtStep(t, h, e, {"sync"}) /\ saves'[t].snapshot = saves[t].snapshot
      <3>1. CASE t = s
        BY <1>1, <3>1 DEF Saved, ToSync, AtStep
      <3>2. CASE t # s
        BY <3>2 DEF Saved, ToSync, AtStep
      <3>3. QED
        BY <3>1, <3>2
    <2>4. QED
      BY <2>1, <2>2, <2>3, TogetherKept
  <1>2. ASSUME NEW h \in Groups, NEW e \in Days, Undisturbed(h, e)', snapshots'[h][e] # None
        PROVE  Together(h, e)'
    BY <1>1, <1>2
  <1>3. QED
    BY <1>2 DEF SavedTogether

\* What is written is what a save holds.
LEMMA NetWorthsKept ==
    ASSUME NetWorths,
           \A g \in Groups, d \in Days :
             \/ snapshots'[g][d] \in {snapshots[g][d], None}
             \/ \E s \in Savers : InFlight(s) /\ snapshots'[g][d] = saves[s].snapshot,
           \A s \in Savers : InFlight(s)' =>
             \/ AddsUp(saves'[s].snapshot)
             \/ (InFlight(s) /\ saves'[s].snapshot = saves[s].snapshot)
    PROVE  NetWorths'
  <1>1. ASSUME NEW g \in Groups, NEW d \in Days, snapshots'[g][d] # None
        PROVE  AddsUp(snapshots'[g][d])
    <2>1. CASE snapshots'[g][d] = snapshots[g][d]
      BY <1>1, <2>1 DEF NetWorths
    <2>2. CASE \E s \in Savers : InFlight(s) /\ snapshots'[g][d] = saves[s].snapshot
      <3>1. PICK s \in Savers : InFlight(s) /\ snapshots'[g][d] = saves[s].snapshot
        BY <2>2
      <3>2. AddsUp(saves[s].snapshot)
        BY <3>1 DEF NetWorths
      <3>3. QED
        BY <3>1, <3>2
    <2>3. QED
      BY <1>1, <2>1, <2>2
  <1>2. ASSUME NEW s \in Savers, InFlight(s)' PROVE AddsUp(saves'[s].snapshot)
    <2>1. \/ AddsUp(saves'[s].snapshot)
          \/ (InFlight(s) /\ saves'[s].snapshot = saves[s].snapshot)
      BY <1>2
    <2>2. QED
      BY <2>1 DEF NetWorths
  <1>3. QED
    BY <1>1, <1>2 DEF NetWorths, AddsUp

\* The snapshot is written first: its save has the rest to write.
LEMMA UpsertSnapshotTogether ==
    ASSUME SaverOK, Alone, NetWorths, SavedTogether, NEW s \in Savers, UpsertSnapshot(s),
           NEW g, NEW d, g = saves[s].group, d = saves[s].day
    PROVE  NetWorths' /\ SavedTogether'
  <1>1. /\ SaverOK' /\ g \in Groups /\ d \in Days
        /\ disturbed \subseteq disturbed' /\ UNCHANGED <<now, analytics, cut>>
        /\ saves[s].step = "upsert"
        /\ \A t \in Savers \ {s} : saves'[t] = saves[t]
        /\ \A h \in Groups, e \in Days : <<h, e>> # <<g, d>> =>
             snapshots'[h][e] = snapshots[h][e]
        /\ snapshots'[g][d] \in {snapshots[g][d], saves[s].snapshot}
        /\ \/ /\ saves'[s] = [saves[s] EXCEPT !.step = "previous"]
              /\ snapshots'[g][d] = saves[s].snapshot
           \/ /\ Fault /\ <<g, d>> \in disturbed'
              /\ saves'[s] = IF s = Sweeper THEN NoSave
                             ELSE [saves[s] EXCEPT !.step = "sync"]
        /\ <<g, d>> \notin disturbed' => Today = d
    BY UpsertSnapshotDoes
  <1>2. UNCHANGED <<syncs, swept>>
    BY DEF UpsertSnapshot, SaveStep
  <1>3. DOMAIN saves[s] = SaveFields /\ InFlight(s)
    BY <1>1 DEF SaverOK, SavesOK, SaveOK, InFlight
  <1>4. /\ saves'[s].step # "idle" =>
             /\ saves'[s].group = g /\ saves'[s].day = d
             /\ saves'[s].snapshot = saves[s].snapshot
        /\ Undisturbed(g, d)' =>
             /\ saves'[s].step = "previous" /\ snapshots'[g][d] = saves[s].snapshot
             /\ Saved(s, g, d)' /\ ToSync(s, g, d)'
    BY <1>1, <1>3 DEF NoSave, SaveFields, Undisturbed, Saved, ToSync, AtStep
  <1>5. NetWorths'
    <2>1. \A h \in Groups, e \in Days :
             \/ snapshots'[h][e] \in {snapshots[h][e], None}
             \/ \E t \in Savers : InFlight(t) /\ snapshots'[h][e] = saves[t].snapshot
      BY <1>1, <1>3
    <2>2. \A t \in Savers : InFlight(t)' => InFlight(t) /\ saves'[t].snapshot = saves[t].snapshot
      BY <1>1, <1>3, <1>4 DEF InFlight
    <2>3. QED
      BY <2>1, <2>2, NetWorthsKept
  <1>6. ASSUME Undisturbed(g, d)' PROVE Together(g, d)'
    <2>1. ASSUME NEW t \in Savers, AtStep(t, g, d, {"sync"})' PROVE FALSE
      <3>1. t # s
        BY <1>4, <1>6, <2>1 DEF AtStep
      <3>2. SaveOf(t, g, d)
        BY <1>1, <2>1, <3>1 DEF AtStep, SaveOf, InFlight
      <3>3. SaveOf(s, g, d)
        BY <1>3 DEF SaveOf
      <3>4. <<g, d>> \in disturbed
        BY <1>1, <3>1, <3>2, <3>3 DEF Alone
      <3>5. QED
        BY <1>1, <1>6, <3>4 DEF Undisturbed
    <2>2. (\E t \in Savers : Saved(t, g, d))' /\ (\E t \in Savers : ToSync(t, g, d))'
      BY <1>4, <1>6
    <2>3. QED
      BY <2>1, <2>2 DEF Together
  <1>7. SavedTogether'
    BY <1>1, <1>2, <1>4, <1>6, OneDayWritten
  <1>8. QED
    BY <1>5, <1>7

\* The analytics are computed from the snapshot that is stored.
LEMMA UpsertAnalyticsTogether ==
    ASSUME SaverOK, Alone, OwnSnapshot, NetWorths, SavedTogether, SweptBySweeper,
           NEW s \in Savers, UpsertAnalytics(s),
           NEW g, NEW d, g = saves[s].group, d = saves[s].day
    PROVE  NetWorths' /\ SavedTogether'
  <1>1. /\ SaverOK' /\ g \in Groups /\ d \in Days
        /\ disturbed \subseteq disturbed' /\ UNCHANGED <<now, snapshots, cut>>
        /\ saves[s].step = "analytics"
        /\ \A t \in Savers \ {s} : saves'[t] = saves[t]
        /\ saves'[s] = IF s = Sweeper THEN NoSave ELSE [saves[s] EXCEPT !.step = "sync"]
        /\ \A h \in Groups, e \in Days : <<h, e>> # <<g, d>> =>
             analytics'[h][e] = analytics[h][e]
        /\ analytics'[g][d] \in {analytics[g][d], Merged(s)}
        /\ <<g, d>> \notin disturbed' => Today = d /\ analytics'[g][d] = Merged(s)
    BY UpsertAnalyticsDoes
  <1>2. UNCHANGED <<syncs, swept>>
    BY DEF UpsertAnalytics, SaveStep
  <1>3. DOMAIN saves[s] = SaveFields /\ InFlight(s) /\ SaveOK(saves[s])
        /\ saves[s].snapshot \in Snapshot
    BY <1>1 DEF SaverOK, SavesOK, SaveOK, InFlight, SnapshotBy
  <1>4. /\ s = Sweeper => saves'[s].step = "idle"
        /\ s # Sweeper => /\ saves'[s].step = "sync" /\ saves'[s].group = g
                          /\ saves'[s].day = d /\ saves'[s].snapshot = saves[s].snapshot
    BY <1>1, <1>3 DEF NoSave, SaveFields
  <1>5. Merged(s) # None /\ Describes(Merged(s), saves[s].snapshot)
    <2>1. Merged(s) \in Analytics /\ Describes(Merged(s), saves[s].snapshot)
      BY <1>1, <1>3, StoredIsComputed, ComputedType DEF SaverOK, Computed, SaveOK, Describes, SharesOf
    <2>2. QED
      BY <2>1, AnalyticsAssumption
  <1>6. Saved(s, g, d) /\ SaveOf(s, g, d)
    BY <1>1, <1>3 DEF Saved, SaveOf, AtStep
  <1>7. s = Sweeper => <<g, d>> \in swept
    BY <1>3 DEF SweptBySweeper
  <1>8. NetWorths'
    <2>1. \A t \in Savers : InFlight(t)' => InFlight(t) /\ saves'[t].snapshot = saves[t].snapshot
      BY <1>1, <1>3, <1>4 DEF InFlight
    <2>2. QED
      BY <1>1, <2>1, NetWorthsKept
  <1>9. ASSUME Undisturbed(g, d)', snapshots'[g][d] # None PROVE Together(g, d)'
    <2>1. Undisturbed(g, d) /\ snapshots[g][d] = saves[s].snapshot
      BY <1>1, <1>6, <1>9 DEF OwnSnapshot, Undisturbed
    <2>2. analytics'[g][d] # None /\ Describes(analytics'[g][d], snapshots'[g][d])
      BY <1>1, <1>5, <1>9, <2>1 DEF Undisturbed
    <2>3. ASSUME NEW t \in Savers, AtStep(t, g, d, {"sync"})'
          PROVE  snapshots'[g][d] = saves'[t].snapshot
      <3>1. CASE t = s
        BY <1>1, <1>4, <2>1, <2>3, <3>1 DEF AtStep
      <3>2. CASE t # s
        <4>1. SaveOf(t, g, d)
          BY <1>1, <2>3, <3>2 DEF AtStep, SaveOf, InFlight
        <4>2. QED
          BY <1>1, <1>6, <2>1, <3>2, <4>1 DEF Alone, Undisturbed
      <3>3. QED
        BY <3>1, <3>2
    <2>4. \/ <<g, d>> \in swept'
          \/ \E t \in Savers : ToSync(t, g, d)'
      <3>1. CASE s = Sweeper
        BY <1>2, <1>7, <3>1
      <3>2. CASE s # Sweeper
        BY <1>4, <3>2 DEF ToSync, AtStep
      <3>3. QED
        BY <3>1, <3>2
    <2>5. QED
      BY <2>2, <2>3, <2>4 DEF Together, Describes
  <1>10. SavedTogether'
    <2>1. /\ saves'[s].step # "idle" => saves'[s].group = g /\ saves'[s].day = d
          /\ swept \subseteq swept'
      BY <1>2, <1>4
    <2>2. \A h \in Groups, e \in Days : <<h, e>> # <<g, d>> =>
             /\ snapshots'[h][e] = snapshots[h][e] /\ analytics'[h][e] = analytics[h][e]
             /\ Undisturbed(h, e)' => InRange(syncs'[h], e, e) = InRange(syncs[h], e, e)
      BY <1>1, <1>2
    <2>3. /\ disturbed \subseteq disturbed' /\ \A t \in Savers \ {s} : saves'[t] = saves[t]
          /\ saves[s].group = g /\ saves[s].day = d
      BY <1>1
    <2>4. g \in Groups /\ d \in Days /\ Undisturbed(g, d)' /\ snapshots'[g][d] # None =>
             Together(g, d)'
      BY <1>9
    <2>5. QED
      BY ONLY SavedTogether, s \in Savers, <2>1, <2>2, <2>3, <2>4, OneDayWritten
  <1>11. QED
    BY <1>8, <1>10

\* The worker inserts the sync snapshot of the day it saved, or disturbs the
\* day it is.
LEMMA InsertSyncTogether ==
    ASSUME SaverOK, Alone, NetWorths, SavedTogether, NEW w \in Workers, InsertSync(w),
           NEW g, NEW d, g = saves[w].group, d = saves[w].day
    PROVE  NetWorths' /\ SavedTogether'
  <1>1. w \in Savers /\ w # Sweeper
    BY DailySnapshotsAssumption DEF Savers
  <1>2. /\ saves[w].step = "sync" /\ SaveOK(saves[w]) /\ SavesOK
        /\ UNCHANGED <<snapshots, analytics, swept>>
    BY <1>1 DEF InsertSync, SaverOK, SavesOK
  <1>3. /\ SaverOK' /\ disturbed \subseteq disturbed'
        /\ \A t \in Savers \ {w} : saves'[t] = saves[t]
    BY InsertSyncDoes
  <1>4. saves'[w] = [saves[w] EXCEPT !.step = "synced"]
    BY <1>1, <1>2 DEF InsertSync, Goes, SavesOK
  <1>5. /\ saves'[w].step = "synced" /\ saves'[w].group = g /\ saves'[w].day = d
        /\ saves'[w].snapshot = saves[w].snapshot /\ g \in Groups /\ d \in Days
        /\ saves[w].snapshot \in Snapshot
    BY <1>2, <1>4 DEF SaveOK, SaveFields, SnapshotBy
  <1> DEFINE entry == [day |-> Today, syncedAt |-> now, total |-> saves[w].snapshot.total]
  <1>6. PICK failed \in BOOLEAN :
          /\ disturbed' = IF Today = d THEN Disturbance(w, failed)
                          ELSE Disturbance(w, failed) \cup {<<g, Today>>}
          /\ syncs' = IF failed THEN syncs
                      ELSE [syncs EXCEPT ![g] = Append(@, entry)]
    BY DEF InsertSync
  <1>7. syncs \in [Groups -> Seq(Sync)] /\ now \in Nat /\ Today \in Days
    BY TodayType DEF SaverOK, DocumentsOK
  <1>8. entry \in Sync /\ entry.day = Today /\ entry.total = saves[w].snapshot.total
    BY <1>5, <1>7 DEF Sync, Snapshot
  <1> HIDE DEF entry
  <1>9. syncs' # syncs => /\ syncs'[g] = Append(syncs[g], entry)
                          /\ \A h \in Groups \ {g} : syncs'[h] = syncs[h]
                          /\ <<g, Today>> \notin disturbed' => Today = d
    BY <1>5, <1>6, <1>7
  <1>10. Undisturbed(g, d)' => ~failed /\ Today = d
    BY <1>6 DEF Undisturbed, Disturbance
  <1>11. ASSUME NEW h \in Groups, NEW e \in Days, <<h, e>> # <<g, d>>, Undisturbed(h, e)'
         PROVE  InRange(syncs'[h], e, e) = InRange(syncs[h], e, e)
    <2>1. CASE syncs' = syncs \/ h # g
      BY <1>9, <2>1
    <2>2. CASE syncs' # syncs /\ h = g
      <3>1. e # Today /\ syncs'[h] = Append(syncs[h], entry) /\ syncs[h] \in Seq(Sync)
        BY <1>7, <1>9, <1>11, <2>2 DEF Undisturbed
      <3>2. e \in Int
        BY DaysType
      <3>3. QED
        BY <1>8, <3>1, <3>2, LatestAppended
    <2>3. QED
      BY <2>1, <2>2
  <1>12. ASSUME Undisturbed(g, d)', snapshots'[g][d] # None PROVE Together(g, d)'
    <2>1. Undisturbed(g, d) /\ Together(g, d) /\ SaveOf(w, g, d)
      BY <1>2, <1>3, <1>5, <1>12 DEF Undisturbed, SavedTogether, SaveOf, InFlight
    <2>2. snapshots[g][d] = saves[w].snapshot
      BY <1>1, <1>2, <2>1 DEF Together, AtStep
    <2>3. ASSUME NEW t \in Savers, t # w PROVE ~SaveOf(t, g, d)
      BY <1>1, <1>5, <2>1, <2>3 DEF Alone, Undisturbed
    <2>4. analytics'[g][d] # None /\ Describes(analytics'[g][d], snapshots'[g][d])
      <3>1. ASSUME NEW t \in Savers PROVE ~Saved(t, g, d)
        <4>1. CASE t = w
          BY <1>2, <4>1 DEF Saved, AtStep
        <4>2. CASE t # w
          BY <2>3, <4>2 DEF Saved, AtStep, SaveOf, InFlight
        <4>3. QED
          BY <4>1, <4>2
      <3>2. QED
        BY <1>2, <2>1, <3>1 DEF Together
    <2>5. ASSUME NEW t \in Savers, AtStep(t, g, d, {"sync"})' PROVE FALSE
      <3>1. t # w
        BY <1>5, <2>5 DEF AtStep
      <3>2. SaveOf(t, g, d)
        BY <1>3, <2>5, <3>1 DEF AtStep, SaveOf, InFlight
      <3>3. QED
        BY <2>3, <3>1, <3>2
    <2>6. LatestSyncIs(syncs'[g], d, snapshots'[g][d].total)
      <3>1. Today = d /\ syncs'[g] = Append(syncs[g], entry) /\ syncs[g] \in Seq(Sync)
        BY <1>5, <1>6, <1>7, <1>10, <1>12
      <3>2. d \in Int
        BY <1>5, DaysType
      <3>3. LatestSyncIs(Append(syncs[g], entry), d, entry.total)
        BY <1>8, <3>1, <3>2, LatestAppended
      <3>4. QED
        BY <1>2, <1>8, <2>2, <3>1, <3>3
    <2>7. QED
      BY <2>4, <2>5, <2>6 DEF Together, Describes
  <1>13. SavedTogether'
    <2>1. saves'[w].step # "idle" => saves'[w].group = g /\ saves'[w].day = d
      BY <1>5
    <2>2. \A h \in Groups, e \in Days : <<h, e>> # <<g, d>> =>
             /\ snapshots'[h][e] = snapshots[h][e] /\ analytics'[h][e] = analytics[h][e]
             /\ Undisturbed(h, e)' => InRange(syncs'[h], e, e) = InRange(syncs[h], e, e)
      BY <1>2, <1>11
    <2>3. swept \subseteq swept'
      BY <1>2
    <2>4. QED
      BY <1>1, <1>3, <1>12, <2>1, <2>2, <2>3, OneDayWritten
  <1>14. NetWorths'
    <2>1. \A t \in Savers : InFlight(t)' => InFlight(t) /\ saves'[t].snapshot = saves[t].snapshot
      BY <1>3, <1>5 DEF InFlight
    <2>2. QED
      BY <1>2, <2>1, NetWorthsKept
  <1>15. QED
    BY <1>13, <1>14

----------------------------------------------------------------------------
(* Retention.                                                              *)

\* Retention deletes what is left of days without a snapshot.
LEMMA RetentionTogether ==
    ASSUME NetWorths, SavedTogether, UNCHANGED <<saves, snapshots, disturbed, swept>>,
           \A g \in Groups, d \in Days : Undisturbed(g, d) /\ snapshots[g][d] # None =>
             /\ analytics'[g][d] = analytics[g][d]
             /\ InRange(syncs'[g], d, d) = InRange(syncs[g], d, d)
    PROVE  NetWorths' /\ SavedTogether'
  <1>1. NetWorths'
    BY DEF NetWorths, InFlight
  <1>2. ASSUME NEW g \in Groups, NEW d \in Days, Undisturbed(g, d)', snapshots'[g][d] # None
        PROVE  Together(g, d)'
    <2>1. Undisturbed(g, d) /\ Together(g, d)
      BY <1>2 DEF SavedTogether, Undisturbed
    <2>2. ASSUME NEW s \in Savers
          PROVE  /\ Saved(s, g, d) => Saved(s, g, d)'
                 /\ ToSync(s, g, d) => ToSync(s, g, d)'
                 /\ AtStep(s, g, d, {"sync"})' =>
                        AtStep(s, g, d, {"sync"}) /\ saves'[s].snapshot = saves[s].snapshot
      BY DEF Saved, ToSync, AtStep
    <2>3. /\ swept \subseteq swept' /\ snapshots'[g][d] = snapshots[g][d]
          /\ analytics'[g][d] = analytics[g][d]
          /\ InRange(syncs'[g], d, d) = InRange(syncs[g], d, d)
      BY <1>2, <2>1
    <2>4. QED
      BY <2>1, <2>2, <2>3, TogetherKept
  <1>3. QED
    BY <1>1, <1>2 DEF SavedTogether

LEMMA DeleteOldAnalyticsTogether ==
    ASSUME NetWorths, SavedTogether, Retained, DeleteOldAnalytics
    PROVE  NetWorths' /\ SavedTogether'
  <1>1. /\ UNCHANGED <<saves, snapshots, disturbed, swept, syncs>> /\ sweep.step = "analytics"
        /\ analytics' = Kept(analytics) \/ UNCHANGED analytics
    BY DEF DeleteOldAnalytics, Retention, RestUnchanged
  <1>2. ASSUME NEW g \in Groups, NEW d \in Days, Undisturbed(g, d), snapshots[g][d] # None
        PROVE  analytics'[g][d] = analytics[g][d]
    <2>1. ~(d < sweep.day)
      BY <1>1, <1>2 DEF Retained
    <2>2. QED
      BY <1>1, <2>1 DEF Kept
  <1>3. QED
    BY <1>1, <1>2, RetentionTogether

LEMMA DeleteOldSyncsTogether ==
    ASSUME SaverOK, NetWorths, SavedTogether, Retained, DeleteOldSyncs
    PROVE  NetWorths' /\ SavedTogether'
  <1>1. /\ UNCHANGED <<saves, snapshots, disturbed, swept, analytics>> /\ sweep.step = "syncs"
        /\ \/ syncs' = [g \in Groups |-> InRange(syncs[g], sweep.day, LastDay)]
           \/ UNCHANGED syncs
    BY DEF DeleteOldSyncs, Retention, RestUnchanged
  <1>2. ASSUME NEW g \in Groups, NEW d \in Days, Undisturbed(g, d), snapshots[g][d] # None
        PROVE  InRange(syncs'[g], d, d) = InRange(syncs[g], d, d)
    <2>1. ~(d < sweep.day) /\ sweep.day \in Int
      BY <1>1, <1>2 DEF Retained
    <2>2. d \in Int /\ LastDay \in Int /\ d <= LastDay /\ sweep.day <= d
      BY <2>1, DaysType
    <2>3. syncs[g] \in Seq(Sync)
      BY DEF SaverOK, DocumentsOK
    <2>4. CASE syncs' = [h \in Groups |-> InRange(syncs[h], sweep.day, LastDay)]
      <3>1. PICK from \in Int : from = sweep.day
        BY <2>1
      <3>2. InRange(InRange(syncs[g], from, LastDay), d, d) = InRange(syncs[g], d, d)
        BY <2>2, <2>3, <3>1, InRangeTwice
      <3>3. syncs'[g] = InRange(syncs[g], from, LastDay)
        BY <2>4, <3>1
      <3>4. QED
        BY <3>2, <3>3
    <2>5. QED
      BY <1>1, <2>4
  <1>3. QED
    BY <1>1, <1>2, RetentionTogether

----------------------------------------------------------------------------
(* Every step keeps the documents of a day together.                       *)

\* A save that begins holds what its positions are worth; the snapshot job
\* has then swept the day.
LEMMA BeginSaveAddsUp ==
    ASSUME SaverOK, NEW s \in Savers, NEW g \in Groups, NEW results \in Seq(Results),
           BeginSave(s, g, results)
    PROVE  /\ AddsUp(saves'[s].snapshot) /\ swept \subseteq swept'
           /\ s = Sweeper => <<saves'[s].group, saves'[s].day>> \in swept'
  <1> DEFINE x == [NoSave EXCEPT !.step = "upsert", !.group = g, !.day = Today,
                                 !.snapshot = FromResults(results)]
  <1>1. saves'[s] = x
    BY DEF BeginSave, SaverOK, SavesOK
  <1>2. x.group = g /\ x.day = Today /\ x.snapshot = FromResults(results)
    BY DEF NoSave
  <1> HIDE DEF x
  <1>3. AddsUp(FromResults(results))
    <2>1. now \in Nat
      BY TodayType DEF SaverOK
    <2>2. QED
      BY <2>1, FromResultsType DEF AddsUp
  <1>4. swept \subseteq swept' /\ (s = Sweeper => <<g, Today>> \in swept')
    BY DEF BeginSave
  <1>5. QED
    BY <1>1, <1>2, <1>3, <1>4

\* Within one sweep the day of retention stays, and a snapshot is written to
\* the day it is, or to a disturbed one.
LEMMA RetainedStays ==
    ASSUME SaverOK, SaverOK', Retained, UNCHANGED <<now, sweep>>, disturbed \subseteq disturbed',
           \A g \in Groups, d \in Days :
             \/ snapshots'[g][d] \in {snapshots[g][d], None}
             \/ <<g, d>> \in disturbed' \/ d = Today
    PROVE  Retained'
  <1>1. Today' = Today /\ Today \in Int /\ Days \subseteq Int
    BY TodayType, DaysType DEF SaverOK, Today
  <1>2. ASSUME sweep.step \in {"analytics", "syncs"}, NEW g \in Groups, NEW d \in Days,
               d < sweep.day, Undisturbed(g, d)'
        PROVE  snapshots'[g][d] = None
    <2>1. Undisturbed(g, d) /\ snapshots[g][d] = None
      BY <1>2 DEF Retained, Undisturbed
    <2>2. d # Today
      BY <1>1, <1>2 DEF Retained
    <2>3. QED
      BY <1>2, <2>1, <2>2 DEF Undisturbed
  <1>3. QED
    BY <1>1, <1>2 DEF Retained

\* What a step of a save changes besides the documents it writes.
LEMMA SaveStepKeeps ==
    ASSUME SaverOK, NEW s \in Savers, SaveDailySnapshot(s)
    PROVE  /\ SaverOK' /\ UNCHANGED <<now, syncs, swept>> /\ disturbed \subseteq disturbed'
           /\ \A t \in Savers \ {s} : saves'[t] = saves[t]
           /\ InFlight(s)
           /\ InFlight(s)' => saves'[s].group = saves[s].group /\ saves'[s].day = saves[s].day
           /\ \A h \in Groups, e \in Days :
                snapshots'[h][e] = snapshots[h][e] \/ <<h, e>> \in disturbed' \/ e = Today
  <1>1. UNCHANGED <<now, syncs, swept>> /\ InFlight(s)
    BY DEF SaveDailySnapshot, UpsertSnapshot, ReadPrevious, ReadFirst, ReadTotals,
           UpsertAnalytics, SaveStep, InFlight
  <1>2. DOMAIN saves[s] = SaveFields
    BY DEF SaverOK, SavesOK, SaveOK
  <1>3. PICK g, d : g = saves[s].group /\ d = saves[s].day
    OBVIOUS
  <1>4. CASE UpsertSnapshot(s)
    <2>1. /\ SaverOK' /\ g \in Groups /\ d \in Days
          /\ disturbed \subseteq disturbed'
          /\ \A t \in Savers \ {s} : saves'[t] = saves[t]
          /\ \A h \in Groups, e \in Days : <<h, e>> # <<g, d>> =>
               snapshots'[h][e] = snapshots[h][e]
          /\ \/ saves'[s] = [saves[s] EXCEPT !.step = "previous"]
             \/ saves'[s] = IF s = Sweeper THEN NoSave ELSE [saves[s] EXCEPT !.step = "sync"]
          /\ <<g, d>> \notin disturbed' => Today = d
      BY <1>3, <1>4, UpsertSnapshotDoes
    <2>2. InFlight(s)' => saves'[s].group = saves[s].group /\ saves'[s].day = saves[s].day
      BY <1>2, <2>1 DEF InFlight, NoSave, SaveFields
    <2>3. QED
      BY <1>1, <2>1, <2>2
  <1>5. CASE ReadPrevious(s) \/ ReadFirst(s) \/ ReadTotals(s)
    <2>1. /\ SaverOK' /\ disturbed \subseteq disturbed' /\ UNCHANGED snapshots
          /\ \A t \in Savers \ {s} : saves'[t] = saves[t]
          /\ saves'[s].group = g /\ saves'[s].day = d
      <3>1. CASE ReadPrevious(s)
        BY <1>3, <3>1, ReadPreviousDoes
      <3>2. CASE ReadFirst(s)
        BY <1>3, <3>2, ReadFirstDoes
      <3>3. CASE ReadTotals(s)
        BY <1>3, <3>3, ReadTotalsDoes
      <3>4. QED
        BY <1>5, <3>1, <3>2, <3>3
    <2>2. QED
      BY <1>1, <1>3, <2>1
  <1>6. CASE UpsertAnalytics(s)
    <2>1. /\ SaverOK' /\ disturbed \subseteq disturbed' /\ UNCHANGED snapshots
          /\ \A t \in Savers \ {s} : saves'[t] = saves[t]
          /\ saves'[s] = IF s = Sweeper THEN NoSave ELSE [saves[s] EXCEPT !.step = "sync"]
      BY <1>3, <1>6, UpsertAnalyticsDoes
    <2>2. InFlight(s)' => saves'[s].group = saves[s].group /\ saves'[s].day = saves[s].day
      BY <1>2, <2>1 DEF InFlight, NoSave, SaveFields
    <2>3. QED
      BY <1>1, <2>1, <2>2
  <1>7. QED
    BY <1>4, <1>5, <1>6 DEF SaveDailySnapshot

\* A step of one save that writes nothing.
LEMMA OneSaveReads ==
    ASSUME NetWorths, SavedTogether, NEW s \in Savers,
           UNCHANGED <<snapshots, analytics, syncs>>,
           disturbed \subseteq disturbed', swept \subseteq swept',
           \A t \in Savers \ {s} : saves'[t] = saves[t],
           \/ saves'[s] = saves[s] \/ Dropped(s) \/ Reading(s)
           \/ Begun(s) /\ AddsUp(saves'[s].snapshot)
    PROVE  NetWorths' /\ SavedTogether'
  <1>1. OnlyReads
    BY DEF OnlyReads
  <1>2. QED
    BY <1>1, OnlyReadsKeep

LEMMA SaveStepAgrees ==
    ASSUME SaverOK, DaysInv, AgreesInv, NEW s \in Savers, SaveDailySnapshot(s), UNCHANGED sweep
    PROVE  AgreesInv'
  <1>0. NetWorths /\ SavedTogether /\ SweptBySweeper /\ Retained /\ Alone /\ OwnSnapshot
    BY DEF AgreesInv, DaysInv
  <1>1. /\ SaverOK' /\ UNCHANGED <<now, syncs, swept>> /\ disturbed \subseteq disturbed'
        /\ \A t \in Savers \ {s} : saves'[t] = saves[t]
        /\ InFlight(s)
        /\ InFlight(s)' => saves'[s].group = saves[s].group /\ saves'[s].day = saves[s].day
        /\ \A h \in Groups, e \in Days :
             snapshots'[h][e] = snapshots[h][e] \/ <<h, e>> \in disturbed' \/ e = Today
    BY SaveStepKeeps
  <1>2. PICK g, d : g = saves[s].group /\ d = saves[s].day
    OBVIOUS
  <1>3. NetWorths' /\ SavedTogether'
    <2>1. CASE UpsertSnapshot(s)
      BY <1>0, <1>2, <2>1, UpsertSnapshotTogether
    <2>2. CASE ReadPrevious(s) \/ ReadFirst(s) \/ ReadTotals(s)
      <3>1. UNCHANGED <<snapshots, analytics>>
        BY <2>2 DEF ReadPrevious, ReadFirst, ReadTotals
      <3>2. Reading(s)
        <4>1. CASE ReadPrevious(s)
          BY <1>2, <4>1, ReadPreviousDoes DEF Reading, SavedSteps
        <4>2. CASE ReadFirst(s)
          BY <1>2, <4>2, ReadFirstDoes DEF Reading, SavedSteps
        <4>3. CASE ReadTotals(s)
          BY <1>2, <4>3, ReadTotalsDoes DEF Reading, SavedSteps
        <4>4. QED
          BY <2>2, <4>1, <4>2, <4>3
      <3>3. swept \subseteq swept'
        BY <1>1
      <3>4. QED
        BY <1>0, <1>1, <3>1, <3>2, <3>3, OneSaveReads
    <2>3. CASE UpsertAnalytics(s)
      BY <1>0, <1>2, <2>3, UpsertAnalyticsTogether
    <2>4. QED
      BY <2>1, <2>2, <2>3 DEF SaveDailySnapshot
  <1>4. SweptBySweeper'
    <2>1. CASE s = Sweeper
      BY <1>0, <1>1, <2>1 DEF SweptBySweeper
    <2>2. CASE s # Sweeper
      <3>1. saves'[Sweeper] = saves[Sweeper]
        BY <1>1, <2>2 DEF Savers
      <3>2. QED
        BY <1>0, <1>1, <3>1 DEF SweptBySweeper, InFlight
    <2>3. QED
      BY <2>1, <2>2
  <1>5. Retained'
    <2>1. \A h \in Groups, e \in Days :
             \/ snapshots'[h][e] \in {snapshots[h][e], None}
             \/ <<h, e>> \in disturbed' \/ e = Today
      BY <1>1
    <2>2. QED
      BY <1>0, <1>1, <2>1, RetainedStays
  <1>6. QED
    BY <1>3, <1>4, <1>5 DEF AgreesInv

\* The other steps of a worker, and its crash.
LEMMA WorkerAgrees ==
    ASSUME SaverOK, DaysInv, AgreesInv, NEW w \in Workers, SaverStep(w)
    PROVE  AgreesInv'
  <1>0. NetWorths /\ SavedTogether /\ SweptBySweeper /\ Retained /\ Alone
    BY DEF AgreesInv, DaysInv
  <1>1. w \in Savers /\ Sweeper \in Savers \ {w} /\ UNCHANGED sweep
    BY DailySnapshotsAssumption DEF Savers, SaverStep, sweepVars
  <1>2. CASE SaveDailySnapshot(w)
    BY <1>1, <1>2, SaveStepAgrees
  <1>3. ASSUME SaverOK', UNCHANGED <<now, snapshots>>, disturbed \subseteq disturbed',
               \A t \in Savers \ {w} : saves'[t] = saves[t], swept \subseteq swept',
               NetWorths', SavedTogether'
        PROVE  AgreesInv'
    <2>1. saves'[Sweeper] = saves[Sweeper]
      BY <1>1, <1>3
    <2>2. SweptBySweeper'
      BY <1>0, <1>3, <2>1 DEF SweptBySweeper, InFlight
    <2>3. Retained'
      BY <1>0, <1>1, <1>3, RetainedStays
    <2>4. QED
      BY <1>3, <2>2, <2>3 DEF AgreesInv
  <1>4. ASSUME NEW g \in Groups, CompleteJob(w, g) PROVE AgreesInv'
    <2>1. /\ SaverOK' /\ disturbed \subseteq disturbed'
          /\ UNCHANGED <<now, snapshots, analytics>>
          /\ \A t \in Savers \ {w} : saves'[t] = saves[t]
          /\ saves[w].step = "idle"
          /\ saves'[w].step = "upsert" /\ saves'[w].group = g /\ saves'[w].day = Today
          /\ Saving(g, Today) => <<g, Today>> \in disturbed'
      BY <1>4, CompleteJobDoes
    <2>2. UNCHANGED syncs /\ \E results \in JobResults : BeginSave(w, g, results)
      BY <1>4 DEF CompleteJob
    <2>3. JobResults \subseteq Seq(Results)
      BY DailySnapshotsAssumption
    <2>4. AddsUp(saves'[w].snapshot) /\ swept \subseteq swept'
      BY <1>1, <2>2, <2>3, BeginSaveAddsUp
    <2>5. Begun(w)
      BY <2>1 DEF Begun, InFlight
    <2>6. NetWorths' /\ SavedTogether'
      BY <1>0, <1>1, <2>1, <2>2, <2>4, <2>5, OneSaveReads
    <2>7. QED
      BY <1>3, <2>1, <2>4, <2>6
  <1>5. CASE InsertSync(w)
    <2>1. /\ SaverOK' /\ disturbed \subseteq disturbed' /\ UNCHANGED <<now, snapshots>>
          /\ \A t \in Savers \ {w} : saves'[t] = saves[t]
      BY <1>5, InsertSyncDoes
    <2>2. UNCHANGED swept
      BY <1>5 DEF InsertSync
    <2>3. NetWorths' /\ SavedTogether'
      BY <1>0, <1>5, InsertSyncTogether
    <2>4. QED
      BY <1>3, <2>1, <2>2, <2>3
  <1>6. CASE MarkSynced(w) \/ CrashWorker(w)
    <2>1. /\ SaverOK' /\ disturbed \subseteq disturbed'
          /\ UNCHANGED <<now, snapshots, analytics>>
          /\ \A t \in Savers \ {w} : saves'[t] = saves[t]
      BY <1>6, MarkSyncedDoes, CrashWorkerOK
    <2>2. UNCHANGED <<syncs, swept>> /\ saves' = [saves EXCEPT ![w] = NoSave]
      BY <1>6 DEF MarkSynced, CrashWorker
    <2>3. Dropped(w)
      <3>1. saves'[w].step = "idle"
        BY <1>1, <2>2 DEF SaverOK, SavesOK, NoSave
      <3>2. InFlight(w) => <<saves[w].group, saves[w].day>> \in disturbed'
        BY <1>6 DEF MarkSynced, CrashWorker, InFlight
      <3>3. QED
        BY <3>1, <3>2 DEF Dropped, InFlight
    <2>4. NetWorths' /\ SavedTogether'
      BY <1>0, <1>1, <2>1, <2>2, <2>3, OneSaveReads
    <2>5. QED
      BY <1>3, <2>1, <2>2, <2>4
  <1>7. QED
    BY <1>2, <1>4, <1>5, <1>6 DEF SaverStep, WorkerStep

\* The snapshot job.
LEMMA SweepAgrees ==
    ASSUME SaverOK, SweepOK, DaysInv, AgreesInv, SweepStep
    PROVE  AgreesInv'
  <1>0. NetWorths /\ SavedTogether /\ SweptBySweeper /\ Retained
    BY DEF AgreesInv
  <1>1. Sweeper \in Savers
    BY DEF Savers
  <1>2. ASSUME UNCHANGED <<snapshots, analytics, syncs, saves, disturbed, swept>>, Retained'
        PROVE  AgreesInv'
    <2>1. OnlyReads
      BY <1>2 DEF OnlyReads
    <2>2. SweptBySweeper'
      BY <1>0, <1>2 DEF SweptBySweeper, InFlight
    <2>3. QED
      BY <1>0, <1>2, <2>1, <2>2, OnlyReadsKeep DEF AgreesInv
  <1>3. ASSUME NEW g \in Groups, Backfill(g) PROVE AgreesInv'
    <2>1. /\ UNCHANGED <<now, snapshots, analytics, syncs, saves, disturbed, swept>>
          /\ sweep'.step = "fill"
      BY <1>3 DEF Backfill, RestUnchanged, SweepOK, SweepFields
    <2>2. QED
      BY <1>2, <2>1 DEF Retained
  <1>4. CASE FindLacking \/ ListAll \/ FindMissing \/ \E pair \in Pair : ProcessPair(pair)
    <2>1. UNCHANGED <<snapshots, analytics, syncs, saves, disturbed, swept>>
      BY <1>4 DEF FindLacking, ListAll, FindMissing, ProcessPair, snapshotVars
    <2>2. sweep'.step \in {"idle", "fill", "recent", "groups"}
      <3>1. CASE FindLacking
        BY <3>1 DEF FindLacking, NoSweep
      <3>2. CASE ListAll
        <4>1. CASE GiveUp
          BY <4>1 DEF GiveUp, NoSweep
        <4>2. CASE sweep' = [sweep EXCEPT !.day = Today,
                               !.step = IF ListGroups = {} THEN "groups" ELSE "recent",
                               !.listed = [g \in ListGroups |-> groups[g]]]
          BY <4>2 DEF SweepOK, SweepFields
        <4>3. QED
          BY <3>2, <4>1, <4>2 DEF ListAll
      <3>3. CASE FindMissing
        <4> DEFINE missing == {g \in DOMAIN sweep.listed :
                                  ~RecentlySaved(g) /\ IsActiveGroup(sweep.listed[g])}
        <4>1. CASE GiveUp
          BY <4>1 DEF GiveUp, NoSweep
        <4>2. CASE sweep' = [sweep EXCEPT !.missing = missing, !.due = missing,
                               !.listed = [g \in missing |-> @[g]],
                               !.step = "groups",
                               !.pairs = UNION {PairsOf(sweep.listed[g].wallets) :
                                                g \in missing}]
          BY <4>2 DEF SweepOK, SweepFields
        <4>3. QED
          BY <3>3, <4>1, <4>2 DEF FindMissing
      <3>4. CASE \E pair \in Pair : ProcessPair(pair)
        BY <3>4 DEF ProcessPair, SweepOK, SweepFields
      <3>5. QED
        BY <1>4, <3>1, <3>2, <3>3, <3>4
    <2>3. QED
      BY <1>2, <2>1, <2>2 DEF Retained
  <1>5. CASE StartRetention
    <2>1. UNCHANGED <<now, snapshots, analytics, syncs, saves, disturbed, swept>>
      BY <1>5 DEF StartRetention, snapshotVars
    <2>2. sweep'.step = "snapshots" /\ sweep'.day = Today - RetentionDays
      BY <1>5 DEF StartRetention, SweepOK, SweepFields
    <2>3. Today \in Nat /\ RetentionDays \in Nat /\ Today' = Today
      BY <2>1, TodayType, SnapshotSweepAssumption DEF SaverOK, Today
    <2>4. QED
      BY <1>2, <2>1, <2>2, <2>3 DEF Retained
  <1>6. ASSUME NEW g \in Groups, SaveGroup(g) PROVE AgreesInv'
    <2>1. /\ SaverOK' /\ disturbed \subseteq disturbed'
          /\ UNCHANGED <<now, snapshots, analytics>>
          /\ sweep.step = "groups" /\ sweep' = [sweep EXCEPT !.missing = @ \ {g}]
          /\ saves[Sweeper].step = "idle"
          /\ \/ UNCHANGED <<saves, disturbed>>
             \/ /\ \A t \in Savers \ {Sweeper} : saves'[t] = saves[t]
                /\ saves'[Sweeper].step = "upsert" /\ saves'[Sweeper].group = g
                /\ saves'[Sweeper].day = Today
                /\ Saving(g, Today) => <<g, Today>> \in disturbed'
      BY <1>6, SaveGroupOK
    <2>2. PICK got \in SUBSET Written(sweep.listed[g].wallets) :
            IF Collected(got) = <<>> THEN UNCHANGED <<saves, disturbed, swept>>
                                     ELSE BeginSave(Sweeper, g, Collected(got))
      BY <1>6 DEF SaveGroup
    <2>3. Collected(got) \in Seq(Results)
      <3>1. sweep.listed[g].wallets \in SUBSET Accounts
        BY <1>6 DEF SaveGroup, SweepOK, Document
      <3>2. IsFiniteSet(got)
        BY <3>1, PairsAreFinite, FS_Subset
      <3>3. QED
        BY <3>2, CollectedDoes
    <2>4. UNCHANGED syncs
      BY <1>6 DEF SaveGroup
    <2>5. Retained'
      BY <2>1 DEF Retained, SweepOK, SweepFields
    <2>6. CASE UNCHANGED <<saves, disturbed, swept>>
      BY <1>2, <2>1, <2>4, <2>5, <2>6
    <2>7. CASE BeginSave(Sweeper, g, Collected(got))
      <3>1. /\ AddsUp(saves'[Sweeper].snapshot) /\ swept \subseteq swept'
            /\ <<saves'[Sweeper].group, saves'[Sweeper].day>> \in swept'
        BY <1>1, <2>3, <2>7, BeginSaveAddsUp
      <3>2. saves'[Sweeper] = saves[Sweeper] \/ Begun(Sweeper)
        BY <2>1 DEF Begun, InFlight
      <3>3. \A t \in Savers \ {Sweeper} : saves'[t] = saves[t]
        BY <2>1
      <3>4. NetWorths' /\ SavedTogether'
        BY <1>0, <1>1, <2>1, <2>4, <3>1, <3>2, <3>3, OneSaveReads
      <3>5. SweptBySweeper'
        BY <3>1 DEF SweptBySweeper
      <3>6. QED
        BY <2>5, <3>4, <3>5 DEF AgreesInv
    <2>8. QED
      BY <2>2, <2>6, <2>7
  <1>7. CASE SweepSave
    <2>1. SaveDailySnapshot(Sweeper) /\ UNCHANGED sweep
      BY <1>7 DEF SweepSave, sweepVars
    <2>2. QED
      BY <1>1, <2>1, SaveStepAgrees
  <1>8. ASSUME UNCHANGED <<saves, swept>>, NetWorths', SavedTogether', Retained'
        PROVE  AgreesInv'
    BY <1>0, <1>8 DEF AgreesInv, SweptBySweeper, InFlight
  <1>9. CASE DeleteOldSnapshots
    <2>1. /\ UNCHANGED <<now, saves, swept, analytics, syncs>> /\ disturbed \subseteq disturbed'
          /\ sweep.step = "snapshots" /\ sweep' = [sweep EXCEPT !.step = "analytics"]
          /\ \/ snapshots' = Kept(snapshots)
             \/ /\ UNCHANGED snapshots
                /\ disturbed' = disturbed \cup {p \in Groups \X Days : p[2] < sweep.day}
      BY <1>9 DEF DeleteOldSnapshots, Retention, RestUnchanged
    <2>2. \A g \in Groups, d \in Days : snapshots'[g][d] \in {snapshots[g][d], None}
      BY <2>1 DEF Kept
    <2>3. OnlyReads
      BY <2>1, <2>2 DEF OnlyReads
    <2>4. sweep'.step = "analytics" /\ sweep'.day = sweep.day /\ Today' = Today
          /\ sweep.day \in Int /\ sweep.day <= Today
      BY <1>0, <2>1 DEF SweepOK, SweepFields, Today, Retained
    <2>5. ASSUME NEW g \in Groups, NEW d \in Days, d < sweep.day, Undisturbed(g, d)'
          PROVE  snapshots'[g][d] = None
      <3>1. CASE snapshots' = Kept(snapshots)
        BY <2>5, <3>1 DEF Kept
      <3>2. CASE disturbed' = disturbed \cup {p \in Groups \X Days : p[2] < sweep.day}
        <4>1. <<g, d>> \in Groups \X Days /\ <<g, d>>[2] = d
          OBVIOUS
        <4>2. QED
          BY <2>5, <3>2, <4>1 DEF Undisturbed
      <3>3. QED
        BY <2>1, <3>1, <3>2
    <2>6. Retained'
      BY <2>4, <2>5 DEF Retained
    <2>7. QED
      BY <1>0, <1>8, <2>1, <2>3, <2>6, OnlyReadsKeep
  <1>10. CASE DeleteOldAnalytics
    <2>1. /\ UNCHANGED <<now, saves, swept, snapshots, disturbed>>
          /\ sweep.step = "analytics" /\ sweep' = [sweep EXCEPT !.step = "syncs"]
      BY <1>10 DEF DeleteOldAnalytics, Retention, RestUnchanged
    <2>2. sweep'.step = "syncs" /\ sweep'.day = sweep.day /\ Today' = Today
      BY <2>1 DEF SweepOK, SweepFields, Today
    <2>3. Retained'
      BY <1>0, <2>1, <2>2 DEF Retained, Undisturbed
    <2>4. QED
      BY <1>0, <1>8, <1>10, <2>1, <2>3, DeleteOldAnalyticsTogether
  <1>11. CASE DeleteOldSyncs
    <2>1. UNCHANGED <<saves, swept>> /\ sweep'.step = "idle"
      BY <1>11 DEF DeleteOldSyncs, Retention, RestUnchanged, NoSweep
    <2>2. Retained'
      BY <2>1 DEF Retained
    <2>3. QED
      BY <1>0, <1>8, <1>11, <2>1, <2>2, DeleteOldSyncsTogether
  <1>12. QED
    BY <1>3, <1>4, <1>5, <1>6, <1>7, <1>9, <1>10, <1>11 DEF SweepStep

LEMMA AgreesStarts == Init => AgreesInv
  <1> SUFFICES ASSUME Init PROVE AgreesInv
    OBVIOUS
  <1>1. /\ \A g \in Groups, d \in Days : snapshots[g][d] = None
        /\ \A s \in Savers : ~InFlight(s)
        /\ sweep.step = "idle" /\ Sweeper \in Savers
    BY DEF Init, SnapshotsInit, SweepInit, NoSave, NoSweep, InFlight, Savers
  <1>2. QED
    BY <1>1 DEF AgreesInv, NetWorths, SavedTogether, SweptBySweeper, Retained

LEMMA AgreesStays ==
    SaverOK /\ SweepOK /\ DaysInv /\ AgreesInv /\ SaverOK' /\ [Next]_vars => AgreesInv'
  <1> SUFFICES ASSUME SaverOK, SweepOK, DaysInv, AgreesInv, SaverOK', [Next]_vars
               PROVE  AgreesInv'
    OBVIOUS
  <1>0. NetWorths /\ SavedTogether /\ SweptBySweeper /\ Retained /\ Sweeper \in Savers
    BY DEF AgreesInv, Savers
  <1>1. ASSUME UNCHANGED <<snapshots, analytics, syncs, saves, disturbed, swept, sweep>>,
               Today <= Today', Today \in Int, Today' \in Int
        PROVE  AgreesInv'
    <2>1. OnlyReads
      BY <1>1 DEF OnlyReads
    <2>2. SweptBySweeper'
      BY <1>0, <1>1 DEF SweptBySweeper, InFlight
    <2>3. Retained'
      BY <1>0, <1>1 DEF Retained, Undisturbed
    <2>4. QED
      BY <1>0, <2>1, <2>2, <2>3, OnlyReadsKeep DEF AgreesInv
  <1>2. now \in Nat /\ now' \in Nat /\ Today \in Int /\ Today' \in Int
    <2>1. now \in Nat /\ Today \in Nat
      BY TodayType DEF SaverOK
    <2>2. now' \in Nat /\ Today' \in Nat
      <3>1. now' \in Nat
        BY DEF SaverOK, ClockOK, GroupsTypeOK
      <3>2. QED
        BY <3>1, DayType DEF Today
    <2>3. QED
      BY <2>1, <2>2
  <1>3. now <= now' => Today <= Today'
    BY <1>2, DayType DEF Today
  <1>4. CASE Tick
    <2>1. /\ UNCHANGED <<snapshots, analytics, syncs, saves, disturbed, swept, sweep>>
          /\ now' = now + 1
      BY <1>4 DEF Tick, snapshotVars
    <2>2. QED
      BY <1>1, <1>2, <1>3, <2>1
  <1>5. CASE LoseEntry \/ UNCHANGED vars
    <2>1. UNCHANGED <<now, snapshots, analytics, syncs, saves, disturbed, swept, sweep>>
      BY <1>5 DEF LoseEntry, vars, snapshotVars, sweepVars
    <2>2. QED
      BY <1>1, <1>2, <1>3, <2>1
  <1>6. CASE CrashSweep
    <2>1. /\ UNCHANGED <<now, snapshots, analytics, syncs, swept>>
          /\ sweep'.step = "idle" /\ saves' = [saves EXCEPT ![Sweeper] = NoSave]
          /\ disturbed \subseteq disturbed'
          /\ InFlight(Sweeper) => <<saves[Sweeper].group, saves[Sweeper].day>> \in disturbed'
      BY <1>6 DEF CrashSweep, GiveUp, NoSweep
    <2>2. saves'[Sweeper].step = "idle" /\ \A t \in Savers \ {Sweeper} : saves'[t] = saves[t]
      BY <1>0, <2>1 DEF SaverOK, SavesOK, NoSave
    <2>3. Dropped(Sweeper)
      BY <2>1, <2>2 DEF Dropped, InFlight
    <2>4. swept \subseteq swept'
      BY <2>1
    <2>5. NetWorths' /\ SavedTogether'
      BY <1>0, <2>1, <2>2, <2>3, <2>4, OneSaveReads
    <2>6. SweptBySweeper' /\ Retained'
      BY <2>1, <2>2 DEF SweptBySweeper, Retained, InFlight
    <2>7. QED
      BY <2>5, <2>6 DEF AgreesInv
  <1>7. QED
    BY <1>4, <1>5, <1>6, WorkerAgrees, SweepAgrees DEF Next

LEMMA AgreesAlways == Spec => [](SaverOK /\ DaysInv /\ AgreesInv)
  BY StartsOK, StaysOK, DaysStart, DaysStay, AgreesStarts, AgreesStays, PTL DEF Spec

\* The entries of one day are those of its analytics.
LEMMA AllocationOfDay ==
    ASSUME NEW g \in Groups, NEW d \in Days, analytics[g][d] # None
    PROVE  LET shares == ProtocolAllocation(g, d, d)
           IN  /\ DOMAIN shares = DOMAIN analytics[g][d].protocols
               /\ \A p \in DOMAIN shares :
                    shares[p][d] = analytics[g][d].protocols[p].value
  <1> DEFINE days == {x \in DaysWithAnalytics(g) : d <= x /\ x <= d}
             names == UNION {DOMAIN analytics[g][x].protocols : x \in days}
             of(p) == {x \in days : p \in DOMAIN analytics[g][x].protocols}
             shares == [p \in names |-> [x \in of(p) |-> analytics[g][x].protocols[p].value]]
  <1>1. days = {d}
    BY DaysType DEF DaysWithAnalytics
  <1>2. ProtocolAllocation(g, d, d) = shares
    BY DEF ProtocolAllocation
  <1> HIDE DEF days
  <1>3. names = DOMAIN analytics[g][d].protocols
    BY <1>1
  <1>4. \A p \in names : d \in of(p)
    BY <1>1, <1>3
  <1> HIDE DEF names
  <1>5. \A p \in names : shares[p][d] = analytics[g][d].protocols[p].value
    BY <1>4
  <1>6. DOMAIN shares = names
    OBVIOUS
  <1> HIDE DEF shares
  <1>7. QED
    BY <1>2, <1>3, <1>5, <1>6

LEMMA InvDayAgrees ==
    ASSUME SaverOK, AgreesInv PROVE DayAgrees
  <1>0. NetWorths /\ SavedTogether
    BY DEF AgreesInv
  <1> SUFFICES ASSUME NEW g \in Groups, NEW d \in Days,
                      Settled(g, d), SnapshotDetail(g, d) # None
               PROVE  LET detail == SnapshotDetail(g, d)
                          shares == ProtocolAllocation(g, d, d)
                          day == SyncHistory(g, d, d)
                      IN  /\ detail.analytics # None
                          /\ detail.analytics.total = detail.total
                          /\ (\A i \in DOMAIN snapshots[g][d].positions :
                                snapshots[g][d].positions[i].type \in KnownTypes) =>
                               SumFunction([p \in DOMAIN shares |-> shares[p][d]])
                                  = detail.total
                          /\ day # <<>> /\ <<g, d>> \notin swept => day[1].total = detail.total
    BY DEF DayAgrees
  <1> DEFINE x == snapshots[g][d]
             a == analytics[g][d]
  <1>1. /\ x # None /\ SnapshotDetail(g, d).analytics = a /\ SnapshotDetail(g, d).total = x.total
    BY DEF SnapshotDetail
  <1>2. Undisturbed(g, d) /\ \A s \in Savers : ~Saved(s, g, d) /\ ~ToSync(s, g, d)
    BY DEF Settled, Quiet, Undisturbed, Saved, ToSync, AtStep, InFlight
  <1>3. Together(g, d)
    BY <1>0, <1>1, <1>2 DEF SavedTogether
  <1>4. a # None /\ Describes(a, x)
    BY <1>2, <1>3 DEF Together
  <1>5. <<g, d>> \notin swept => LatestSyncIs(syncs[g], d, x.total)
    BY <1>2, <1>3 DEF Together
  <1>6. AddsUp(x) /\ x.positions \in Seq(Results)
    BY <1>0, <1>1 DEF NetWorths, SaverOK, DocumentsOK, SnapshotBy, Snapshot
  <1>7. ASSUME \A i \in DOMAIN x.positions : x.positions[i].type \in KnownTypes
        PROVE  LET shares == ProtocolAllocation(g, d, d)
               IN  SumFunction([p \in DOMAIN shares |-> shares[p][d]]) = x.total
    <2> DEFINE shares == ProtocolAllocation(g, d, d)
               values == [p \in DOMAIN shares |-> shares[p][d]]
               parts == SharesOf(x)
    <2>1. DOMAIN shares = DOMAIN a.protocols
          /\ \A p \in DOMAIN shares : shares[p][d] = a.protocols[p].value
      BY <1>4, AllocationOfDay
    <2>2. DOMAIN values = DOMAIN shares /\ \A p \in DOMAIN values : values[p] = shares[p][d]
      OBVIOUS
    <2>3. parts = [p \in DOMAIN parts |-> parts[p]]
      BY SharesAre DEF SharesOf
    <2>4. DOMAIN values = DOMAIN parts /\ \A p \in DOMAIN parts : values[p] = parts[p]
      BY <1>4, <2>1, <2>2 DEF Describes
    <2>5. values = [p \in DOMAIN values |-> values[p]]
      OBVIOUS
    <2> HIDE DEF values, parts, shares
    <2>6. values = parts
      BY <2>3, <2>4, <2>5
    <2>7. SumFunction(parts) = NetWorth(x.positions)
      <3>1. PICK positions \in Seq(Results) : positions = x.positions
        BY <1>6
      <3>2. SumFunction(BuildSummary(positions).byProtocol) = NetWorth(positions)
        BY <1>7, <3>1, SharesAddUp
      <3>3. QED
        BY <3>1, <3>2 DEF parts, SharesOf
    <2>8. SumFunction(values) = x.total
      BY <1>6, <2>6, <2>7 DEF AddsUp
    <2>9. QED
      BY <2>8 DEF values, shares
  <1>8. <<g, d>> \notin swept => SyncHistory(g, d, d)[1].total = x.total
    BY <1>5 DEF LatestSyncIs, SyncHistory
  <1> HIDE DEF a
  <1>9. QED
    BY <1>1, <1>4, <1>7, <1>8 DEF Describes

\* The snapshot, the analytics and the last sync snapshot of a settled day
\* come from the same save, whatever the saves of other days, the crashes and
\* retention do: the totals agree, and the shares of the protocols add up to
\* them.
THEOREM DayAgreesAlways == Spec => []DayAgrees
  BY AgreesAlways, InvDayAgrees, PTL
=============================================================================
