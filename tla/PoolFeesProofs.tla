---------------------------- MODULE PoolFeesProofs ----------------------------
(***************************************************************************)
(* The fees that the services report are exact, whatever the width of the  *)
(* counters: they wrap around, and so does everything that is computed     *)
(* from them, so that the wraps cancel.  And what Raydium's service keeps  *)
(* of the fees collected counts no transaction twice: Seen is a sum over   *)
(* signatures, and a scan adds to it those it has not seen.                *)
(***************************************************************************)
EXTENDS PoolFees, FoldTheorems, TLAPS

----------------------------------------------------------------------------
(* Arithmetic of counters that wrap around.                                *)

Counters == 0..(Modulus - 1)

Wrap(x) == IF x < Modulus THEN x ELSE x - Modulus

LEMMA ModulusType == Modulus \in Nat \ {0} /\ Scale \in Nat \ {0}
  BY FeeGrowthAssumption

LEMMA WrapType ==
    ASSUME NEW a \in Counters, NEW n \in Counters
    PROVE  /\ Wrap(a + n) = IF a + n < Modulus THEN a + n ELSE a + n - Modulus
           /\ Wrap(a + n) \in Counters
  <1>1. a + n \in Nat /\ a + n < 2 * Modulus
    BY ModulusType DEF Counters
  <1>2. CASE a + n < Modulus
    BY <1>1, <1>2, ModulusType DEF Wrap, Counters
  <1>3. CASE ~(a + n < Modulus)
    BY <1>1, <1>3, ModulusType DEF Wrap, Counters
  <1>4. QED
    BY <1>2, <1>3

LEMMA WrapIsMod ==
    ASSUME NEW x \in 0..(2 * Modulus - 1)
    PROVE  x % Modulus = Wrap(x)
  <1>1. CASE x < Modulus
    BY <1>1, ModulusType DEF Wrap
  <1>2. CASE x >= Modulus
    BY <1>2, ModulusType DEF Wrap
  <1>3. QED
    BY <1>1, <1>2, ModulusType

LEMMA SubtractWraps ==
    ASSUME NEW a \in Counters, NEW b \in Counters
    PROVE  /\ Subtract(a, b) \in Counters
           /\ Subtract(a, b) = IF a >= b THEN a - b ELSE a - b + Modulus
           /\ Subtract(a, b) = (a - b + Modulus) % Modulus
  <1>1. Subtract(a, b) = IF a >= b THEN a - b ELSE a - b + Modulus
    BY ModulusType DEF Subtract, Counters
  <1>2. (a - b + Modulus) % Modulus = Wrap(a - b + Modulus)
    BY WrapIsMod, ModulusType DEF Counters
  <1>3. QED
    BY <1>1, <1>2, ModulusType DEF Wrap, Counters

\* The order of two subtractions does not matter, and one takes back another.
LEMMA SubtractTwice ==
    ASSUME NEW a \in Counters, NEW b \in Counters, NEW c \in Counters
    PROVE  /\ Subtract(Subtract(a, b), c) = Subtract(Subtract(a, c), b)
           /\ Subtract(a, Subtract(a, b)) = b
           /\ Subtract(Subtract(a, b), Subtract(a, c)) = Subtract(c, b)
  <1>1. PICK ab \in Counters, ac \in Counters, cb \in Counters :
          /\ ab = Subtract(a, b) /\ ab = IF a >= b THEN a - b ELSE a - b + Modulus
          /\ ac = Subtract(a, c) /\ ac = IF a >= c THEN a - c ELSE a - c + Modulus
          /\ cb = Subtract(c, b) /\ cb = IF c >= b THEN c - b ELSE c - b + Modulus
    BY SubtractWraps
  <1>2. /\ Subtract(ab, c) = IF ab >= c THEN ab - c ELSE ab - c + Modulus
        /\ Subtract(ac, b) = IF ac >= b THEN ac - b ELSE ac - b + Modulus
        /\ Subtract(a, ab) = IF a >= ab THEN a - ab ELSE a - ab + Modulus
        /\ Subtract(ab, ac) = IF ab >= ac THEN ab - ac ELSE ab - ac + Modulus
    BY SubtractWraps
  <1>3. Subtract(ab, c) = Subtract(ac, b)
    BY <1>1, <1>2, ModulusType DEF Counters
  <1>4. Subtract(a, ab) = b
    BY <1>1, <1>2, ModulusType DEF Counters
  <1>5. Subtract(ab, ac) = cb
    BY <1>1, <1>2, ModulusType DEF Counters
  <1>6. QED
    BY <1>1, <1>3, <1>4, <1>5

\* Raising a counter raises what remains of it.
LEMMA SubtractRaised ==
    ASSUME NEW a \in Counters, NEW b \in Counters, NEW n \in Counters
    PROVE  Subtract(Wrap(a + n), b) = Wrap(Subtract(a, b) + n)
  <1>1. PICK s \in Counters : /\ s = Subtract(a, b)
                              /\ s = IF a >= b THEN a - b ELSE a - b + Modulus
    BY SubtractWraps
  <1>2. PICK x \in Counters : x = Wrap(a + n) /\ x = IF a + n < Modulus THEN a + n ELSE a + n - Modulus
    BY WrapType
  <1>3. Subtract(x, b) = IF x >= b THEN x - b ELSE x - b + Modulus
    BY SubtractWraps
  <1>4. Wrap(s + n) = IF s + n < Modulus THEN s + n ELSE s + n - Modulus
    BY WrapType
  <1>5. Subtract(x, b) = Wrap(s + n)
    BY <1>1, <1>2, <1>3, <1>4, ModulusType DEF Counters
  <1>6. QED
    BY <1>1, <1>2, <1>5

----------------------------------------------------------------------------
(* The growth inside a range, by where the price is.                       *)

LEMMA InsideByTick ==
    ASSUME NEW t \in 0..2, NEW g \in Counters, NEW lower \in Counters, NEW upper \in Counters
    PROVE  LET inside == GrowthInside(t, LowerTick, UpperTick, g, lower, upper)
           IN  /\ inside \in Counters
               /\ t = 0 => inside = Subtract(lower, upper)
               /\ t = 1 => inside = Subtract(Subtract(g, lower), upper)
               /\ t = 2 => inside = Subtract(upper, lower)
  <1> DEFINE inside == GrowthInside(t, LowerTick, UpperTick, g, lower, upper)
  <1>1. Subtract(g, lower) \in Counters /\ Subtract(g, upper) \in Counters
    BY SubtractWraps
  <1>2. CASE t = 0
    <2>1. inside = Subtract(Subtract(g, Subtract(g, lower)), upper)
      BY <1>2 DEF GrowthInside, LowerTick, UpperTick
    <2>2. QED
      BY <1>2, <2>1, SubtractTwice, SubtractWraps
  <1>3. CASE t = 1
    <2>1. inside = Subtract(Subtract(g, lower), upper)
      BY <1>3 DEF GrowthInside, LowerTick, UpperTick
    <2>2. QED
      BY <1>1, <1>3, <2>1, SubtractWraps
  <1>4. CASE t = 2
    <2>1. inside = Subtract(Subtract(g, lower), Subtract(g, upper))
      BY <1>4 DEF GrowthInside, LowerTick, UpperTick
    <2>2. QED
      BY <1>4, <2>1, SubtractTwice, SubtractWraps
  <1>5. QED
    BY <1>2, <1>3, <1>4

----------------------------------------------------------------------------
(* The pool: what its counters say of a position is what it has grown.     *)

Accrued(p) ==
    /\ p \in Pools
    /\ Subtract(InsideOf(p), p.last) = p.grown
    /\ p.owed + Earned(p) <= MaxFees

LEMMA PoolFields ==
    ASSUME NEW p \in Pools
    PROVE  /\ p.tick \in 0..2 /\ p.global \in Counters /\ p.last \in Counters
           /\ p.outside \in [Ticks -> Counters]
           /\ p.outside.lower \in Counters /\ p.outside.upper \in Counters
           /\ p.owed \in Nat /\ p.grown \in Nat /\ p.paid \in Seq(Nat)
           /\ InsideOf(p) \in Counters
  <1>1. p.outside \in [Ticks -> Counters]
    BY DEF Pools, Counters
  <1>2. p.outside.lower \in Counters /\ p.outside.upper \in Counters
    BY <1>1 DEF Ticks
  <1>3. p.tick \in 0..2 /\ p.global \in Counters
    BY DEF Pools, Counters
  <1>4. InsideOf(p) \in Counters
    BY <1>2, <1>3, InsideByTick DEF InsideOf
  <1>5. QED
    BY <1>1, <1>2, <1>3, <1>4 DEF Pools, Counters

\* Fees within the bound leave the product of liquidity and growth below the
\* modulus.
LEMMA ProductFits ==
    ASSUME NEW g \in Nat, (Liquidity * g) \div Scale <= MaxFees
    PROVE  /\ Liquidity * g \in Nat /\ (Liquidity * g) \div Scale \in Nat
           /\ Liquidity * g < Modulus /\ g < Modulus
  <1>0. /\ Liquidity \in Nat \ {0} /\ MaxFees \in Nat /\ Scale \in Nat \ {0} /\ Modulus \in Nat
        /\ (MaxFees + 1) * Scale <= Modulus
    BY PoolFeesAssumption, ModulusType
  <1>1. PICK x \in Nat : x = Liquidity * g /\ g <= x
    BY <1>0
  <1>2. PICK q \in Nat : q = x \div Scale /\ x < (q + 1) * Scale
    BY <1>0
  <1>3. (q + 1) * Scale <= (MaxFees + 1) * Scale
    <2>0. q <= MaxFees
      BY <1>1, <1>2
    <2>1. PICK d \in Nat : MaxFees + 1 = (q + 1) + d
      <3>1. MaxFees - q \in Nat /\ MaxFees + 1 = (q + 1) + (MaxFees - q)
        BY <1>0, <2>0
      <3>2. QED
        BY <3>1
    <2>2. (MaxFees + 1) * Scale = (q + 1) * Scale + d * Scale /\ d * Scale \in Nat
      BY <1>0, <2>1
    <2>3. QED
      BY <1>0, <2>2
  <1>4. x < Modulus
    BY <1>0, <1>2, <1>3
  <1>5. QED
    BY <1>0, <1>1, <1>2, <1>4

LEMMA AccruedFits ==
    ASSUME NEW p, Accrued(p)
    PROVE  /\ Liquidity * p.grown \in Nat /\ Liquidity * p.grown < Modulus
           /\ Earned(p) \in Nat /\ p.grown < Modulus
  <1>0. /\ Liquidity \in Nat \ {0} /\ Scale \in Nat \ {0} /\ MaxFees \in Nat
        /\ p.owed \in Nat /\ p.grown \in Nat
    BY PoolFeesAssumption, ModulusType, PoolFields DEF Accrued
  <1>1. Liquidity * p.grown \in Nat
    BY <1>0
  <1>2. (Liquidity * p.grown) \div Scale \in Nat
    BY <1>0, <1>1
  <1>3. (Liquidity * p.grown) \div Scale <= MaxFees
    BY <1>0, <1>2 DEF Accrued, Earned
  <1>4. QED
    BY <1>0, <1>3, ProductFits DEF Earned

LEMMA NothingEarned ==
    (Liquidity * 0) \div Scale = 0 /\ \A x \in Counters : Subtract(x, x) = 0
  <1>1. Liquidity * 0 = 0 /\ 0 \div Scale = 0
    BY PoolFeesAssumption, ModulusType
  <1>2. ASSUME NEW x \in Counters PROVE Subtract(x, x) = 0
    <2>1. Subtract(x, x) = IF x >= x THEN x - x ELSE x - x + Modulus
      BY SubtractWraps
    <2>2. QED
      BY <2>1, ModulusType DEF Counters
  <1>3. QED
    BY <1>1, <1>2

LEMMA InitialAccrued == \A p \in InitialPools : Accrued(p)
  <1> SUFFICES ASSUME NEW p \in InitialPools PROVE Accrued(p)
    OBVIOUS
  <1>1. /\ p \in Pools /\ p.last = InsideOf(p) /\ p.grown = 0 /\ p.owed = 0
        /\ MaxFees \in Nat
    BY PoolFeesAssumption
  <1>2. QED
    BY <1>1, NothingEarned, PoolFields DEF Accrued, Earned

\* A swap within the range raises the growth inside by as much, wherever the
\* counter wraps; one outside of it does not.
LEMMA SwapAccrues ==
    ASSUME Accrued(pool), NEW n \in Growths, Swap(n)
    PROVE  Accrued(pool')
  <1> DEFINE grown == IF pool.tick = 1 THEN pool.grown + n ELSE pool.grown
             g == (pool.global + n) % Modulus
  <1>1. /\ pool \in Pools /\ n \in Nat /\ grown \in Nat /\ pool.owed \in Nat
        /\ pool.owed + (Liquidity * grown) \div Scale <= MaxFees
        /\ pool' = [pool EXCEPT !.global = g, !.grown = grown]
    BY PoolFields, PoolFeesAssumption DEF Accrued, Swap
  <1>2. g \in Counters
    BY <1>1, PoolFields, ModulusType DEF Counters
  <1> HIDE DEF g
  <1>3. /\ pool' \in Pools /\ pool'.tick = pool.tick /\ pool'.global = g
        /\ pool'.outside = pool.outside /\ pool'.last = pool.last
        /\ pool'.owed = pool.owed /\ pool'.grown = grown
    BY <1>1, <1>2 DEF Pools, Counters
  <1>4. Subtract(InsideOf(pool'), pool'.last) = grown
    <2>0. PICK l \in Counters, u \in Counters, last \in Counters, c \in Counters :
            /\ l = pool.outside.lower /\ u = pool.outside.upper /\ last = pool.last
            /\ c = pool.global
      BY <1>1, PoolFields
    <2>1. CASE pool.tick = 1
      <3>1. PICK s \in Counters, i \in Counters : s = Subtract(c, l) /\ i = Subtract(s, u)
        BY SubtractWraps
      <3>2. InsideOf(pool) = i /\ Subtract(i, last) = pool.grown
        BY <1>1, <2>0, <2>1, <3>1, InsideByTick DEF InsideOf, Accrued
      <3>3. pool.grown + n < Modulus /\ n \in Counters
        <4>1. (Liquidity * grown) \div Scale \in Int
          <5>1. Liquidity * grown \in Nat
            BY <1>1, PoolFeesAssumption
          <5>2. QED
            BY <5>1, ModulusType
        <4>2. (Liquidity * grown) \div Scale <= MaxFees
          BY <1>1, <4>1, PoolFeesAssumption
        <4>3. grown < Modulus
          BY <1>1, <4>2, ProductFits
        <4>4. QED
          BY <1>1, <2>1, <4>3, PoolFields, ModulusType DEF Counters
      <3>4. g = Wrap(c + n)
        <4>1. c + n \in 0..(2 * Modulus - 1)
          BY <3>3, ModulusType DEF Counters
        <4>2. QED
          BY <2>0, <4>1, WrapIsMod DEF g
      <3>5. InsideOf(pool') = Subtract(Subtract(g, l), u)
        BY <1>2, <1>3, <2>0, <2>1, InsideByTick DEF InsideOf
      <3>6. Subtract(Wrap(c + n), l) = Wrap(s + n) /\ Subtract(Wrap(s + n), u) = Wrap(i + n)
        BY <3>1, <3>3, SubtractRaised
      <3>7. Subtract(Wrap(i + n), last) = Wrap(pool.grown + n)
        BY <3>2, <3>3, SubtractRaised
      <3>8. Wrap(pool.grown + n) = pool.grown + n
        BY <3>3 DEF Wrap
      <3>9. QED
        BY <1>3, <2>0, <2>1, <3>4, <3>5, <3>6, <3>7, <3>8
    <2>2. CASE pool.tick # 1
      <3>1. pool.tick \in {0, 2}
        BY <1>1, <2>2, PoolFields
      <3>2. InsideOf(pool') = InsideOf(pool)
        BY <1>1, <1>2, <1>3, <2>0, <3>1, InsideByTick DEF InsideOf
      <3>3. QED
        BY <1>3, <2>2, <3>2 DEF Accrued
    <2>3. QED
      BY <2>1, <2>2
  <1>5. pool'.owed + Earned(pool') <= MaxFees
    BY <1>1, <1>3 DEF Earned
  <1>6. QED
    BY <1>3, <1>4, <1>5 DEF Accrued

\* Turning over the growth outside of a tick that is crossed leaves the
\* growth inside as it was.
LEMMA CrossAccrues ==
    ASSUME Accrued(pool), MoveTick
    PROVE  Accrued(pool')
  <1>0. PICK l \in Counters, u \in Counters, c \in Counters :
          l = pool.outside.lower /\ u = pool.outside.upper /\ c = pool.global
    BY PoolFields DEF Accrued
  <1>1. pool.outside \in [Ticks -> Counters] /\ pool \in Pools
    BY PoolFields DEF Accrued
  <1>2. PICK cl \in Counters, cu \in Counters : cl = Subtract(c, l) /\ cu = Subtract(c, u)
    BY SubtractWraps
  <1>3. /\ TurnedOver("lower") = [pool.outside EXCEPT !["lower"] = cl]
        /\ TurnedOver("upper") = [pool.outside EXCEPT !["upper"] = cu]
    BY <1>0, <1>2, SubtractWraps DEF TurnedOver
  <1>4. /\ TurnedOver("lower") \in [Ticks -> Counters]
        /\ TurnedOver("lower")["lower"] = cl /\ TurnedOver("lower")["upper"] = u
        /\ TurnedOver("upper") \in [Ticks -> Counters]
        /\ TurnedOver("upper")["lower"] = l /\ TurnedOver("upper")["upper"] = cu
    BY <1>0, <1>1, <1>2, <1>3 DEF Ticks
  <1>5. ASSUME NEW t \in Ticks, NEW to \in 0..2, Cross(t, to)
        PROVE  /\ pool' \in Pools /\ pool'.tick = to /\ pool'.global = c
               /\ pool'.outside = TurnedOver(t) /\ pool'.last = pool.last
               /\ pool'.owed = pool.owed /\ pool'.grown = pool.grown
    BY <1>0, <1>1, <1>4, <1>5 DEF Cross, Pools, Counters, Ticks
  <1>6. ASSUME NEW t \in Ticks, NEW to \in 0..2, Cross(t, to), InsideOf(pool') = InsideOf(pool)
        PROVE  Accrued(pool')
    BY <1>5, <1>6 DEF Accrued, Earned
  <1>7. CASE pool.tick = 0 /\ Cross("lower", 1)
    <2>1. InsideOf(pool) = Subtract(l, u)
      BY <1>0, <1>7, InsideByTick DEF InsideOf
    <2>2. InsideOf(pool') = Subtract(Subtract(c, cl), u)
      BY <1>0, <1>2, <1>4, <1>5, <1>7, InsideByTick DEF InsideOf, Ticks
    <2>3. Subtract(c, cl) = l
      BY <1>2, SubtractTwice
    <2>4. QED
      BY <1>6, <1>7, <2>1, <2>2, <2>3 DEF Ticks
  <1>8. CASE pool.tick = 1 /\ Cross("lower", 0)
    <2>1. InsideOf(pool) = Subtract(cl, u)
      BY <1>0, <1>2, <1>8, InsideByTick DEF InsideOf
    <2>2. InsideOf(pool') = Subtract(cl, u)
      BY <1>0, <1>2, <1>4, <1>5, <1>8, InsideByTick DEF InsideOf, Ticks
    <2>3. QED
      BY <1>6, <1>8, <2>1, <2>2 DEF Ticks
  <1>9. CASE pool.tick = 1 /\ Cross("upper", 2)
    <2>1. InsideOf(pool) = Subtract(Subtract(c, l), u)
      BY <1>0, <1>9, InsideByTick DEF InsideOf
    <2>2. InsideOf(pool') = Subtract(cu, l)
      BY <1>0, <1>2, <1>4, <1>5, <1>9, InsideByTick DEF InsideOf, Ticks
    <2>3. Subtract(Subtract(c, l), u) = Subtract(Subtract(c, u), l)
      BY SubtractTwice
    <2>4. QED
      BY <1>2, <1>6, <1>9, <2>1, <2>2, <2>3 DEF Ticks
  <1>10. CASE pool.tick = 2 /\ Cross("upper", 1)
    <2>1. InsideOf(pool) = Subtract(u, l)
      BY <1>0, <1>10, InsideByTick DEF InsideOf
    <2>2. InsideOf(pool') = Subtract(Subtract(c, l), cu)
      BY <1>0, <1>2, <1>4, <1>5, <1>10, InsideByTick DEF InsideOf, Ticks
    <2>3. Subtract(Subtract(c, l), Subtract(c, u)) = Subtract(u, l)
      BY SubtractTwice
    <2>4. QED
      BY <1>2, <1>6, <1>10, <2>1, <2>2, <2>3 DEF Ticks
  <1>11. QED
    BY <1>7, <1>8, <1>9, <1>10 DEF MoveTick

LEMMA TouchAccrues ==
    ASSUME Accrued(pool), NEW collects \in BOOLEAN, Touch(collects)
    PROVE  Accrued(pool')
  <1> DEFINE due == pool.owed + Earned(pool)
  <1>1. /\ pool \in Pools /\ due \in Nat /\ due <= MaxFees /\ MaxFees \in Nat
        /\ InsideOf(pool) \in Counters
    BY PoolFields, AccruedFits, PoolFeesAssumption DEF Accrued
  <1> HIDE DEF due
  <1>2. PICK owed \in {0, due}, paid \in {0, due} :
          pool' = [pool EXCEPT !.last = InsideOf(pool), !.grown = 0, !.owed = owed,
                               !.paid = Append(pool.paid, paid)]
    BY DEF Touch, due
  <1>3. /\ pool' \in Pools /\ pool'.tick = pool.tick /\ pool'.global = pool.global
        /\ pool'.outside = pool.outside /\ pool'.last = InsideOf(pool)
        /\ pool'.owed = owed /\ pool'.grown = 0
    <2>1. Append(pool.paid, paid) \in Seq(Nat)
      BY <1>1, PoolFields
    <2>2. /\ pool'.tick = pool.tick /\ pool'.global = pool.global
          /\ pool'.outside = pool.outside /\ pool'.last = InsideOf(pool)
          /\ pool'.owed = owed /\ pool'.grown = 0 /\ pool'.paid = Append(pool.paid, paid)
      BY <1>1, <1>2 DEF Pools
    <2>3. owed \in Nat
      BY <1>1
    <2>4. pool' \in Pools
      BY <1>1, <1>2, <2>1, <2>3 DEF Pools, Counters
    <2>5. QED
      BY <2>2, <2>4
  <1>4. InsideOf(pool') = InsideOf(pool)
    BY <1>3 DEF InsideOf
  <1>5. Subtract(InsideOf(pool'), pool'.last) = 0 /\ Earned(pool') = 0
    BY <1>1, <1>3, <1>4, NothingEarned DEF Earned
  <1>6. QED
    BY <1>1, <1>3, <1>5 DEF Accrued

----------------------------------------------------------------------------
(* The readers.                                                            *)

\* The position was read before the pool; if the position had no transaction
\* in between, its counter has not been taken again.
Before(p, q) ==
    /\ Len(p.paid) <= Len(q.paid)
    /\ Len(p.paid) = Len(q.paid) => p.last = q.last /\ p.owed = q.owed

ExactFor(r) ==
    Computed(r) /\ Coherent(r) =>
        readers[r].fees = Earned(readers[r].at)
                              + (IF protocol = "uniswap" THEN 0 ELSE readers[r].at.owed)

\* What a reader has read.
Reads(r) ==
    /\ readers[r].step = "pool" =>
         Accrued(readers[r].position) /\ Before(readers[r].position, pool)
    /\ readers[r].step \in {"lower", "upper"} =>
         /\ Accrued(readers[r].position) /\ Accrued(readers[r].at)
         /\ Before(readers[r].position, readers[r].at)

Fields == {"step", "at", "position", "lower", "upper", "fees", "state", "signature",
           "collected"}

Shape ==
    /\ protocol \in {"uniswap", "raydium"}
    /\ DOMAIN readers = Readers
    /\ \A r \in Readers : DOMAIN readers[r] = Fields

FeesInv ==
    /\ Shape
    /\ Accrued(pool) /\ Accrued(indexed)
    /\ \A r \in Readers : Reads(r) /\ ExactFor(r)

LEMMA FreshReader ==
    /\ DOMAIN NoReader = Fields
    /\ NoReader.step = "idle" /\ NoReader.at = None
    /\ \A s : /\ DOMAIN [NoReader EXCEPT !.step = s] = Fields
              /\ [NoReader EXCEPT !.step = s].step = s
              /\ [NoReader EXCEPT !.step = s].at = None
  BY DEF NoReader, Fields

LEMMA FeesInit == Init => FeesInv
  <1> SUFFICES ASSUME Init PROVE FeesInv
    OBVIOUS
  <1>1. Shape
    BY FreshReader, PoolFeesAssumption DEF Init, Shape
  <1>2. Accrued(pool) /\ Accrued(indexed)
    BY InitialAccrued DEF Init
  <1>3. \A r \in Readers : readers[r].step = "idle"
    BY FreshReader DEF Init
  <1>4. QED
    BY <1>1, <1>2, <1>3 DEF FeesInv, Reads, ExactFor, Computed

\* A move of the pool changes nothing of what was read.
LEMMA PoolAccrues ==
    ASSUME Accrued(pool), Accrued(indexed), PoolStep
    PROVE  /\ Accrued(pool') /\ Accrued(indexed')
           /\ UNCHANGED <<protocol, readers>>
           /\ Before(pool, pool')
  <1>0. pool \in Pools /\ pool.paid \in Seq(Nat)
    BY PoolFields DEF Accrued
  <1>1. ASSUME NEW n \in Growths, Swap(n) PROVE Before(pool, pool')
    BY <1>0, <1>1 DEF Swap, Before, Pools
  <1>2. ASSUME NEW t, NEW to, Cross(t, to) PROVE Before(pool, pool')
    BY <1>0, <1>2 DEF Cross, Before, Pools
  <1>3. ASSUME NEW collects, Touch(collects) PROVE Before(pool, pool')
    <2>1. \E paid : pool'.paid = Append(pool.paid, paid)
      BY <1>0, <1>3 DEF Touch, Pools
    <2>2. Len(pool'.paid) = Len(pool.paid) + 1 /\ Len(pool.paid) \in Nat
      BY <1>0, <2>1
    <2>3. QED
      BY <2>2 DEF Before
  <1>4. CASE \E n \in Growths : Swap(n)
    BY <1>1, <1>4, SwapAccrues DEF Swap, Moves
  <1>5. CASE MoveTick
    BY <1>2, <1>5, CrossAccrues DEF MoveTick, Cross, Moves
  <1>6. CASE Touch(TRUE) \/ Touch(FALSE)
    BY <1>3, <1>6, TouchAccrues DEF Touch, Moves
  <1>7. CASE Index
    BY <1>0, <1>7 DEF Index, Before
  <1>8. QED
    BY <1>4, <1>5, <1>6, <1>7 DEF PoolStep

LEMMA BeforeTwice ==
    ASSUME NEW p, NEW q, NEW x, p.paid \in Seq(Nat), q.paid \in Seq(Nat), x.paid \in Seq(Nat),
           Before(p, q), Before(q, x)
    PROVE  Before(p, x)
  <1>1. Len(p.paid) \in Nat /\ Len(q.paid) \in Nat /\ Len(x.paid) \in Nat
    OBVIOUS
  <1>2. QED
    BY <1>1 DEF Before

\* Fees computed from parts that belong together.
LEMMA CoherentExact ==
    ASSUME NEW p, NEW at, Accrued(p), Accrued(at), Before(p, at), p.paid = at.paid
    PROVE  LET inside == GrowthInside(at.tick, LowerTick, UpperTick, at.global,
                                      at.outside.lower, at.outside.upper)
           IN  /\ UniswapFees(Liquidity, inside, p.last) = Earned(at)
               /\ RaydiumFees(Liquidity, inside, p.last, p.owed) = Earned(at) + at.owed
  <1>1. p.last = at.last /\ p.owed = at.owed /\ at.owed \in Nat
    BY PoolFields DEF Before, Accrued
  <1>2. Subtract(InsideOf(at), p.last) = at.grown
    BY <1>1 DEF Accrued
  <1>3. PICK x \in Nat : x = Liquidity * at.grown /\ x < Modulus /\ Earned(at) = x \div Scale
    BY AccruedFits DEF Earned
  <1>4. x % Modulus = x /\ x \div Scale \in Nat
    BY <1>3, ModulusType
  <1>5. UniswapFees(Liquidity, InsideOf(at), p.last) = Earned(at)
    BY <1>2, <1>3 DEF UniswapFees
  <1>6. RaydiumFees(Liquidity, InsideOf(at), p.last, p.owed) = Earned(at) + at.owed
    BY <1>1, <1>2, <1>3, <1>4 DEF RaydiumFees
  <1>7. QED
    BY <1>5, <1>6 DEF InsideOf

\* A step of one reader.
LEMMA ReaderKeeps ==
    ASSUME FeesInv, UNCHANGED <<protocol, pool, indexed>>, NEW r \in Readers,
           DOMAIN readers' = Readers, DOMAIN readers'[r] = Fields,
           \A q \in Readers \ {r} : readers'[q] = readers[q],
           Reads(r)', ExactFor(r)'
    PROVE  FeesInv'
  <1>1. Shape'
    BY DEF FeesInv, Shape
  <1>2. \A q \in Readers \ {r} : Reads(q)' /\ ExactFor(q)'
    BY DEF FeesInv, Reads, ExactFor, Computed, Coherent
  <1>3. QED
    BY <1>1, <1>2 DEF FeesInv

\* One that leaves nothing from which fees could be computed.
LEMMA EmptyKeeps ==
    ASSUME FeesInv, UNCHANGED <<protocol, pool, indexed>>, NEW r \in Readers,
           DOMAIN readers' = Readers, DOMAIN readers'[r] = Fields,
           \A q \in Readers \ {r} : readers'[q] = readers[q],
           readers'[r].step \notin {"pool", "lower", "upper"},
           readers'[r].step \in {"state", "done"} => readers'[r].at = None
    PROVE  FeesInv'
  <1>1. Reads(r)' /\ ExactFor(r)'
    BY DEF Reads, ExactFor, Computed
  <1>2. QED
    BY <1>1, ReaderKeeps

\* The reader begins, gives up, or keeps the document.
LEMMA OtherStepsKeep ==
    ASSUME FeesInv, NEW r \in Readers,
           Begin(r) \/ GiveUp(r) \/ ReadState(r) \/ NoScan(r) \/ Scan(r) \/ SaveState(r),
           ReaderStep
    PROVE  FeesInv'
  <1>0. /\ UNCHANGED <<protocol, pool, indexed>> /\ DOMAIN readers = Readers
        /\ DOMAIN readers[r] = Fields
    BY DEF ReaderStep, FeesInv, Shape
  <1>1. CASE \E s \in {"position", "failed", "done"} :
               readers' = [readers EXCEPT ![r] = [NoReader EXCEPT !.step = s]]
    <2>1. PICK s \in {"position", "failed", "done"} :
               readers' = [readers EXCEPT ![r] = [NoReader EXCEPT !.step = s]]
      BY <1>1
    <2>2. readers'[r] = [NoReader EXCEPT !.step = s]
      BY <1>0, <2>1
    <2>3. /\ DOMAIN readers'[r] = Fields /\ readers'[r].step = s /\ readers'[r].at = None
      BY <2>2, FreshReader
    <2>4. DOMAIN readers' = Readers /\ \A q \in Readers \ {r} : readers'[q] = readers[q]
      BY <1>0, <2>1
    <2>5. QED
      BY <1>0, <2>3, <2>4, EmptyKeeps
  <1>2. CASE ReadState(r)
    <2>1. PICK state : readers' = [readers EXCEPT ![r] =
            [NoReader EXCEPT !.step = "scan", !.fees = readers[r].fees, !.state = state]]
      BY <1>2 DEF ReadState
    <2>2. readers'[r] =
            [NoReader EXCEPT !.step = "scan", !.fees = readers[r].fees, !.state = state]
      BY <1>0, <2>1
    <2>3. DOMAIN readers'[r] = Fields /\ readers'[r].step = "scan"
      BY <2>2 DEF NoReader, Fields
    <2>4. DOMAIN readers' = Readers /\ \A q \in Readers \ {r} : readers'[q] = readers[q]
      BY <1>0, <2>1
    <2>5. QED
      BY <1>0, <2>3, <2>4, EmptyKeeps
  <1>3. CASE NoScan(r) \/ Scan(r)
    <2>1. PICK signature, collected : readers' = [readers EXCEPT
            ![r].step = "save", ![r].signature = signature, ![r].collected = collected]
      BY <1>3 DEF NoScan, Scan, FailedScan
    <2>2. DOMAIN readers' = Readers /\ \A q \in Readers \ {r} : readers'[q] = readers[q]
      BY <1>0, <2>1
    <2>3. DOMAIN readers'[r] = Fields /\ readers'[r].step = "save"
      BY <1>0, <2>1 DEF Fields
    <2>4. QED
      BY <1>0, <2>2, <2>3, EmptyKeeps
  <1>4. QED
    BY <1>1, <1>2, <1>3 DEF Begin, GiveUp, SaveState

LEMMA ReadPositionKeeps ==
    ASSUME FeesInv, NEW r \in Readers, ReadPosition(r) \/ ReadPool(r)
    PROVE  FeesInv'
  <1>0. /\ UNCHANGED <<protocol, pool, indexed>> /\ DOMAIN readers = Readers
        /\ DOMAIN readers[r] = Fields /\ ReaderStep
        /\ Accrued(pool) /\ Accrued(indexed) /\ Reads(r)
        /\ pool.paid \in Seq(Nat) /\ indexed.paid \in Seq(Nat)
    BY PoolFields DEF ReadPosition, ReadPool, ReaderStep, FeesInv, Shape, Accrued
  <1>1. Before(pool, pool) /\ Before(indexed, indexed)
    BY <1>0 DEF Before
  <1>2. CASE GiveUp(r)
    BY <1>0, <1>2, OtherStepsKeep
  <1>3. CASE readers' = [readers EXCEPT ![r].position = indexed, ![r].at = indexed,
                                        ![r].step = "lower"]
    <2>1. DOMAIN readers' = Readers /\ \A q \in Readers \ {r} : readers'[q] = readers[q]
      BY <1>0, <1>3
    <2>2. /\ DOMAIN readers'[r] = Fields /\ readers'[r].step = "lower"
          /\ readers'[r].position = indexed /\ readers'[r].at = indexed
      BY <1>0, <1>3 DEF Fields
    <2>3. Reads(r)' /\ ExactFor(r)'
      BY <1>0, <1>1, <2>2 DEF Reads, ExactFor, Computed
    <2>4. QED
      BY <1>0, <2>1, <2>2, <2>3, ReaderKeeps
  <1>4. CASE readers' = [readers EXCEPT ![r].position = pool, ![r].step = "pool"]
    <2>1. DOMAIN readers' = Readers /\ \A q \in Readers \ {r} : readers'[q] = readers[q]
      BY <1>0, <1>4
    <2>2. /\ DOMAIN readers'[r] = Fields /\ readers'[r].step = "pool"
          /\ readers'[r].position = pool
      BY <1>0, <1>4 DEF Fields
    <2>3. Reads(r)' /\ ExactFor(r)'
      BY <1>0, <1>1, <2>2 DEF Reads, ExactFor, Computed
    <2>4. QED
      BY <1>0, <2>1, <2>2, <2>3, ReaderKeeps
  <1>5. CASE /\ readers[r].step = "pool"
             /\ readers' = [readers EXCEPT ![r].at = pool, ![r].step = "lower"]
    <2>1. DOMAIN readers' = Readers /\ \A q \in Readers \ {r} : readers'[q] = readers[q]
      BY <1>0, <1>5
    <2>2. /\ DOMAIN readers'[r] = Fields /\ readers'[r].step = "lower"
          /\ readers'[r].position = readers[r].position /\ readers'[r].at = pool
      BY <1>0, <1>5 DEF Fields
    <2>3. Accrued(readers[r].position) /\ Before(readers[r].position, pool)
      BY <1>0, <1>5 DEF Reads
    <2>4. Reads(r)' /\ ExactFor(r)'
      BY <1>0, <2>2, <2>3 DEF Reads, ExactFor, Computed
    <2>5. QED
      BY <1>0, <2>1, <2>2, <2>4, ReaderKeeps
  <1>6. QED
    BY <1>2, <1>3, <1>4, <1>5 DEF ReadPosition, ReadPool

LEMMA ReadLowerKeeps ==
    ASSUME FeesInv, NEW r \in Readers, ReadLower(r)
    PROVE  FeesInv'
  <1>0. /\ UNCHANGED <<protocol, pool, indexed>> /\ DOMAIN readers = Readers
        /\ DOMAIN readers[r] = Fields /\ Reads(r) /\ readers[r].step = "lower"
    BY DEF ReadLower, ReaderStep, FeesInv, Shape
  <1>1. \/ readers' = [readers EXCEPT ![r].lower = pool.outside.lower, ![r].step = "upper"]
        \/ readers' = [readers EXCEPT ![r].step = "upper"]
    BY DEF ReadLower
  <1>2. DOMAIN readers' = Readers /\ \A q \in Readers \ {r} : readers'[q] = readers[q]
    BY <1>0, <1>1
  <1>3. /\ DOMAIN readers'[r] = Fields /\ readers'[r].step = "upper"
        /\ readers'[r].position = readers[r].position /\ readers'[r].at = readers[r].at
    BY <1>0, <1>1 DEF Fields
  <1>4. Reads(r)' /\ ExactFor(r)'
    BY <1>0, <1>3 DEF Reads, ExactFor, Computed
  <1>5. QED
    BY <1>0, <1>2, <1>3, <1>4, ReaderKeeps

LEMMA ReadUpperKeeps ==
    ASSUME FeesInv, NEW r \in Readers, ReadUpper(r)
    PROVE  FeesInv'
  <1>0. /\ UNCHANGED <<protocol, pool, indexed>> /\ DOMAIN readers = Readers
        /\ DOMAIN readers[r] = Fields /\ Reads(r) /\ readers[r].step = "upper"
        /\ protocol \in {"uniswap", "raydium"}
    BY DEF ReadUpper, ReaderStep, FeesInv, Shape
  <1>1. PICK lower, upper : readers' = [readers EXCEPT
            ![r].lower = lower, ![r].upper = upper, ![r].fees = FeesFrom(r, lower, upper),
            ![r].step = IF protocol = "uniswap" THEN "done" ELSE "state"]
    BY DEF ReadUpper
  <1>2. DOMAIN readers' = Readers /\ \A q \in Readers \ {r} : readers'[q] = readers[q]
    BY <1>0, <1>1
  <1>3. PICK p, at : p = readers[r].position /\ at = readers[r].at
    OBVIOUS
  <1>4. /\ DOMAIN readers'[r] = Fields
        /\ readers'[r].step = IF protocol = "uniswap" THEN "done" ELSE "state"
        /\ readers'[r].position = p /\ readers'[r].at = at
        /\ readers'[r].lower = lower /\ readers'[r].upper = upper
        /\ readers'[r].fees = FeesFrom(r, lower, upper)
    BY <1>0, <1>1, <1>3 DEF Fields
  <1>5. Accrued(p) /\ Accrued(at) /\ Before(p, at)
    BY <1>0, <1>3 DEF Reads
  <1>6. ASSUME p.paid = at.paid, lower = at.outside.lower, upper = at.outside.upper
        PROVE  FeesFrom(r, lower, upper)
                 = Earned(at) + (IF protocol = "uniswap" THEN 0 ELSE at.owed)
    <2>1. lower \in Nat /\ upper \in Nat /\ Earned(at) \in Nat
      BY <1>5, <1>6, PoolFields, AccruedFits DEF Accrued, Counters
    <2>2. None \notin {lower, upper}
      BY <2>1, PoolFeesAssumption
    <2>3. PICK inside : inside = GrowthInside(at.tick, LowerTick, UpperTick, at.global,
                                              lower, upper)
      OBVIOUS
    <2>4. /\ UniswapFees(Liquidity, inside, p.last) = Earned(at)
          /\ RaydiumFees(Liquidity, inside, p.last, p.owed) = Earned(at) + at.owed
      BY <1>5, <1>6, <2>3, CoherentExact
    <2>5. FeesFrom(r, lower, upper) =
            IF protocol = "uniswap" THEN UniswapFees(Liquidity, inside, p.last)
            ELSE RaydiumFees(Liquidity, inside, p.last, p.owed)
      BY <1>3, <2>2, <2>3 DEF FeesFrom
    <2>6. QED
      BY <2>1, <2>4, <2>5
  <1>7. Reads(r)' /\ ExactFor(r)'
    BY <1>0, <1>4, <1>6 DEF Reads, ExactFor, Computed, Coherent
  <1>8. QED
    BY <1>0, <1>2, <1>4, <1>7, ReaderKeeps

LEMMA PoolStepKeeps ==
    ASSUME FeesInv, PoolStep
    PROVE  FeesInv'
  <1>1. /\ Accrued(pool') /\ Accrued(indexed') /\ UNCHANGED <<protocol, readers>>
        /\ Before(pool, pool')
    BY PoolAccrues DEF FeesInv
  <1>2. ASSUME NEW r \in Readers PROVE Reads(r)' /\ ExactFor(r)'
    <2>1. ASSUME readers[r].step = "pool" PROVE Before(readers[r].position, pool')
      BY <1>1, <2>1, BeforeTwice, PoolFields DEF FeesInv, Reads, Accrued
    <2>2. QED
      BY <1>1, <2>1 DEF FeesInv, Reads, ExactFor, Computed, Coherent
  <1>3. QED
    BY <1>1, <1>2 DEF FeesInv, Shape

LEMMA FeesNext == FeesInv /\ [Next]_vars => FeesInv'
  <1> SUFFICES ASSUME FeesInv, [Next]_vars PROVE FeesInv'
    OBVIOUS
  <1>1. CASE PoolStep
    BY <1>1, PoolStepKeeps
  <1>2. ASSUME NEW r \in Readers,
               Begin(r) \/ ReadState(r) \/ NoScan(r) \/ Scan(r) \/ SaveState(r)
        PROVE  FeesInv'
    <2>1. ReaderStep
      BY <1>2 DEF Begin, ReadState, NoScan, Scan, SaveState
    <2>2. QED
      BY <1>2, <2>1, OtherStepsKeep
  <1>3. ASSUME NEW r \in Readers,
               ReadPosition(r) \/ ReadPool(r) \/ ReadLower(r) \/ ReadUpper(r)
        PROVE  FeesInv'
    BY <1>3, ReadPositionKeeps, ReadLowerKeeps, ReadUpperKeeps
  <1>4. CASE UNCHANGED vars
    BY <1>4 DEF vars, FeesInv, Shape, Reads, ExactFor, Computed, Coherent
  <1>5. QED
    BY <1>1, <1>2, <1>3, <1>4 DEF Next

\* A read whose parts belong together reports exactly what the position has
\* earned, for counters of every width that the fees fit in, however far the
\* price has moved and however often the counters have wrapped around.
THEOREM FeesExactAlways == Spec => []FeesExact
  <1>1. FeesInv => FeesExact
    BY DEF FeesInv, ExactFor, FeesExact
  <1>2. QED
    BY <1>1, FeesInit, FeesNext, PTL DEF Spec

----------------------------------------------------------------------------
(* The document: what counts as collected.                                 *)

Seen(n) == SumFunctionOnSet(pool.paid, 1..n)

\* The amount has been paid by the transactions up to the signature, each
\* counted once, and all of them counted while a scan can see them all.
Counted(signature, collected) ==
    /\ signature \in 0..Len(pool.paid) /\ collected \in Nat
    /\ collected <= Seen(signature)
    /\ Len(pool.paid) <= Limit => collected = Seen(signature)

Documents == [last : Nat, collected : Nat, signature : Nat]

CountedBy(state) ==
    state # None => state \in Documents /\ Counted(state.signature, state.collected)

Steps == {"idle", "position", "pool", "lower", "upper", "state", "scan", "save", "done",
          "failed"}

CountedFor(r) ==
    /\ readers[r].step \in Steps /\ readers[r].fees \in Nat
    /\ readers[r].lower \in Counters \cup {None}
    /\ CountedBy(readers[r].state)
    /\ Counted(readers[r].signature, readers[r].collected)

CollectedInv ==
    /\ CountedBy(store)
    /\ \A r \in Readers : CountedFor(r)

LEMMA PoolPaid == FeesInv => pool \in Pools /\ pool.paid \in Seq(Nat) /\ Len(pool.paid) \in Nat
  BY PoolFields DEF FeesInv, Accrued

LEMMA SeenType ==
    ASSUME FeesInv, NEW n \in 0..Len(pool.paid)
    PROVE  IsFiniteSet(1..n) /\ Seen(n) \in Nat
  <1>1. pool.paid \in Seq(Nat) /\ n \in Nat /\ Len(pool.paid) \in Nat
    BY PoolPaid
  <1>2. IsFiniteSet(1..n)
    BY <1>1, FS_Interval
  <1>3. \A i \in 1..n : pool.paid[i] \in Nat
    BY <1>1
  <1>4. QED
    BY <1>2, <1>3, SumNonNegative DEF Seen

LEMMA NothingCounted == FeesInv => Counted(0, 0)
  <1> SUFFICES ASSUME FeesInv PROVE Counted(0, 0)
    OBVIOUS
  <1>1. 1..0 = {} /\ Len(pool.paid) \in Nat
    BY PoolPaid
  <1>2. Seen(0) = 0
    BY <1>1, SumEmpty DEF Seen
  <1>3. QED
    BY <1>1, <1>2 DEF Counted

\* Transactions are only ever added to those of the position.
LEMMA CountedStays ==
    ASSUME FeesInv, NEW signature, NEW collected, Counted(signature, collected),
           pool'.paid = pool.paid \/ \E p \in Nat : pool'.paid = Append(pool.paid, p)
    PROVE  Counted(signature, collected)'
  <1>1. pool.paid \in Seq(Nat) /\ Len(pool.paid) \in Nat /\ signature \in 0..Len(pool.paid)
    BY PoolPaid DEF Counted
  <1>2. /\ Len(pool'.paid) \in Nat /\ Len(pool.paid) <= Len(pool'.paid)
        /\ \A i \in 1..signature : pool'.paid[i] = pool.paid[i]
    BY <1>1
  <1>3. IsFiniteSet(1..signature)
    BY <1>1, SeenType
  <1>4. Seen(signature)' = Seen(signature)
    BY <1>2, <1>3, SumSame DEF Seen
  <1>5. Limit \in Nat
    BY PoolFeesAssumption
  <1>6. QED
    BY <1>1, <1>2, <1>4, <1>5 DEF Counted

\* What a scan finds: the signatures after the last one it has scanned, all
\* of them when there are no more than it asks for.
LEMMA FreshSignatures ==
    ASSUME NEW since \in Nat, NEW final \in Nat, since <= final
    PROVE  /\ Fresh(since, final) \subseteq (since + 1)..final
           /\ final <= Limit => Fresh(since, final) = (since + 1)..final
  <1>1. Limit \in Nat /\ final - Limit \in Int
    BY PoolFeesAssumption
  <1> DEFINE m == IF since >= final - Limit THEN since ELSE final - Limit
  <1>2. /\ m \in {since, final - Limit} /\ m \in Int
        /\ \A y \in {since, final - Limit} : m >= y
    BY <1>1
  <1>3. \A x \in {since, final - Limit} :
          (\A y \in {since, final - Limit} : x >= y) => x = m
    BY <1>1
  <1> HIDE DEF m
  <1>4. Max({since, final - Limit}) = m
    BY <1>2, <1>3 DEF Max
  <1>5. Fresh(since, final) = (m + 1)..final
    BY <1>4 DEF Fresh
  <1>6. QED
    BY <1>1, <1>5 DEF m

LEMMA ScanCounts ==
    ASSUME FeesInv, NEW since, NEW collected, Counted(since, collected),
           NEW final \in since..Len(pool.paid)
    PROVE  Counted(final, collected
                    + MapThenSumSet(LAMBDA i : pool.paid[i], Fresh(since, final)))
  <1> DEFINE all == 1..final
             before == 1..since
             after == (since + 1)..final
             fresh == Fresh(since, final)
             found == SumFunctionOnSet(pool.paid, fresh)
  <1>1. /\ pool.paid \in Seq(Nat) /\ Len(pool.paid) \in Nat /\ since \in Nat
        /\ final \in Nat /\ since <= final /\ final <= Len(pool.paid) /\ Limit \in Nat
    BY PoolPaid, PoolFeesAssumption DEF Counted
  <1>2. MapThenSumSet(LAMBDA i : pool.paid[i], fresh) = found
    BY DEF MapThenSumSet, MapThenFoldSet, SumFunctionOnSet, FoldFunctionOnSet
  <1>3. fresh \subseteq after /\ (final <= Limit => fresh = after)
    BY <1>1, FreshSignatures
  <1>4. IsFiniteSet(before) /\ IsFiniteSet(after) /\ IsFiniteSet(fresh)
    <2>1. IsFiniteSet(before) /\ IsFiniteSet(after)
      BY <1>1, FS_Interval
    <2> HIDE DEF after, fresh
    <2>2. QED
      BY <1>3, <2>1, FS_Subset
  <1>5. before \cap after = {} /\ before \cup after = all
    BY <1>1
  <1>6. \A i \in before \cup after : pool.paid[i] \in Nat
    BY <1>1, <1>5
  <1> HIDE DEF all, before, after, fresh
  <1>7. SumFunctionOnSet(pool.paid, all)
          = SumFunctionOnSet(pool.paid, before) + SumFunctionOnSet(pool.paid, after)
    BY <1>4, <1>5, <1>6, SumOfUnion
  <1>8. found <= SumFunctionOnSet(pool.paid, after) /\ found \in Nat
    BY <1>3, <1>4, <1>6, SumOfPart, SumNonNegative
  <1>9. SumFunctionOnSet(pool.paid, before) \in Nat /\ SumFunctionOnSet(pool.paid, after) \in Nat
    BY <1>4, <1>6, SumNonNegative
  <1>10. Seen(final) = Seen(since) + SumFunctionOnSet(pool.paid, after)
    BY <1>7 DEF Seen, all, before
  <1>11. Seen(since) \in Nat
    BY <1>9 DEF Seen, before
  <1>12. /\ collected \in Nat /\ collected <= Seen(since)
         /\ Len(pool.paid) <= Limit => collected = Seen(since)
    BY DEF Counted
  <1>13. Counted(final, collected + found)
    <2>1. final \in 0..Len(pool.paid)
      BY <1>1
    <2>2. Len(pool.paid) <= Limit => found = SumFunctionOnSet(pool.paid, after)
      BY <1>1, <1>3
    <2> HIDE DEF found
    <2>3. QED
      BY <1>8, <1>9, <1>10, <1>11, <1>12, <2>1, <2>2 DEF Counted
  <1>14. QED
    BY <1>2, <1>13 DEF fresh
LEMMA CollectedInit == Init /\ FeesInv => CollectedInv
  <1> SUFFICES ASSUME Init, FeesInv PROVE CollectedInv
    OBVIOUS
  <1>1. Counted(0, 0)
    BY NothingCounted
  <1>2. store = None
    BY DEF Init
  <1>3. ASSUME NEW r \in Readers PROVE CountedFor(r)
    BY <1>1, <1>3 DEF Init, NoReader, CountedFor, CountedBy, Steps
  <1>4. QED
    BY <1>2, <1>3 DEF CollectedInv, CountedBy

LEMMA PoolStepCounts ==
    ASSUME FeesInv, CollectedInv, PoolStep \/ UNCHANGED vars
    PROVE  CollectedInv'
  <1>1. pool'.paid = pool.paid \/ \E p \in Nat : pool'.paid = Append(pool.paid, p)
    <2>0. pool \in Pools /\ Earned(pool) \in Nat /\ pool.owed \in Nat
      BY PoolPaid, PoolFields, AccruedFits DEF FeesInv
    <2>1. ASSUME NEW n \in Growths, Swap(n) PROVE pool'.paid = pool.paid
      BY <2>0, <2>1 DEF Swap, Pools
    <2>2. CASE MoveTick
      BY <2>0, <2>2 DEF MoveTick, Cross, Pools
    <2>3. ASSUME NEW collects \in BOOLEAN, Touch(collects)
          PROVE  \E p \in Nat : pool'.paid = Append(pool.paid, p)
      <3>1. pool.owed + Earned(pool) \in Nat
        BY <2>0
      <3>2. \E p \in {0, pool.owed + Earned(pool)} : pool'.paid = Append(pool.paid, p)
        BY <2>0, <2>3 DEF Touch, Pools
      <3>3. QED
        BY <3>1, <3>2
    <2>4. CASE Index
      BY <2>4 DEF Index
    <2>5. CASE UNCHANGED vars
      BY <2>5 DEF vars
    <2>6. QED
      BY <2>1, <2>2, <2>3, <2>4, <2>5 DEF PoolStep
  <1>2. UNCHANGED <<store, readers>>
    BY DEF PoolStep, Swap, MoveTick, Cross, Touch, Moves, Index, vars
  <1>3. \A s, c : Counted(s, c) => Counted(s, c)'
    BY <1>1, CountedStays
  <1>4. CountedBy(store)'
    BY <1>2, <1>3 DEF CollectedInv, CountedBy
  <1>5. ASSUME NEW r \in Readers PROVE CountedFor(r)'
    BY <1>2, <1>3 DEF CollectedInv, CountedFor, CountedBy
  <1>6. QED
    BY <1>4, <1>5 DEF CollectedInv

\* A step of one reader.
LEMMA ReaderCounts ==
    ASSUME CollectedInv, UNCHANGED pool, NEW r \in Readers,
           \A q \in Readers \ {r} : readers'[q] = readers[q],
           CountedFor(r)', CountedBy(store)'
    PROVE  CollectedInv'
  <1>1. ASSUME NEW q \in Readers \ {r} PROVE CountedFor(q)'
    BY <1>1 DEF CollectedInv, CountedFor, CountedBy, Counted, Seen
  <1>2. QED
    BY <1>1 DEF CollectedInv

\* What has been read is used; nothing is counted.
LEMMA ReadCounts ==
    ASSUME FeesInv, CollectedInv, UNCHANGED <<pool, store>>, NEW r \in Readers,
           DOMAIN readers' = Readers,
           \A q \in Readers \ {r} : readers'[q] = readers[q],
           readers'[r].step \in Steps, readers'[r].fees \in Nat,
           readers'[r].lower \in Counters \cup {None},
           readers'[r].state \in {None, readers[r].state},
           \/ readers'[r].signature = 0 /\ readers'[r].collected = 0
           \/ /\ readers'[r].signature = readers[r].signature
              /\ readers'[r].collected = readers[r].collected
    PROVE  CollectedInv'
  <1>1. Counted(0, 0)
    BY NothingCounted
  <1>2. \A s, c : Counted(s, c) => Counted(s, c)'
    BY DEF Counted, Seen
  <1>3. CountedFor(r)' /\ CountedBy(store)'
    BY <1>1, <1>2 DEF CollectedInv, CountedFor, CountedBy
  <1>4. QED
    BY <1>3, ReaderCounts

\* Fees are amounts, whatever was read of the ticks.
LEMMA FeesType ==
    ASSUME FeesInv, NEW r \in Readers, readers[r].step = "upper",
           NEW lower \in Counters \cup {None}, NEW upper \in Counters \cup {None},
           protocol = "uniswap" => None \notin {lower, upper}
    PROVE  FeesFrom(r, lower, upper) \in Nat
  <1> DEFINE at == readers[r].at
             position == readers[r].position
             inside == GrowthInside(at.tick, LowerTick, UpperTick, at.global, lower, upper)
  <1>1. at \in Pools /\ position \in Pools
    BY DEF FeesInv, Reads, Accrued
  <1>2. at.tick \in 0..2 /\ at.global \in Counters /\ position.last \in Counters
        /\ position.owed \in Nat
    BY <1>1, PoolFields
  <1>3. CASE None \in {lower, upper}
    BY <1>2, <1>3 DEF FeesFrom
  <1>4. CASE None \notin {lower, upper}
    <2>1. lower \in Counters /\ upper \in Counters
      BY <1>4
    <2>2. inside \in Counters
      BY <1>2, <2>1, InsideByTick
    <2>3. PICK grown \in Counters : grown = Subtract(inside, position.last)
      BY <1>2, <2>2, SubtractWraps
    <2>4. PICK product \in Nat : product = Liquidity * grown
      BY PoolFeesAssumption, ModulusType DEF Counters
    <2>5. product \div Scale \in Nat /\ (product % Modulus) \div Scale \in Nat
      <3>1. product % Modulus \in Nat
        BY <2>4, ModulusType
      <3>2. QED
        BY <2>4, <3>1, ModulusType
    <2>6. UniswapFees(Liquidity, inside, position.last) \in Nat
      BY <2>3, <2>4, <2>5 DEF UniswapFees
    <2>7. RaydiumFees(Liquidity, inside, position.last, position.owed) \in Nat
      BY <1>2, <2>3, <2>4, <2>5 DEF RaydiumFees
    <2>8. QED
      BY <1>4, <2>6, <2>7 DEF FeesFrom
  <1>5. QED
    BY <1>3, <1>4
LEMMA FreshReaderFields ==
    ASSUME NEW s, NEW fees, NEW state
    PROVE  LET q == [NoReader EXCEPT !.step = s, !.fees = fees, !.state = state]
               p == [NoReader EXCEPT !.step = s]
           IN  /\ q.step = s /\ q.fees = fees /\ q.state = state /\ q.lower = None
               /\ q.signature = 0 /\ q.collected = 0
               /\ p.step = s /\ p.fees = 0 /\ p.state = None /\ p.lower = None
               /\ p.signature = 0 /\ p.collected = 0
  BY DEF NoReader

\* The reader begins or gives up.
LEMMA AnewCounts ==
    ASSUME FeesInv, CollectedInv, UNCHANGED <<pool, store>>, NEW r \in Readers,
           NEW s \in Steps,
           readers' = [readers EXCEPT ![r] = [NoReader EXCEPT !.step = s]]
    PROVE  CollectedInv'
  <1>0. DOMAIN readers = Readers
    BY DEF FeesInv, Shape
  <1>1. readers'[r] = [NoReader EXCEPT !.step = s]
    BY <1>0
  <1>2. DOMAIN readers' = Readers /\ \A q \in Readers \ {r} : readers'[q] = readers[q]
    BY <1>0
  <1>3. QED
    BY <1>1, <1>2, FreshReaderFields, ReadCounts

LEMMA ReadingCounts ==
    ASSUME FeesInv, CollectedInv, NEW r \in Readers,
           Begin(r) \/ ReadPosition(r) \/ ReadPool(r) \/ ReadLower(r)
    PROVE  CollectedInv'
  <1>0. /\ UNCHANGED <<pool, store>> /\ DOMAIN readers = Readers
        /\ DOMAIN readers[r] = Fields /\ CountedFor(r)
    BY DEF Begin, ReadPosition, ReadPool, ReadLower, ReaderStep, FeesInv, Shape, CollectedInv
  <1>1. CASE Begin(r) \/ GiveUp(r)
    <2>1. \E s \in Steps : readers' = [readers EXCEPT ![r] = [NoReader EXCEPT !.step = s]]
      BY <1>1 DEF Begin, GiveUp, Steps
    <2>2. QED
      BY <1>0, <2>1, AnewCounts
  <1>2. pool.outside.lower \in Counters /\ readers[r].lower \in Counters \cup {None}
    BY <1>0, PoolPaid, PoolFields DEF CountedFor
  <1>3. CASE \/ readers' = [readers EXCEPT ![r].position = indexed, ![r].at = indexed,
                                           ![r].step = "lower"]
             \/ readers' = [readers EXCEPT ![r].position = pool, ![r].step = "pool"]
             \/ readers' = [readers EXCEPT ![r].at = pool, ![r].step = "lower"]
             \/ readers' = [readers EXCEPT ![r].lower = pool.outside.lower,
                                           ![r].step = "upper"]
             \/ readers' = [readers EXCEPT ![r].step = "upper"]
    <2>1. DOMAIN readers' = Readers /\ \A q \in Readers \ {r} : readers'[q] = readers[q]
      BY <1>0, <1>3
    <2>2. /\ readers'[r].step \in {"lower", "pool", "upper"}
          /\ readers'[r].lower \in {readers[r].lower, pool.outside.lower}
          /\ readers'[r].fees = readers[r].fees /\ readers'[r].state = readers[r].state
          /\ readers'[r].signature = readers[r].signature
          /\ readers'[r].collected = readers[r].collected
      BY <1>0, <1>3 DEF Fields
    <2>3. /\ readers'[r].step \in Steps /\ readers'[r].lower \in Counters \cup {None}
          /\ readers'[r].fees \in Nat
      BY <1>0, <1>2, <2>2 DEF Steps, CountedFor
    <2>4. QED
      BY <1>0, <2>1, <2>2, <2>3, ReadCounts
  <1>4. QED
    BY <1>1, <1>3 DEF ReadPosition, ReadPool, ReadLower

LEMMA ReadUpperCounts ==
    ASSUME FeesInv, CollectedInv, NEW r \in Readers, ReadUpper(r)
    PROVE  CollectedInv'
  <1>0. /\ UNCHANGED <<pool, store>> /\ DOMAIN readers = Readers
        /\ DOMAIN readers[r] = Fields /\ CountedFor(r) /\ Reads(r)
        /\ readers[r].step = "upper"
    BY DEF ReadUpper, ReaderStep, FeesInv, Shape, CollectedInv
  <1>1. PICK read \in {pool.outside.upper, None} :
          readers' = [readers EXCEPT
             ![r].lower = KnownGrowth(r, "lower", readers[r].lower),
             ![r].upper = KnownGrowth(r, "upper", read),
             ![r].fees = FeesFrom(r, KnownGrowth(r, "lower", readers[r].lower),
                                  KnownGrowth(r, "upper", read)),
             ![r].step = IF protocol = "uniswap" THEN "done" ELSE "state"]
    BY DEF ReadUpper
  <1>2. PICK lower, upper : /\ lower = KnownGrowth(r, "lower", readers[r].lower)
                            /\ upper = KnownGrowth(r, "upper", read)
    OBVIOUS
  <1>3. /\ lower \in Counters \cup {None} /\ upper \in Counters \cup {None}
        /\ protocol = "uniswap" => None \notin {lower, upper}
    <2>1. readers[r].at \in Pools
      BY <1>0 DEF Reads, Accrued
    <2>2. /\ readers[r].at.outside["lower"] \in Counters
          /\ readers[r].at.outside["upper"] \in Counters
          /\ pool.outside.upper \in Counters
      BY <2>1, PoolFields, PoolPaid DEF Ticks
    <2>3. None \notin Counters
      BY PoolFeesAssumption, ModulusType DEF Counters
    <2>4. readers[r].lower \in Counters \cup {None}
      BY <1>0 DEF CountedFor
    <2>5. QED
      BY <1>2, <2>2, <2>3, <2>4 DEF KnownGrowth
  <1>4. DOMAIN readers' = Readers /\ \A q \in Readers \ {r} : readers'[q] = readers[q]
    BY <1>0, <1>1
  <1>5. /\ readers'[r].step \in {"done", "state"} /\ readers'[r].lower = lower
        /\ readers'[r].fees = FeesFrom(r, lower, upper)
        /\ readers'[r].state = readers[r].state
        /\ readers'[r].signature = readers[r].signature
        /\ readers'[r].collected = readers[r].collected
    BY <1>0, <1>1, <1>2 DEF Fields
  <1>6. readers'[r].fees \in Nat
    BY <1>0, <1>3, <1>5, FeesType
  <1>7. readers'[r].step \in Steps
    BY <1>5 DEF Steps
  <1>8. QED
    BY <1>0, <1>3, <1>4, <1>5, <1>6, <1>7, ReadCounts

\* The document as it is now, or none.
LEMMA ReadStateCounts ==
    ASSUME FeesInv, CollectedInv, NEW r \in Readers, ReadState(r)
    PROVE  CollectedInv'
  <1>0. /\ UNCHANGED <<pool, store>> /\ DOMAIN readers = Readers
        /\ readers[r].fees \in Nat
    BY DEF ReadState, ReaderStep, FeesInv, Shape, CollectedInv, CountedFor
  <1>1. PICK state \in {store, None} : readers' = [readers EXCEPT ![r] =
            [NoReader EXCEPT !.step = "scan", !.fees = readers[r].fees, !.state = state]]
    BY DEF ReadState
  <1>2. readers'[r] =
            [NoReader EXCEPT !.step = "scan", !.fees = readers[r].fees, !.state = state]
    BY <1>0, <1>1
  <1>3. \A q \in Readers \ {r} : readers'[q] = readers[q]
    BY <1>0, <1>1
  <1>4. /\ readers'[r].step = "scan" /\ readers'[r].fees \in Nat /\ readers'[r].lower = None
        /\ readers'[r].state = state
        /\ readers'[r].signature = 0 /\ readers'[r].collected = 0
    BY <1>0, <1>2, FreshReaderFields
  <1>5. Counted(0, 0) /\ CountedBy(state)
    BY NothingCounted DEF CollectedInv, CountedBy
  <1>6. \A s, c : Counted(s, c) => Counted(s, c)'
    BY <1>0 DEF Counted, Seen
  <1>7. CountedFor(r)' /\ CountedBy(store)'
    BY <1>0, <1>4, <1>5, <1>6 DEF CollectedInv, CountedFor, CountedBy, Steps
  <1>8. QED
    BY <1>0, <1>3, <1>7, ReaderCounts

\* Nothing was collected, nothing could be read, or what was paid after the
\* last signature is added to what the document has counted.
LEMMA ScanStepCounts ==
    ASSUME FeesInv, CollectedInv, NEW r \in Readers, NoScan(r) \/ Scan(r)
    PROVE  CollectedInv'
  <1>0. /\ UNCHANGED <<pool, store>> /\ DOMAIN readers = Readers
        /\ DOMAIN readers[r] = Fields /\ CountedFor(r)
    BY DEF NoScan, Scan, ReaderStep, FeesInv, Shape, CollectedInv
  <1>1. Counted(ScannedUpTo(r), CollectedBefore(r))
    BY <1>0, NothingCounted DEF ScannedUpTo, CollectedBefore, CountedFor, CountedBy
  <1>2. ASSUME NEW signature, NEW collected, Counted(signature, collected),
               readers' = [readers EXCEPT ![r].step = "save", ![r].signature = signature,
                                          ![r].collected = collected]
        PROVE  CollectedInv'
    <2>1. \A q \in Readers \ {r} : readers'[q] = readers[q]
      BY <1>0, <1>2
    <2>2. /\ readers'[r].step = "save" /\ readers'[r].fees = readers[r].fees
          /\ readers'[r].lower = readers[r].lower /\ readers'[r].state = readers[r].state
          /\ readers'[r].signature = signature /\ readers'[r].collected = collected
      BY <1>0, <1>2 DEF Fields
    <2>3. \A s, c : Counted(s, c) => Counted(s, c)'
      BY <1>0 DEF Counted, Seen
    <2>4. CountedFor(r)' /\ CountedBy(store)'
      BY <1>0, <1>2, <2>2, <2>3 DEF CollectedInv, CountedFor, CountedBy, Steps
    <2>5. QED
      BY <1>0, <2>1, <2>4, ReaderCounts
  <1>3. CASE NoScan(r)
    BY <1>1, <1>2, <1>3 DEF NoScan
  <1>4. CASE Scan(r) /\ FailedScan(r, ScannedUpTo(r))
    BY <1>1, <1>2, <1>4 DEF FailedScan
  <1>5. CASE \E final \in ScannedUpTo(r)..Len(pool.paid) :
               readers' = [readers EXCEPT ![r].step = "save", ![r].signature = final,
                  ![r].collected = CollectedBefore(r)
                      + MapThenSumSet(LAMBDA i : pool.paid[i], Fresh(ScannedUpTo(r), final))]
    <2>1. PICK final \in ScannedUpTo(r)..Len(pool.paid) :
               readers' = [readers EXCEPT ![r].step = "save", ![r].signature = final,
                  ![r].collected = CollectedBefore(r)
                      + MapThenSumSet(LAMBDA i : pool.paid[i], Fresh(ScannedUpTo(r), final))]
      BY <1>5
    <2>2. PICK collected : collected = CollectedBefore(r)
                      + MapThenSumSet(LAMBDA i : pool.paid[i], Fresh(ScannedUpTo(r), final))
      OBVIOUS
    <2>3. Counted(final, collected)
      BY <1>1, <2>2, ScanCounts
    <2>4. QED
      BY <1>2, <2>1, <2>2, <2>3
  <1>6. QED
    BY <1>3, <1>4, <1>5 DEF Scan

LEMMA SaveStateCounts ==
    ASSUME FeesInv, CollectedInv, NEW r \in Readers, SaveState(r)
    PROVE  CollectedInv'
  <1>0. /\ UNCHANGED pool /\ DOMAIN readers = Readers
        /\ CountedFor(r)
        /\ readers' = [readers EXCEPT ![r] = [NoReader EXCEPT !.step = "done"]]
        /\ store' \in {store, StateOf(r)}
    BY DEF SaveState, ReaderStep, FeesInv, Shape, CollectedInv
  <1>1. \A s, c : Counted(s, c) => Counted(s, c)'
    BY <1>0 DEF Counted, Seen
  <1>2. CountedBy(StateOf(r))
    <2>1. /\ readers[r].fees \in Nat /\ Counted(readers[r].signature, readers[r].collected)
          /\ Len(pool.paid) \in Nat
      BY <1>0, PoolPaid DEF CountedFor
    <2>2. StateOf(r) \in Documents
      BY <2>1 DEF StateOf, Documents, Counted
    <2>3. QED
      BY <2>1, <2>2 DEF StateOf, CountedBy
  <1>3. CountedBy(store)'
    BY <1>0, <1>1, <1>2 DEF CollectedInv, CountedBy
  <1>4. readers'[r] = [NoReader EXCEPT !.step = "done"]
        /\ \A q \in Readers \ {r} : readers'[q] = readers[q]
    BY <1>0
  <1>5. CountedFor(r)'
    BY <1>1, <1>4, NothingCounted, FreshReaderFields DEF CountedFor, CountedBy, Steps
  <1>6. QED
    BY <1>0, <1>3, <1>4, <1>5, ReaderCounts

LEMMA CollectedNext == FeesInv /\ CollectedInv /\ [Next]_vars => CollectedInv'
  BY PoolStepCounts, ReadingCounts, ReadUpperCounts, ReadStateCounts, ScanStepCounts,
     SaveStateCounts DEF Next

LEMMA CollectedInvAlways == Spec => [](FeesInv /\ CollectedInv)
  BY FeesInit, FeesNext, CollectedInit, CollectedNext, PTL DEF Spec

\* The pool, what is known of it, the document and the readers keep their
\* types; a signature that was scanned is one of the position's transactions.
THEOREM PoolTypeOK == Spec => []TypeOK
  <1>1. FeesInv /\ CollectedInv => TypeOK
    <2> SUFFICES ASSUME FeesInv, CollectedInv PROVE TypeOK
      OBVIOUS
    <2>1. pool \in Pools /\ indexed \in Pools
      BY DEF FeesInv, Accrued
    <2>2. store # None =>
            store \in [last : Nat, collected : Nat, signature : 0..Len(pool.paid)]
      BY DEF CollectedInv, CountedBy, Counted, Documents
    <2>3. QED
      BY <2>1, <2>2 DEF CollectedInv, CountedFor, Counted, Steps, TypeOK
  <1>2. QED
    BY <1>1, CollectedInvAlways, PTL

\* What the document counts as collected is what the transactions up to its
\* signature have paid, none of them twice, for any number of readers that
\* overlap, fail or overwrite each other's document; and all of them as long
\* as a scan can see them all.
THEOREM CollectedOnceAlways == Spec => []CollectedOnce
  <1>1. CollectedInv => CollectedOnce
    BY DEF CollectedInv, CountedBy, Counted, Seen, CollectedOnce
  <1>2. QED
    BY <1>1, CollectedInvAlways, PTL

=============================================================================
