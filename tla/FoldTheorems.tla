---------------------------- MODULE FoldTheorems ----------------------------
(***************************************************************************)
(* What the community modules compute one element after the other: sums    *)
(* over finite sets of indices, and the largest and smallest of a set.     *)
(***************************************************************************)
EXTENDS Integers, SequencesExt, FiniteSetTheorems, WellFoundedInduction, TLAPS

----------------------------------------------------------------------------
(* The recursion is well defined.                                          *)

Pick(s) == CHOOSE x \in s : TRUE

IsFold(g, f, S) ==
    g = [s \in SUBSET S |->
            IF s = {} THEN 0 ELSE f[Pick(s)] + g[s \ {Pick(s)}]]

LEMMA SumUnfolds ==
    ASSUME NEW f, NEW S
    PROVE  SumFunctionOnSet(f, S) = (CHOOSE g : IsFold(g, f, S))[S]
  BY DEF SumFunctionOnSet, FoldFunctionOnSet, MapThenFoldSet, IsFold, Pick

LEMMA PickIsElement ==
    ASSUME NEW s, s # {}
    PROVE  Pick(s) \in s
  BY DEF Pick

\* Of the finite sets in a collection one is minimal.
LEMMA SmallestSet ==
    ASSUME NEW S, IsFiniteSet(S), NEW T, T \subseteq SUBSET S, T # {}
    PROVE  \E s \in T : \A t \in T : ~(t \subseteq s /\ t # s)
  <1>1. IsWellFoundedOn(StrictSubsetOrdering(S), SUBSET S)
    BY FS_StrictSubsetOrderingWellFounded, FS_FiniteSubsetsOfFinite
  <1>2. \E s \in T : \A t \in T : ~(<<t, s>> \in StrictSubsetOrdering(S))
    BY <1>1, WFMin
  <1>3. QED
    BY <1>2 DEF StrictSubsetOrdering

\* Two such functions agree where both are defined.
LEMMA FoldUnique ==
    ASSUME NEW f, NEW S, NEW R, IsFiniteSet(S), NEW g, NEW h,
           IsFold(g, f, S), IsFold(h, f, R)
    PROVE  \A s \in SUBSET S : s \subseteq R => g[s] = h[s]
  <1> DEFINE Bad == {s \in SUBSET S : s \subseteq R /\ g[s] # h[s]}
  <1>1. SUFFICES ASSUME Bad # {} PROVE FALSE
    OBVIOUS
  <1>2. PICK s \in Bad : \A t \in Bad : ~(t \subseteq s /\ t # s)
    <2>1. Bad \subseteq SUBSET S
      OBVIOUS
    <2> HIDE DEF Bad
    <2>2. QED
      BY <1>1, <2>1, SmallestSet
  <1>3. s # {}
    BY <1>2 DEF IsFold
  <1>4. Pick(s) \in s
    BY <1>3, PickIsElement
  <1>5. g[s \ {Pick(s)}] = h[s \ {Pick(s)}]
    BY <1>2, <1>4
  <1>6. g[s] = f[Pick(s)] + g[s \ {Pick(s)}] /\ h[s] = f[Pick(s)] + h[s \ {Pick(s)}]
    BY <1>2, <1>3 DEF IsFold
  <1>7. QED
    BY <1>2, <1>5, <1>6

Fold(f, S) == CHOOSE g : IsFold(g, f, S)

\* The functions of the subsets, each applied to its set, are one for S.
LEMMA FoldExists ==
    ASSUME NEW f, NEW S, IsFiniteSet(S)
    PROVE  IsFold(Fold(f, S), f, S)
  <1> DEFINE Without == {s \in SUBSET S : ~ \E g : IsFold(g, f, s)}
  <1>1. ASSUME NEW s \in SUBSET S, \A t \in SUBSET s : t # s => \E g : IsFold(g, f, t)
        PROVE  \E g : IsFold(g, f, s)
    <2> DEFINE below(t) == IF t = {} THEN 0
                           ELSE f[Pick(t)] + Fold(f, t \ {Pick(t)})[t \ {Pick(t)}]
               whole == [t \in SUBSET s |-> below(t)]
    <2>1. ASSUME NEW t \in SUBSET s, t # {}
          PROVE  whole[t \ {Pick(t)}] = Fold(f, t \ {Pick(t)})[t \ {Pick(t)}]
      <3> DEFINE u == t \ {Pick(t)}
      <3>1. Pick(t) \in t
        BY <2>1, PickIsElement
      <3>2. u \in SUBSET s /\ u # s
        BY <2>1, <3>1
      <3>3. IsFold(Fold(f, u), f, u)
        BY <1>1, <3>2 DEF Fold
      <3>4. u \in SUBSET u
        OBVIOUS
      <3>5. Fold(f, u)[u] = IF u = {} THEN 0 ELSE f[Pick(u)] + Fold(f, u)[u \ {Pick(u)}]
        BY <3>3, <3>4 DEF IsFold
      <3>6. CASE u = {}
        BY <3>2, <3>5, <3>6
      <3>7. CASE u # {}
        <4> DEFINE v == u \ {Pick(u)}
        <4>1. Pick(u) \in u
          BY <3>7, PickIsElement
        <4>2. v \in SUBSET s /\ v # s /\ v \in SUBSET u /\ v \in SUBSET v
          BY <3>2, <4>1
        <4>3. IsFold(Fold(f, v), f, v)
          BY <1>1, <4>2 DEF Fold
        <4>4. IsFiniteSet(v)
          BY <4>2, FS_Subset
        <4>5. Fold(f, v)[v] = Fold(f, u)[v]
          BY <3>3, <4>2, <4>3, <4>4, FoldUnique
        <4>6. whole[u] = f[Pick(u)] + Fold(f, v)[v]
          BY <3>2, <3>7
        <4>7. QED
          BY <3>5, <3>7, <4>5, <4>6
      <3>8. QED
        BY <3>6, <3>7
    <2>2. IsFold(whole, f, s)
      BY <2>1 DEF IsFold
    <2>3. QED
      BY <2>2
  <1>2. Without = {}
    <2>1. SUFFICES ASSUME Without # {} PROVE FALSE
      OBVIOUS
    <2>2. Without \subseteq SUBSET S
      OBVIOUS
    <2>3. PICK s \in Without : \A t \in Without : ~(t \subseteq s /\ t # s)
      <3> HIDE DEF Without
      <3>1. QED
        BY <2>1, <2>2, SmallestSet
    <2>4. QED
      BY <1>1, <2>3
  <1>3. \E g : IsFold(g, f, S)
    BY <1>2
  <1>4. QED
    BY <1>3 DEF Fold

----------------------------------------------------------------------------
(* Sums, one index after the other.                                        *)

LEMMA SumEmpty ==
    ASSUME NEW f
    PROVE  SumFunctionOnSet(f, {}) = 0
  <1>1. IsFold(Fold(f, {}), f, {})
    BY FS_EmptySet, FoldExists
  <1>2. Fold(f, {})[{}] = 0
    BY <1>1 DEF IsFold
  <1>3. QED
    BY <1>2, SumUnfolds DEF Fold

LEMMA SumOfPicked ==
    ASSUME NEW f, NEW S, IsFiniteSet(S), S # {}
    PROVE  SumFunctionOnSet(f, S) = f[Pick(S)] + SumFunctionOnSet(f, S \ {Pick(S)})
  <1> DEFINE R == S \ {Pick(S)}
  <1>1. R \in SUBSET S /\ R \in SUBSET R /\ S \in SUBSET S /\ IsFiniteSet(R)
    BY FS_Subset
  <1>2. IsFold(Fold(f, S), f, S) /\ IsFold(Fold(f, R), f, R)
    BY <1>1, FoldExists
  <1>3. Fold(f, S)[S] = f[Pick(S)] + Fold(f, S)[R]
    BY <1>1, <1>2 DEF IsFold
  <1>4. Fold(f, S)[R] = Fold(f, R)[R]
    BY <1>1, <1>2, FoldUnique
  <1>5. QED
    BY <1>3, <1>4, SumUnfolds DEF Fold

\* What holds of the sums of all subsets, by induction: here each time the
\* subsets of which it does not are a collection without a smallest set.
LEMMA SumType ==
    ASSUME NEW f, NEW S, IsFiniteSet(S), \A x \in S : f[x] \in Int
    PROVE  SumFunctionOnSet(f, S) \in Int
  <1> DEFINE Bad == {s \in SUBSET S : SumFunctionOnSet(f, s) \notin Int}
  <1>1. SUFFICES ASSUME Bad # {} PROVE FALSE
    OBVIOUS
  <1>2. PICK s \in Bad : \A t \in Bad : ~(t \subseteq s /\ t # s)
    <2>1. Bad \subseteq SUBSET S
      OBVIOUS
    <2> HIDE DEF Bad
    <2>2. QED
      BY <1>1, <2>1, SmallestSet
  <1>3. s # {}
    <2>1. SumFunctionOnSet(f, {}) \in Int
      BY SumEmpty
    <2>2. QED
      BY <1>2, <2>1
  <1>4. Pick(s) \in s /\ s \subseteq S /\ IsFiniteSet(s)
    BY <1>2, <1>3, PickIsElement, FS_Subset
  <1>5. SumFunctionOnSet(f, s \ {Pick(s)}) \in Int
    BY <1>2, <1>4
  <1>6. SumFunctionOnSet(f, s) = f[Pick(s)] + SumFunctionOnSet(f, s \ {Pick(s)})
    BY <1>3, <1>4, SumOfPicked
  <1>7. QED
    BY <1>2, <1>4, <1>5, <1>6

LEMMA SumNonNegative ==
    ASSUME NEW f, NEW S, IsFiniteSet(S), \A x \in S : f[x] \in Nat
    PROVE  SumFunctionOnSet(f, S) \in Nat
  <1> DEFINE Bad == {s \in SUBSET S : SumFunctionOnSet(f, s) \notin Nat}
  <1>1. SUFFICES ASSUME Bad # {} PROVE FALSE
    OBVIOUS
  <1>2. PICK s \in Bad : \A t \in Bad : ~(t \subseteq s /\ t # s)
    <2>1. Bad \subseteq SUBSET S
      OBVIOUS
    <2> HIDE DEF Bad
    <2>2. QED
      BY <1>1, <2>1, SmallestSet
  <1>3. s # {}
    <2>1. SumFunctionOnSet(f, {}) \in Nat
      BY SumEmpty
    <2>2. QED
      BY <1>2, <2>1
  <1>4. Pick(s) \in s /\ s \subseteq S /\ IsFiniteSet(s)
    BY <1>2, <1>3, PickIsElement, FS_Subset
  <1>5. SumFunctionOnSet(f, s \ {Pick(s)}) \in Nat
    BY <1>2, <1>4
  <1>6. SumFunctionOnSet(f, s) = f[Pick(s)] + SumFunctionOnSet(f, s \ {Pick(s)})
    BY <1>3, <1>4, SumOfPicked
  <1>7. QED
    BY <1>2, <1>4, <1>5, <1>6

\* Functions that agree on a set have the same sum.
LEMMA SumSame ==
    ASSUME NEW f, NEW g, NEW S, IsFiniteSet(S), \A x \in S : f[x] = g[x]
    PROVE  SumFunctionOnSet(f, S) = SumFunctionOnSet(g, S)
  <1> DEFINE Bad == {s \in SUBSET S : SumFunctionOnSet(f, s) # SumFunctionOnSet(g, s)}
  <1>1. SUFFICES ASSUME Bad # {} PROVE FALSE
    OBVIOUS
  <1>2. PICK s \in Bad : \A t \in Bad : ~(t \subseteq s /\ t # s)
    <2>1. Bad \subseteq SUBSET S
      OBVIOUS
    <2> HIDE DEF Bad
    <2>2. QED
      BY <1>1, <2>1, SmallestSet
  <1>3. s # {}
    BY <1>2, SumEmpty
  <1>4. Pick(s) \in s /\ s \subseteq S /\ IsFiniteSet(s)
    BY <1>2, <1>3, PickIsElement, FS_Subset
  <1>5. SumFunctionOnSet(f, s \ {Pick(s)}) = SumFunctionOnSet(g, s \ {Pick(s)})
    BY <1>2, <1>4
  <1>6. /\ SumFunctionOnSet(f, s) = f[Pick(s)] + SumFunctionOnSet(f, s \ {Pick(s)})
        /\ SumFunctionOnSet(g, s) = g[Pick(s)] + SumFunctionOnSet(g, s \ {Pick(s)})
    BY <1>3, <1>4, SumOfPicked
  <1>7. QED
    BY <1>2, <1>4, <1>5, <1>6

\* Any element may be taken first.
LEMMA SumOfOne ==
    ASSUME NEW f, NEW S, IsFiniteSet(S), \A x \in S : f[x] \in Int, NEW e \in S
    PROVE  SumFunctionOnSet(f, S) = f[e] + SumFunctionOnSet(f, S \ {e})
  <1> DEFINE Bad == {s \in SUBSET S :
                        \E x \in s : SumFunctionOnSet(f, s)
                                        # f[x] + SumFunctionOnSet(f, s \ {x})}
  <1>1. SUFFICES ASSUME Bad # {} PROVE FALSE
    OBVIOUS
  <1>2. PICK s \in Bad : \A t \in Bad : ~(t \subseteq s /\ t # s)
    <2>1. Bad \subseteq SUBSET S
      OBVIOUS
    <2> HIDE DEF Bad
    <2>2. QED
      BY <1>1, <2>1, SmallestSet
  <1>3. PICK x \in s : SumFunctionOnSet(f, s) # f[x] + SumFunctionOnSet(f, s \ {x})
    BY <1>2
  <1> DEFINE p == Pick(s)
             A == s \ {p}
             B == s \ {x}
             C == s \ {p, x}
  <1>4. p \in s /\ s \subseteq S /\ IsFiniteSet(s)
    BY <1>2, <1>3, PickIsElement, FS_Subset
  <1>5. SumFunctionOnSet(f, s) = f[p] + SumFunctionOnSet(f, A)
    BY <1>3, <1>4, SumOfPicked
  <1>6. p # x
    BY <1>3, <1>5
  <1>7. SumFunctionOnSet(f, A) = f[x] + SumFunctionOnSet(f, C)
    <2>1. x \in A /\ A \ {x} = C /\ A \subseteq s /\ A # s
      BY <1>4, <1>6
    <2>2. A \notin Bad
      BY <1>2, <2>1
    <2>3. QED
      BY <1>4, <2>1, <2>2
  <1>8. SumFunctionOnSet(f, B) = f[p] + SumFunctionOnSet(f, C)
    <2>1. p \in B /\ B \ {p} = C /\ B \subseteq s /\ B # s
      BY <1>4, <1>6
    <2>2. B \notin Bad
      BY <1>2, <2>1
    <2>3. QED
      BY <1>4, <2>1, <2>2
  <1>9. SumFunctionOnSet(f, C) \in Int /\ f[p] \in Int /\ f[x] \in Int
    <2>1. C \subseteq S /\ IsFiniteSet(C)
      BY <1>4, FS_Subset
    <2>2. QED
      BY <1>3, <1>4, <2>1, SumType
  <1>10. QED
    BY <1>3, <1>5, <1>7, <1>8, <1>9

LEMMA SumOfAdded ==
    ASSUME NEW f, NEW S, IsFiniteSet(S), NEW e, e \notin S, \A x \in S \cup {e} : f[x] \in Int
    PROVE  SumFunctionOnSet(f, S \cup {e}) = SumFunctionOnSet(f, S) + f[e]
  <1>1. IsFiniteSet(S \cup {e}) /\ (S \cup {e}) \ {e} = S
    BY FS_AddElement
  <1>2. SumFunctionOnSet(f, S \cup {e}) = f[e] + SumFunctionOnSet(f, S)
    BY <1>1, SumOfOne
  <1>3. QED
    BY <1>2, SumType

\* The sum over two sets that share nothing.
LEMMA SumOfUnion ==
    ASSUME NEW f, NEW S, NEW T, IsFiniteSet(S), IsFiniteSet(T), S \cap T = {},
           \A x \in S \cup T : f[x] \in Int
    PROVE  SumFunctionOnSet(f, S \cup T) = SumFunctionOnSet(f, S) + SumFunctionOnSet(f, T)
  <1> DEFINE Bad == {t \in SUBSET T : SumFunctionOnSet(f, S \cup t)
                        # SumFunctionOnSet(f, S) + SumFunctionOnSet(f, t)}
  <1>1. SUFFICES ASSUME Bad # {} PROVE FALSE
    OBVIOUS
  <1>2. PICK s \in Bad : \A t \in Bad : ~(t \subseteq s /\ t # s)
    <2>1. Bad \subseteq SUBSET T
      OBVIOUS
    <2> HIDE DEF Bad
    <2>2. QED
      BY <1>1, <2>1, SmallestSet
  <1>3. SumFunctionOnSet(f, S) \in Int
    BY SumType
  <1>4. s # {}
    <2>1. SumFunctionOnSet(f, S \cup {}) = SumFunctionOnSet(f, S) + SumFunctionOnSet(f, {})
      <3>1. S \cup {} = S
        OBVIOUS
      <3>2. QED
        BY <1>3, <3>1, SumEmpty
    <2>2. QED
      BY <1>2, <2>1
  <1> DEFINE p == Pick(s)
             A == s \ {p}
  <1>5. p \in s /\ s \subseteq T /\ IsFiniteSet(s) /\ A \subseteq T /\ IsFiniteSet(A)
    BY <1>2, <1>4, PickIsElement, FS_Subset
  <1>6. SumFunctionOnSet(f, S \cup A) = SumFunctionOnSet(f, S) + SumFunctionOnSet(f, A)
    BY <1>2, <1>5
  <1>7. SumFunctionOnSet(f, s) = f[p] + SumFunctionOnSet(f, A)
    BY <1>4, <1>5, SumOfPicked
  <1>8. SumFunctionOnSet(f, S \cup s) = SumFunctionOnSet(f, S \cup A) + f[p]
    <2>1. IsFiniteSet(S \cup A) /\ p \notin S \cup A /\ (S \cup A) \cup {p} = S \cup s
      BY <1>5, FS_Union
    <2>2. \A x \in (S \cup A) \cup {p} : f[x] \in Int
      BY <1>5
    <2> HIDE DEF p, A
    <2>3. QED
      BY <2>1, <2>2, SumOfAdded
  <1>9. SumFunctionOnSet(f, A) \in Int /\ f[p] \in Int
    BY <1>5, SumType
  <1>10. QED
    BY <1>2, <1>3, <1>6, <1>7, <1>8, <1>9

\* Turning the signs turns the sign of the sum.
LEMMA SumOpposite ==
    ASSUME NEW f, NEW g, NEW S, IsFiniteSet(S), \A x \in S : f[x] \in Int /\ g[x] = - f[x]
    PROVE  SumFunctionOnSet(g, S) = - SumFunctionOnSet(f, S)
  <1> DEFINE Bad == {s \in SUBSET S : SumFunctionOnSet(g, s) # - SumFunctionOnSet(f, s)}
  <1>1. SUFFICES ASSUME Bad # {} PROVE FALSE
    OBVIOUS
  <1>2. PICK s \in Bad : \A t \in Bad : ~(t \subseteq s /\ t # s)
    <2>1. Bad \subseteq SUBSET S
      OBVIOUS
    <2> HIDE DEF Bad
    <2>2. QED
      BY <1>1, <2>1, SmallestSet
  <1>3. s # {}
    <2>1. SumFunctionOnSet(g, {}) = 0 /\ SumFunctionOnSet(f, {}) = 0
      BY SumEmpty
    <2>2. SumFunctionOnSet(g, {}) = - SumFunctionOnSet(f, {})
      BY <2>1
    <2>3. QED
      BY <1>2, <2>2
  <1>4. PICK x \in s : TRUE
    BY <1>3
  <1> DEFINE t == s \ {x}
  <1>5. t \subseteq s /\ t # s /\ s \in SUBSET S /\ t \in SUBSET S /\ x \in S
    BY <1>2, <1>4
  <1>6. IsFiniteSet(s) /\ IsFiniteSet(t)
    BY <1>5, FS_Subset
  <1>7. SumFunctionOnSet(g, t) = - SumFunctionOnSet(f, t)
    <2> HIDE DEF t
    <2>1. t \notin Bad
      BY <1>2, <1>5
    <2>2. QED
      BY <1>5, <2>1
  <1>8. \A y \in s : f[y] \in Int /\ g[y] \in Int
    BY <1>5
  <1>9. /\ SumFunctionOnSet(f, s) = f[x] + SumFunctionOnSet(f, t)
        /\ SumFunctionOnSet(g, s) = g[x] + SumFunctionOnSet(g, t)
    BY <1>4, <1>6, <1>8, SumOfOne
  <1>10. SumFunctionOnSet(f, t) \in Int /\ f[x] \in Int /\ g[x] = - f[x]
    <2>1. \A y \in t : f[y] \in Int
      BY <1>8
    <2> HIDE DEF t
    <2>2. QED
      BY <1>5, <1>6, <2>1, SumType
  <1>11. SumFunctionOnSet(g, s) = - SumFunctionOnSet(f, s)
    <2> HIDE DEF t
    <2>1. QED
      BY <1>7, <1>9, <1>10
  <1>12. QED
    BY <1>2, <1>11

\* A sum is the sum of its parts.
LEMMA SumOfParts ==
    ASSUME NEW f, NEW S, IsFiniteSet(S), \A x \in S : f[x] \in Int,
           NEW K, IsFiniteSet(K), NEW part, NEW total,
           \A x \in S : \E k \in K : x \in part[k],
           \A k \in K : part[k] \subseteq S,
           \A k, l \in K : k # l => part[k] \cap part[l] = {},
           \A k \in K : total[k] = SumFunctionOnSet(f, part[k])
    PROVE  SumFunctionOnSet(total, K) = SumFunctionOnSet(f, S)
  <1> DEFINE Of(T) == {x \in S : \E k \in T : x \in part[k]}
             Bad == {T \in SUBSET K : SumFunctionOnSet(total, T) # SumFunctionOnSet(f, Of(T))}
  <1>1. IsFiniteSet(K)
    OBVIOUS
  <1>2. \A T : Of(T) \subseteq S /\ IsFiniteSet(Of(T))
    BY FS_Subset
  <1>3. ASSUME NEW v \in K
        PROVE  total[v] = SumFunctionOnSet(f, Of({v})) /\ total[v] \in Int
    <2>1. part[v] = Of({v})
      OBVIOUS
    <2>2. total[v] = SumFunctionOnSet(f, Of({v}))
      BY <2>1
    <2> HIDE DEF Of
    <2>3. SumFunctionOnSet(f, Of({v})) \in Int
      BY <1>2, SumType
    <2>4. QED
      BY <2>2, <2>3
  <1>4. Bad = {}
    <2>1. SUFFICES ASSUME Bad # {} PROVE FALSE
      OBVIOUS
    <2>2. PICK T \in Bad : \A U \in Bad : ~(U \subseteq T /\ U # T)
      <3>1. Bad \subseteq SUBSET K
        OBVIOUS
      <3> HIDE DEF Bad
      <3>2. QED
        BY <1>1, <2>1, <3>1, SmallestSet
    <2>3. T # {}
      <3>1. Of({}) = {}
        OBVIOUS
      <3>2. QED
        BY <2>2, <3>1, SumEmpty
    <2>4. PICK v \in T : TRUE
      BY <2>3
    <2> DEFINE R == T \ {v}
    <2>5. R \in SUBSET K /\ R \notin Bad /\ v \in K
      <3>1. R \subseteq T /\ R # T /\ T \in SUBSET K
        BY <2>2, <2>4
      <3> HIDE DEF R
      <3>2. R \notin Bad
        BY <2>2, <3>1
      <3>3. QED
        BY <2>4, <3>1, <3>2
    <2>6. SumFunctionOnSet(total, R) = SumFunctionOnSet(f, Of(R))
      BY <2>5
    <2>7. Of(T) = Of(R) \cup Of({v}) /\ Of(R) \cap Of({v}) = {} /\ T = R \cup {v} /\ v \notin R
      BY <2>4
    <2>8. IsFiniteSet(R) /\ \A u \in R \cup {v} : total[u] \in Int
      <3>1. \A u \in R \cup {v} : u \in K
        BY <2>5
      <3>2. R \subseteq K
        BY <2>5
      <3> HIDE DEF R
      <3>3. QED
        BY <1>1, <1>3, <3>1, <3>2, FS_Subset
    <2>9. SumFunctionOnSet(total, T) = SumFunctionOnSet(total, R) + total[v]
      <3> HIDE DEF R
      <3>1. QED
        BY <2>7, <2>8, SumOfAdded
    <2>10. SumFunctionOnSet(f, Of(T)) = SumFunctionOnSet(f, Of(R)) + SumFunctionOnSet(f, Of({v}))
      <3>1. \A x \in Of(R) \cup Of({v}) : f[x] \in Int
        BY <1>2
      <3>2. PICK A, B : A = Of(R) /\ B = Of({v})
        OBVIOUS
      <3>3. Of(T) = A \cup B /\ A \cap B = {}
        BY <2>7, <3>2
      <3>4. IsFiniteSet(A) /\ IsFiniteSet(B) /\ \A x \in A \cup B : f[x] \in Int
        <4>1. \A x \in A \cup B : f[x] \in Int
          BY <3>1, <3>2
        <4> HIDE DEF Of
        <4>2. QED
          BY <1>2, <3>2, <4>1
      <3> HIDE DEF Of, R
      <3>5. SumFunctionOnSet(f, A \cup B) = SumFunctionOnSet(f, A) + SumFunctionOnSet(f, B)
        BY <3>3, <3>4, SumOfUnion
      <3>6. QED
        BY <3>2, <3>3, <3>5
    <2>11. total[v] = SumFunctionOnSet(f, Of({v}))
      BY <1>3, <2>5
    <2>12. SumFunctionOnSet(total, T) = SumFunctionOnSet(f, Of(T))
      <3> HIDE DEF Of, R
      <3>1. QED
        BY <2>6, <2>9, <2>10, <2>11
    <2>13. QED
      BY <2>2, <2>12
  <1>5. Of(K) = S
    OBVIOUS
  <1>6. QED
    BY <1>4, <1>5

\* Of amounts that are not negative, a part sums up to no more than the whole.
LEMMA SumOfPart ==
    ASSUME NEW f, NEW S, IsFiniteSet(S), NEW T \in SUBSET S, \A x \in S : f[x] \in Nat
    PROVE  SumFunctionOnSet(f, T) <= SumFunctionOnSet(f, S)
  <1>1. IsFiniteSet(T) /\ IsFiniteSet(S \ T) /\ T \cap (S \ T) = {} /\ T \cup (S \ T) = S
    BY FS_Subset
  <1>2. SumFunctionOnSet(f, S) = SumFunctionOnSet(f, T) + SumFunctionOnSet(f, S \ T)
    <2>1. \A x \in T \cup (S \ T) : f[x] \in Int
      OBVIOUS
    <2>2. QED
      BY <1>1, <2>1, SumOfUnion
  <1>3. SumFunctionOnSet(f, T) \in Nat /\ SumFunctionOnSet(f, S \ T) \in Nat
    BY <1>1, SumNonNegative
  <1>4. QED
    BY <1>2, <1>3

----------------------------------------------------------------------------
(* The largest and the smallest.                                           *)

LEMMA MaxOfFinite ==
    ASSUME NEW S, IsFiniteSet(S), S # {}, S \subseteq Int
    PROVE  Max(S) \in S /\ \A y \in S : Max(S) >= y
  <1> DEFINE T == {t \in SUBSET S : \E x \in S : t = {y \in S : y > x}}
  <1>1. T # {} /\ T \subseteq SUBSET S
    <2>1. \A x \in S : {y \in S : y > x} \in T
      OBVIOUS
    <2>2. QED
      BY <2>1
  <1>2. \E s \in T : \A t \in T : ~(t \subseteq s /\ t # s)
    <2> HIDE DEF T
    <2>1. QED
      BY ONLY IsFiniteSet(S), <1>1, SmallestSet
  <1>3. PICK s \in T : \A t \in T : ~(t \subseteq s /\ t # s)
    BY <1>2
  <1>4. PICK m \in S : s = {y \in S : y > m}
    BY <1>3
  <1>5. ASSUME NEW y \in S, y > m PROVE FALSE
    <2> DEFINE t == {z \in S : z > y}
    <2>1. t \in T
      OBVIOUS
    <2>2. y \in s /\ y \notin t
      BY <1>4, <1>5
    <2>3. \A z \in S : z > y => z > m
      BY <1>5
    <2>4. t \subseteq s
      BY <1>4, <2>3
    <2>5. QED
      BY <1>3, <2>1, <2>2, <2>4
  <1>6. m \in Int /\ \A y \in S : m >= y
    BY <1>5
  <1>7. \E x \in S : \A y \in S : x >= y
    BY <1>6
  <1>8. QED
    BY <1>7 DEF Max

LEMMA MinOfFinite ==
    ASSUME NEW S, IsFiniteSet(S), S # {}, S \subseteq Int
    PROVE  Min(S) \in S /\ \A y \in S : Min(S) <= y
  <1> DEFINE T == {t \in SUBSET S : \E x \in S : t = {y \in S : y < x}}
  <1>1. T # {} /\ T \subseteq SUBSET S
    <2>1. \A x \in S : {y \in S : y < x} \in T
      OBVIOUS
    <2>2. QED
      BY <2>1
  <1>2. \E s \in T : \A t \in T : ~(t \subseteq s /\ t # s)
    <2> HIDE DEF T
    <2>1. QED
      BY ONLY IsFiniteSet(S), <1>1, SmallestSet
  <1>3. PICK s \in T : \A t \in T : ~(t \subseteq s /\ t # s)
    BY <1>2
  <1>4. PICK m \in S : s = {y \in S : y < m}
    BY <1>3
  <1>5. ASSUME NEW y \in S, y < m PROVE FALSE
    <2> DEFINE t == {z \in S : z < y}
    <2>1. t \in T
      OBVIOUS
    <2>2. y \in s /\ y \notin t
      BY <1>4, <1>5
    <2>3. \A z \in S : z < y => z < m
      BY <1>5
    <2>4. t \subseteq s
      BY <1>4, <2>3
    <2>5. QED
      BY <1>3, <2>1, <2>2, <2>4
  <1>6. m \in Int /\ \A y \in S : m <= y
    BY <1>5
  <1>7. \E x \in S : \A y \in S : x <= y
    BY <1>6
  <1>8. QED
    BY <1>7 DEF Min

LEMMA SmallestNumber ==
    ASSUME NEW T, T \subseteq Nat, T # {}
    PROVE  \E n \in T : \A m \in T : n <= m
  <1>1. PICK k \in T : TRUE
    OBVIOUS
  <1> DEFINE U == {m \in T : m <= k}
  <1>2. U \subseteq 0..k /\ U # {} /\ U \subseteq Int
    <2>1. k \in U
      BY <1>1
    <2>2. \A m \in U : m \in Int /\ m \in 0..k
      BY <1>1
    <2>3. QED
      BY <2>1, <2>2
  <1>3. IsFiniteSet(U)
    <2>1. IsFiniteSet(0..k)
      BY <1>1, FS_Interval
    <2> HIDE DEF U
    <2>2. QED
      BY <1>2, <2>1, FS_Subset
  <1>4. Min(U) \in U /\ \A m \in U : Min(U) <= m
    <2> HIDE DEF U
    <2>1. QED
      BY <1>2, <1>3, MinOfFinite
  <1>5. Min(U) \in T /\ Min(U) <= k /\ Min(U) \in Nat
    BY <1>4
  <1>6. ASSUME NEW m \in T PROVE Min(U) <= m
    <2>1. CASE m <= k
      BY <1>4, <2>1
    <2>2. CASE m > k
      BY <1>1, <1>5, <2>2
    <2>3. QED
      BY <2>1, <2>2, <1>1
  <1>7. QED
    BY <1>5, <1>6

----------------------------------------------------------------------------
(* Sequences: one of a set's elements, and several put together.           *)

LEMMA SetToSeqLists ==
    ASSUME NEW S, IsFiniteSet(S)
    PROVE  SetToSeq(S) \in Seq(S) /\ Range(SetToSeq(S)) = S
  <1> DEFINE n == Cardinality(S)
  <1>1. n \in Nat /\ ExistsBijection(1..n, S)
    BY FS_CardinalityType
  <1>2. PICK b \in Bijection(1..n, S) : TRUE
    BY <1>1 DEF ExistsBijection
  <1>3. b \in [1..n -> S] /\ IsInjective(b)
    BY <1>2 DEF Bijection, Injection, IsInjective
  <1>4. SetToSeq(S) \in [1..n -> S] /\ IsInjective(SetToSeq(S))
    BY <1>3 DEF SetToSeq
  <1> DEFINE f == SetToSeq(S)
  <1>5. f \in Injection(1..n, S)
    BY <1>4 DEF Injection, IsInjective
  <1> HIDE DEF f
  <1>6. IsFiniteSet(1..n) /\ Cardinality(1..n) = n
    BY <1>1, FS_Interval
  <1>7. f \in Surjection(1..n, S)
    BY <1>5, <1>6, FS_Injection
  <1>8. f \in Seq(S)
    BY <1>1, <1>4 DEF f
  <1>9. Range(f) = S
    BY <1>7 DEF Surjection, Range
  <1>10. QED
    BY <1>8, <1>9 DEF f
IsFlatten(g, seqs, k) ==
    g = [i \in 1..k |-> IF i = 1 THEN seqs[i] ELSE g[i - 1] \o seqs[i]]

LEMMA FlattenExists ==
    ASSUME NEW seqs, NEW n \in Nat
    PROVE  \E g : IsFlatten(g, seqs, n)
  <1> DEFINE Bad == {k \in Nat : ~ \E g : IsFlatten(g, seqs, k)}
  <1>1. SUFFICES ASSUME Bad # {} PROVE FALSE
    OBVIOUS
  <1>2. PICK k \in Bad : \A m \in Bad : k <= m
    <2>1. Bad \subseteq Nat
      OBVIOUS
    <2> HIDE DEF Bad
    <2>2. QED
      BY <1>1, <2>1, SmallestNumber
  <1>3. k # 0
    <2>1. IsFlatten(<<>>, seqs, 0)
      BY DEF IsFlatten
    <2>2. QED
      BY <1>2, <2>1
  <1>4. k - 1 \in Nat /\ k - 1 \notin Bad
    BY <1>2, <1>3
  <1>5. PICK g : IsFlatten(g, seqs, k - 1)
    BY <1>4
  <1> DEFINE h == [i \in 1..k |-> IF i = 1 THEN seqs[i] ELSE g[i - 1] \o seqs[i]]
  <1>6. ASSUME NEW i \in 1..(k - 1) PROVE h[i] = g[i]
    <2>1. i \in 1..k
      BY <1>4
    <2>2. QED
      BY <1>5, <2>1 DEF IsFlatten
  <1>7. ASSUME NEW i \in 1..k, i # 1 PROVE i - 1 \in 1..(k - 1)
    BY <1>2, <1>7
  <1>8. h = [i \in 1..k |-> IF i = 1 THEN seqs[i] ELSE h[i - 1] \o seqs[i]]
    BY <1>6, <1>7
  <1> HIDE DEF h
  <1>9. IsFlatten(h, seqs, k)
    BY <1>8 DEF IsFlatten
  <1>10. QED
    BY <1>2, <1>9

LEMMA ConcatKeeps ==
    ASSUME NEW R, NEW a \in Seq(R), NEW b \in Seq(R)
    PROVE  Range(a) \subseteq Range(a \o b) /\ Range(b) \subseteq Range(a \o b)
  <1> DEFINE c == a \o b
  <1>0. c \in Seq(R) /\ DOMAIN c = 1..Len(c) /\ Len(c) = Len(a) + Len(b)
    OBVIOUS
  <1>1. ASSUME NEW x \in Range(a) PROVE x \in Range(c)
    <2>1. PICK i \in 1..Len(a) : x = a[i]
      BY <1>1 DEF Range
    <2>2. i \in 1..Len(c) /\ c[i] = x
      BY <2>1
    <2> HIDE DEF c
    <2>3. QED
      BY <1>0, <2>2 DEF Range
  <1>2. ASSUME NEW x \in Range(b) PROVE x \in Range(c)
    <2>1. PICK i \in 1..Len(b) : x = b[i]
      BY <1>2 DEF Range
    <2>2. Len(a) + i \in 1..Len(c) /\ c[Len(a) + i] = x
      BY <2>1
    <2> HIDE DEF c
    <2>3. QED
      BY <1>0, <2>2 DEF Range
  <1>3. QED
    BY <1>1, <1>2

\* What it puts together are the sequences' elements.
LEMMA FlattenSeqJoins ==
    ASSUME NEW R, NEW seqs \in Seq(Seq(R))
    PROVE  /\ FlattenSeq(seqs) \in Seq(R)
           /\ \A i \in DOMAIN seqs : Range(seqs[i]) \subseteq Range(FlattenSeq(seqs))
  <1>1. CASE Len(seqs) = 0
    <2>1. FlattenSeq(seqs) = seqs /\ seqs = <<>>
      BY <1>1 DEF FlattenSeq
    <2>2. QED
      BY <2>1
  <1>2. CASE Len(seqs) # 0
    <2> DEFINE n == Len(seqs)
               g == CHOOSE g : IsFlatten(g, seqs, n)
    <2>0. n \in Nat \ {0} /\ DOMAIN seqs = 1..n /\ \A i \in 1..n : seqs[i] \in Seq(R)
      BY <1>2
    <2>1. FlattenSeq(seqs) = g[n]
      BY <1>2 DEF FlattenSeq, IsFlatten
    <2>2. IsFlatten(g, seqs, n)
      BY <2>0, FlattenExists
    <2> HIDE DEF g
    <2> DEFINE Joins(k) == /\ g[k] \in Seq(R)
                           /\ \A i \in 1..k : Range(seqs[i]) \subseteq Range(g[k])
               Bad == {k \in 1..n : ~Joins(k)}
    <2>3. SUFFICES ASSUME Bad # {} PROVE FALSE
      <3>1. n \in 1..n
        BY <2>0
      <3>2. SUFFICES ASSUME Bad = {}
                     PROVE  /\ FlattenSeq(seqs) \in Seq(R)
                            /\ \A i \in DOMAIN seqs :
                                  Range(seqs[i]) \subseteq Range(FlattenSeq(seqs))
        BY <2>3
      <3>3. Joins(n)
        BY <3>1, <3>2
      <3>4. QED
        BY <2>0, <2>1, <3>3
    <2>4. PICK k \in Bad : \A m \in Bad : k <= m
      <3>1. Bad \subseteq Nat
        BY <2>0
      <3> HIDE DEF Bad
      <3>2. QED
        BY <2>3, <3>1, SmallestNumber
    <2>5. k \in 1..n /\ g[k] = IF k = 1 THEN seqs[k] ELSE g[k - 1] \o seqs[k]
      BY <2>2, <2>4 DEF IsFlatten
    <2>6. CASE k = 1
      BY <2>0, <2>4, <2>5, <2>6
    <2>7. CASE k # 1
      <3>1. k - 1 \in 1..n /\ k - 1 \notin Bad
        <4>1. k - 1 \in 1..n /\ k \in Int /\ ~(k <= k - 1)
          BY <2>0, <2>5, <2>7
        <4> HIDE DEF Bad
        <4>2. QED
          BY <2>4, <4>1
      <3>2. Joins(k - 1)
        BY <3>1
      <3>3. /\ g[k - 1] \in Seq(R) /\ seqs[k] \in Seq(R) /\ g[k] = g[k - 1] \o seqs[k]
        BY <2>0, <2>5, <2>7, <3>2
      <3>4. g[k] \in Seq(R)
        BY <3>3
      <3>5. Range(g[k - 1]) \subseteq Range(g[k]) /\ Range(seqs[k]) \subseteq Range(g[k])
        BY <3>3, ConcatKeeps
      <3>6. \A i \in 1..k : i = k \/ i \in 1..(k - 1)
        BY <2>5
      <3>7. Joins(k)
        BY <3>2, <3>4, <3>5, <3>6
      <3>8. QED
        BY <2>4, <3>7
    <2>8. QED
      BY <2>6, <2>7
  <1>3. QED
    BY <1>1, <1>2

\* What comes last is put last.
LEMMA FlattenSame ==
    ASSUME NEW a, NEW b, NEW m \in Nat, NEW g, NEW h, IsFlatten(g, a, m),
           IsFlatten(h, b, m + 1), \A i \in 1..m : a[i] = b[i]
    PROVE  \A i \in 1..m : g[i] = h[i]
  <1> DEFINE Bad == {i \in 1..m : g[i] # h[i]}
  <1>1. SUFFICES ASSUME Bad # {} PROVE FALSE
    OBVIOUS
  <1>2. PICK i \in Bad : \A j \in Bad : i <= j
    <2>1. Bad \subseteq Nat
      OBVIOUS
    <2> HIDE DEF Bad
    <2>2. QED
      BY <1>1, <2>1, SmallestNumber
  <1>3. /\ i \in 1..m
        /\ g[i] = IF i = 1 THEN a[i] ELSE g[i - 1] \o a[i]
        /\ h[i] = IF i = 1 THEN b[i] ELSE h[i - 1] \o b[i]
    <2>1. i \in 1..m /\ i \in 1..(m + 1)
      OBVIOUS
    <2>2. QED
      BY <2>1 DEF IsFlatten
  <1>4. CASE i = 1
    BY <1>2, <1>3, <1>4
  <1>5. CASE i # 1
    <2>1. i - 1 \in 1..m /\ ~(i <= i - 1)
      BY <1>3, <1>5
    <2>2. g[i - 1] = h[i - 1]
      BY <1>2, <2>1
    <2>3. QED
      BY <1>2, <1>3, <1>5, <2>2
  <1>6. QED
    BY <1>4, <1>5

LEMMA FlattenSeqAppend ==
    ASSUME NEW R, NEW seqs \in Seq(Seq(R)), NEW last \in Seq(R)
    PROVE  FlattenSeq(Append(seqs, last)) = FlattenSeq(seqs) \o last
  <1> DEFINE n == Len(seqs)
             more == Append(seqs, last)
             g == CHOOSE g : IsFlatten(g, seqs, n)
             h == CHOOSE h : IsFlatten(h, more, n + 1)
  <1>1. /\ n \in Nat /\ n + 1 \in Nat /\ Len(more) = n + 1 /\ more[n + 1] = last
        /\ \A i \in 1..n : more[i] = seqs[i]
    OBVIOUS
  <1>2. FlattenSeq(more) = h[n + 1]
    <2>1. Len(more) # 0
      BY <1>1
    <2>2. FlattenSeq(more) = (CHOOSE x : IsFlatten(x, more, Len(more)))[Len(more)]
      BY <2>1 DEF FlattenSeq, IsFlatten
    <2>3. QED
      BY <1>1, <2>2
  <1>3. n # 0 => FlattenSeq(seqs) = g[n]
    BY DEF FlattenSeq, IsFlatten
  <1>4. IsFlatten(g, seqs, n) /\ IsFlatten(h, more, n + 1)
    BY <1>1, FlattenExists
  <1>5. h[n + 1] = IF n = 0 THEN last ELSE h[n] \o last
    <2> HIDE DEF h, more
    <2>1. n + 1 \in 1..(n + 1) /\ (n + 1 = 1 <=> n = 0) /\ (n + 1) - 1 = n
      BY <1>1
    <2>2. h[n + 1] = IF n + 1 = 1 THEN more[n + 1] ELSE h[(n + 1) - 1] \o more[n + 1]
      BY <1>4, <2>1 DEF IsFlatten
    <2>3. QED
      BY <1>1, <2>1, <2>2
  <1>6. CASE n = 0
    <2>1. FlattenSeq(seqs) = seqs /\ seqs = <<>>
      BY <1>6 DEF FlattenSeq
    <2>2. QED
      BY <1>2, <1>5, <1>6, <2>1
  <1>7. CASE n # 0
    <2>1. \A i \in 1..n : g[i] = h[i]
      <3>1. n \in Nat /\ \A i \in 1..n : seqs[i] = more[i]
        BY <1>1
      <3> HIDE DEF g, h, more, n
      <3>2. QED
        BY <1>4, <3>1, FlattenSame
    <2>2. g[n] = h[n]
      <3> HIDE DEF g, h, more, n
      <3>1. n \in 1..n
        BY <1>1, <1>7
      <3>2. QED
        BY <2>1, <3>1
    <2>3. QED
      BY <1>2, <1>3, <1>5, <1>7, <2>2
  <1>8. QED
    BY <1>6, <1>7
=============================================================================
