---------------------------- MODULE CollectProofs ----------------------------
(***************************************************************************)
(* What is proved of Collect, for any messages, accounts and chains, for   *)
(* whatever the services answer and whichever of their calls fail.         *)
(***************************************************************************)
EXTENDS Collect, FoldTheorems

----------------------------------------------------------------------------
(* Lists.                                                                  *)

LEMMA ListIs ==
    ASSUME NEW s, IsList(s)
    PROVE  /\ Len(s) \in Nat /\ DOMAIN s = 1..Len(s)
           /\ \A i \in DOMAIN s : s[i] \in Range(s)
           /\ s = [i \in 1..Len(s) |-> s[i]]
  <1>1. s \in Seq(Range(s))
    BY DEF IsList
  <1>2. \A i \in DOMAIN s : s[i] \in Range(s)
    BY DEF Range
  <1> DEFINE R == Range(s)
  <1> HIDE DEF R
  <1>3. s \in Seq(R)
    BY <1>1 DEF R
  <1>4. QED
    BY <1>2, <1>3

LEMMA SeqIsList ==
    ASSUME NEW R, NEW s \in Seq(R)
    PROVE  IsList(s) /\ \A i \in DOMAIN s : s[i] \in R
  <1>1. Len(s) \in Nat /\ DOMAIN s = 1..Len(s) /\ s = [i \in 1..Len(s) |-> s[i]]
        /\ \A i \in 1..Len(s) : s[i] \in R
    OBVIOUS
  <1> DEFINE Q == Range(s)
  <1>2. \A i \in 1..Len(s) : s[i] \in Q
    BY <1>1 DEF Range
  <1> HIDE DEF Q
  <1>3. s \in Seq(Q)
    BY <1>1, <1>2
  <1>4. QED
    BY <1>1, <1>3 DEF IsList, Q

LEMMA FunctionIsList ==
    ASSUME NEW n \in Nat, NEW s, DOMAIN s = 1..n, s = [i \in 1..n |-> s[i]]
    PROVE  IsList(s) /\ Len(s) = n
  <1> DEFINE Q == Range(s)
  <1>1. \A i \in 1..n : s[i] \in Q
    BY DEF Range
  <1> HIDE DEF Q
  <1>2. s \in Seq(Q) /\ Len(s) = n
    BY <1>1
  <1>3. QED
    BY <1>2 DEF IsList, Q

LEMMA EmptyIsList == IsList(<<>>) /\ DOMAIN <<>> = {}
  <1>1. <<>> \in Seq({}) /\ DOMAIN <<>> = {}
    OBVIOUS
  <1>2. IsList(<<>>)
    BY ONLY <1>1, SeqIsList
  <1>3. QED
    BY <1>1, <1>2

Joins(c, s, t) == c = s \o t

LEMMA ConcatIs ==
    ASSUME NEW s, NEW t, NEW c, IsList(s), IsList(t), Joins(c, s, t)
    PROVE  /\ IsList(c) /\ Len(c) = Len(s) + Len(t)
           /\ \A i \in DOMAIN s : i \in DOMAIN c /\ c[i] = s[i]
           /\ \A i \in DOMAIN t : Len(s) + i \in DOMAIN c /\ c[Len(s) + i] = t[i]
           /\ \A i \in DOMAIN c : i \in DOMAIN s \/ \E k \in DOMAIN t : i = Len(s) + k
  <1> DEFINE R == Range(s) \cup Range(t)
  <1>1. /\ Len(s) \in Nat /\ DOMAIN s = 1..Len(s) /\ \A i \in 1..Len(s) : s[i] \in Range(s)
        /\ s = [i \in 1..Len(s) |-> s[i]]
    BY ListIs
  <1>2. /\ Len(t) \in Nat /\ DOMAIN t = 1..Len(t) /\ \A i \in 1..Len(t) : t[i] \in Range(t)
        /\ t = [i \in 1..Len(t) |-> t[i]]
    BY ListIs
  <1>3. (\A i \in 1..Len(s) : s[i] \in R) /\ (\A i \in 1..Len(t) : t[i] \in R)
    BY <1>1, <1>2
  <1> HIDE DEF R
  <1>4. s \in Seq(R) /\ t \in Seq(R)
    BY <1>1, <1>2, <1>3
  <1>5. c \in Seq(R) /\ Len(c) = Len(s) + Len(t)
    BY <1>4 DEF Joins
  <1>6. \A i \in 1..Len(s) : c[i] = s[i]
    BY <1>4 DEF Joins
  <1>7. \A i \in 1..Len(t) : c[Len(s) + i] = t[i]
    BY <1>4 DEF Joins
  <1>8. IsList(c)
    BY <1>5, SeqIsList
  <1>9. DOMAIN c = 1..(Len(s) + Len(t))
    BY <1>5
  <1>10. \A i \in 1..(Len(s) + Len(t)) : i \in 1..Len(s) \/ \E k \in 1..Len(t) : i = Len(s) + k
    <2>1. ASSUME NEW i \in 1..(Len(s) + Len(t)), i \notin 1..Len(s)
          PROVE  \E k \in 1..Len(t) : i = Len(s) + k
      <3>1. i - Len(s) \in 1..Len(t) /\ i = Len(s) + (i - Len(s))
        BY <1>1, <1>2, <2>1
      <3>2. QED
        BY <3>1
    <2>2. QED
      BY <2>1
  <1>11. \A i \in 1..Len(s) : i \in 1..(Len(s) + Len(t))
    BY <1>1, <1>2
  <1>12. \A i \in 1..Len(t) : Len(s) + i \in 1..(Len(s) + Len(t))
    BY <1>1, <1>2
  <1>13. QED
    BY <1>1, <1>2, <1>5, <1>6, <1>7, <1>8, <1>9, <1>10, <1>11, <1>12

LEMMA TailIs ==
    ASSUME NEW s, IsList(s), s # <<>>
    PROVE  /\ IsList(Tail(s)) /\ Len(Tail(s)) = Len(s) - 1 /\ 1 \in DOMAIN s /\ Head(s) = s[1]
           /\ \A i \in DOMAIN Tail(s) : i + 1 \in DOMAIN s /\ Tail(s)[i] = s[i + 1]
           /\ Range(s) = {Head(s)} \cup Range(Tail(s))
  <1> DEFINE R == Range(s)
  <1>1. /\ Len(s) \in Nat /\ DOMAIN s = 1..Len(s) /\ \A i \in 1..Len(s) : s[i] \in R
        /\ s = [i \in 1..Len(s) |-> s[i]]
    BY ListIs
  <1>2. s \in Seq(R)
    BY DEF IsList
  <1> HIDE DEF R
  <1>3. Len(s) # 0
    BY <1>2
  <1>4. Tail(s) \in Seq(R) /\ Len(Tail(s)) = Len(s) - 1 /\ Head(s) = s[1]
    BY <1>2, <1>3
  <1>5. DOMAIN Tail(s) = 1..(Len(s) - 1) /\ \A i \in 1..(Len(s) - 1) : Tail(s)[i] = s[i + 1]
    BY <1>2, <1>3, <1>4
  <1>6. IsList(Tail(s))
    BY <1>4, SeqIsList
  <1>7. 1 \in DOMAIN s /\ \A i \in 1..(Len(s) - 1) : i + 1 \in DOMAIN s
    BY <1>1, <1>3
  <1>8. \A i \in 1..Len(s) : i = 1 \/ (i - 1 \in 1..(Len(s) - 1) /\ (i - 1) + 1 = i)
    BY <1>1
  <1>9. ASSUME NEW x \in Range(s) PROVE x = Head(s) \/ x \in Range(Tail(s))
    <2>1. PICK i \in 1..Len(s) : x = s[i]
      BY <1>1 DEF Range
    <2>2. CASE i = 1
      BY <1>4, <2>1, <2>2
    <2>3. CASE i # 1
      <3>1. i - 1 \in DOMAIN Tail(s) /\ x = Tail(s)[i - 1]
        BY <1>5, <1>8, <2>1, <2>3
      <3>2. QED
        BY <3>1 DEF Range
    <2>4. QED
      BY <2>2, <2>3
  <1>10. Head(s) \in Range(s)
    BY <1>4, <1>7 DEF Range
  <1>11. ASSUME NEW x \in Range(Tail(s)) PROVE x \in Range(s)
    <2>1. PICK i \in 1..(Len(s) - 1) : x = Tail(s)[i]
      BY <1>5 DEF Range
    <2>2. x = s[i + 1] /\ i + 1 \in DOMAIN s
      BY <1>5, <1>7, <2>1
    <2>3. QED
      BY <2>2 DEF Range
  <1>12. Range(s) = {Head(s)} \cup Range(Tail(s))
    BY <1>9, <1>10, <1>11
  <1>13. QED
    BY <1>4, <1>5, <1>6, <1>7, <1>12

\* What is chosen are the elements at those places.
LEMMA ChosenIs ==
    ASSUME NEW s, IsList(s), NEW keep
    PROVE  /\ IsList(Chosen(s, keep))
           /\ \A k \in DOMAIN Chosen(s, keep) :
                 \E i \in DOMAIN s : i \in keep /\ Chosen(s, keep)[k] = s[i]
           /\ \A i \in DOMAIN s : i \in keep =>
                 \E k \in DOMAIN Chosen(s, keep) : Chosen(s, keep)[k] = s[i]
  <1> DEFINE R == {s[i] : i \in DOMAIN s \cap keep}
             seqs == [i \in DOMAIN s |-> IF i \in keep THEN <<s[i]>> ELSE <<>>]
  <1>1. Len(s) \in Nat /\ DOMAIN s = 1..Len(s)
    BY ListIs
  <1>2. \A i \in DOMAIN s : i \in keep => s[i] \in R
    OBVIOUS
  <1> HIDE DEF R
  <1>3. \A i \in DOMAIN s : (IF i \in keep THEN <<s[i]>> ELSE <<>>) \in Seq(R)
    BY <1>2
  <1>4. seqs \in Seq(Seq(R)) /\ DOMAIN seqs = DOMAIN s
    BY <1>1, <1>3
  <1>5. Chosen(s, keep) = FlattenSeq(seqs)
    BY DEF Chosen
  <1>6. \A i \in DOMAIN s : i \in keep => seqs[i] = <<s[i]>>
    OBVIOUS
  <1> HIDE DEF seqs
  <1>7. /\ FlattenSeq(seqs) \in Seq(R)
        /\ \A i \in DOMAIN seqs : Range(seqs[i]) \subseteq Range(FlattenSeq(seqs))
    BY <1>4, FlattenSeqJoins
  <1> DEFINE c == Chosen(s, keep)
  <1>8. IsList(c) /\ \A k \in DOMAIN c : c[k] \in R
    <2>1. c \in Seq(R)
      BY <1>5, <1>7
    <2> HIDE DEF c
    <2>2. QED
      BY <2>1, SeqIsList
  <1>9. ASSUME NEW i \in DOMAIN s, i \in keep
        PROVE  \E k \in DOMAIN c : c[k] = s[i]
    <2>1. s[i] \in Range(seqs[i])
      <3>1. 1 \in DOMAIN <<s[i]>> /\ <<s[i]>>[1] = s[i]
        OBVIOUS
      <3>2. QED
        BY <1>6, <1>9, <3>1 DEF Range
    <2>2. s[i] \in Range(c)
      BY <1>4, <1>5, <1>7, <2>1
    <2>3. QED
      BY <2>2 DEF Range
  <1>10. QED
    BY <1>8, <1>9 DEF R

\* Nor is anything else in a list that is put together.
LEMMA FlattenIs ==
    ASSUME NEW seqs, IsList(seqs), \A i \in DOMAIN seqs : IsList(seqs[i])
    PROVE  /\ IsList(FlattenSeq(seqs))
           /\ \A k \in DOMAIN FlattenSeq(seqs) :
                 \E i \in DOMAIN seqs : \E j \in DOMAIN seqs[i] :
                    FlattenSeq(seqs)[k] = seqs[i][j]
  <1> DEFINE R == UNION {Range(seqs[i]) : i \in DOMAIN seqs}
             f == FlattenSeq(seqs)
  <1>1. Len(seqs) \in Nat /\ DOMAIN seqs = 1..Len(seqs) /\ seqs = [i \in 1..Len(seqs) |-> seqs[i]]
    BY ListIs
  <1>2. ASSUME NEW i \in DOMAIN seqs PROVE seqs[i] \in Seq(R)
    <2> DEFINE t == seqs[i]
    <2>1. /\ Len(t) \in Nat /\ DOMAIN t = 1..Len(t) /\ t = [k \in 1..Len(t) |-> t[k]]
          /\ \A k \in DOMAIN t : t[k] \in Range(t)
      BY ListIs
    <2>2. \A k \in DOMAIN t : t[k] \in R
      BY <2>1
    <2> HIDE DEF R, t
    <2>3. t \in Seq(R)
      BY <2>1, <2>2
    <2>4. QED
      BY <2>3 DEF t
  <1>3. \A x \in R : \E i \in DOMAIN seqs : \E j \in DOMAIN seqs[i] : x = seqs[i][j]
    BY DEF Range
  <1> HIDE DEF R
  <1>4. seqs \in Seq(Seq(R))
    BY <1>1, <1>2
  <1>5. f \in Seq(R)
    BY <1>4, FlattenSeqJoins
  <1> HIDE DEF f
  <1>6. IsList(f) /\ \A k \in DOMAIN f : f[k] \in R
    BY <1>5, SeqIsList
  <1>7. QED
    BY <1>3, <1>6 DEF f

----------------------------------------------------------------------------
(* What the services make of what there is.                                *)

ResultFields == {"account", "chain", "protocol", "type", "position", "rate", "health", "age",
                 "token", "symbol", "label", "balance", "price", "value", "history"}

\* A result of the unit, with a price; on an EVM chain the tokens of a wallet
\* are priced from the start.
IsFetched(r, unit) ==
    /\ DOMAIN r = ResultFields
    /\ r.account = unit.account /\ r.chain = unit.chain
    /\ r.price \in Int
    /\ r.protocol = "wallet" /\ r.chain # "solana" => r.price > 0

AllFetched(results, unit) ==
    IsList(results) /\ \A i \in DOMAIN results : IsFetched(results[i], unit)

LEMMA ResultIs ==
    ASSUME NEW protocol, NEW unit, NEW position, NEW token, token.price \in Int,
           protocol = "wallet" /\ unit.chain # "solana" => token.price > 0
    PROVE  IsFetched(ResultOf(protocol, unit, position, token), unit)
  BY DEF IsFetched, ResultOf, ResultFields

LEMMA NoneFetched == \A unit : AllFetched(<<>>, unit)
  BY EmptyIsList DEF AllFetched

LEMMA OneFetched ==
    ASSUME NEW r, NEW unit, IsFetched(r, unit)
    PROVE  AllFetched(<<r>>, unit)
  <1>1. <<r>> \in Seq({r}) /\ DOMAIN <<r>> = {1} /\ <<r>>[1] = r
    OBVIOUS
  <1>2. IsList(<<r>>)
    BY <1>1, SeqIsList
  <1>3. QED
    BY <1>1, <1>2 DEF AllFetched

LEMMA ConcatFetched ==
    ASSUME NEW s, NEW t, NEW unit, AllFetched(s, unit), AllFetched(t, unit)
    PROVE  AllFetched(s \o t, unit)
  <1>1. IsList(s) /\ IsList(t)
    BY DEF AllFetched
  <1> PICK c : Joins(c, s, t)
    BY DEF Joins
  <1>2. /\ IsList(c)
        /\ \A i \in DOMAIN s : c[i] = s[i]
        /\ \A i \in DOMAIN t : c[Len(s) + i] = t[i]
        /\ \A i \in DOMAIN c : i \in DOMAIN s \/ \E k \in DOMAIN t : i = Len(s) + k
    BY <1>1, ConcatIs
  <1>3. \A i \in DOMAIN c : IsFetched(c[i], unit)
    BY <1>2 DEF AllFetched
  <1>4. AllFetched(c, unit)
    BY <1>2, <1>3 DEF AllFetched
  <1>5. QED
    BY <1>4 DEF Joins

\* Each place of a list turned into a result.
LEMMA MappedFetched ==
    ASSUME NEW n \in Nat, NEW s, NEW unit, DOMAIN s = 1..n, s = [i \in 1..n |-> s[i]],
           \A i \in 1..n : IsFetched(s[i], unit)
    PROVE  AllFetched(s, unit)
  <1>1. IsList(s)
    BY FunctionIsList
  <1>2. QED
    BY <1>1 DEF AllFetched

PricedTokens(position) ==
    /\ IsList(position.tokens)
    /\ \A j \in DOMAIN position.tokens : position.tokens[j].price \in Int

LEMMA TokensFetched ==
    ASSUME NEW protocol, NEW unit, NEW position, NEW held, NEW keep, protocol # "wallet",
           IsList(held), \A j \in DOMAIN held : held[j].price \in Int,
           NEW tokens, tokens = Chosen(held, keep)
    PROVE  AllFetched([j \in DOMAIN tokens |-> ResultOf(protocol, unit, position, tokens[j])], unit)
  <1>1. /\ IsList(tokens)
        /\ \A k \in DOMAIN tokens : \E j \in DOMAIN held : tokens[k] = held[j]
    BY ChosenIs
  <1>2. Len(tokens) \in Nat /\ DOMAIN tokens = 1..Len(tokens)
    BY <1>1, ListIs
  <1>3. \A j \in DOMAIN tokens : IsFetched(ResultOf(protocol, unit, position, tokens[j]), unit)
    <2>1. \A j \in DOMAIN tokens : tokens[j].price \in Int
      BY <1>1
    <2>2. QED
      BY <2>1, ResultIs
  <1> DEFINE p == [j \in DOMAIN tokens |-> ResultOf(protocol, unit, position, tokens[j])]
  <1>4. /\ DOMAIN p = 1..Len(tokens) /\ p = [j \in 1..Len(tokens) |-> p[j]]
        /\ \A j \in 1..Len(tokens) : IsFetched(p[j], unit)
    BY <1>2, <1>3
  <1> HIDE DEF p
  <1>5. AllFetched(p, unit)
    BY <1>2, <1>4, MappedFetched
  <1>6. QED
    BY <1>5 DEF p

LEMMA FlattenedFetched ==
    ASSUME NEW protocol, NEW unit, NEW positions, NEW test, protocol # "wallet",
           IsList(positions), \A i \in DOMAIN positions : PricedTokens(positions[i])
    PROVE  AllFetched(Flattened(protocol, unit, positions, test), unit)
  <1> DEFINE held(i) == positions[i].tokens
             tokens(i) == Chosen(held(i), {j \in DOMAIN held(i) : Passes(held(i)[j], test)})
             part(i) == [j \in DOMAIN tokens(i) |-> ResultOf(protocol, unit, positions[i], tokens(i)[j])]
             seqs == [i \in DOMAIN positions |-> part(i)]
  <1>1. Len(positions) \in Nat /\ DOMAIN positions = 1..Len(positions)
    BY ListIs
  <1>2. ASSUME NEW i \in DOMAIN positions
        PROVE  AllFetched(part(i), unit)
    <2>1. IsList(held(i)) /\ \A j \in DOMAIN held(i) : held(i)[j].price \in Int
      BY DEF PricedTokens
    <2>2. PICK h, keep : h = held(i) /\ keep = {j \in DOMAIN held(i) : Passes(held(i)[j], test)}
      OBVIOUS
    <2>3. tokens(i) = Chosen(h, keep)
      BY <2>2
    <2>4. PICK t : t = tokens(i)
      OBVIOUS
    <2>5. PICK q : q = positions[i]
      OBVIOUS
    <2>6. AllFetched([j \in DOMAIN t |-> ResultOf(protocol, unit, q, t[j])], unit)
      <3> HIDE DEF held, tokens
      <3>1. t = Chosen(h, keep) /\ IsList(h) /\ \A j \in DOMAIN h : h[j].price \in Int
        BY <2>1, <2>2, <2>3, <2>4
      <3>2. QED
        BY <3>1, TokensFetched
    <2>7. part(i) = [j \in DOMAIN t |-> ResultOf(protocol, unit, q, t[j])]
      <3> HIDE DEF tokens
      <3>1. QED
        BY <2>4, <2>5
    <2>8. QED
      BY <2>6, <2>7
  <1>3. Flattened(protocol, unit, positions, test) = FlattenSeq(seqs)
    BY DEF Flattened
  <1>4. DOMAIN seqs = DOMAIN positions /\ \A i \in DOMAIN seqs : seqs[i] = part(i)
    OBVIOUS
  <1>5. seqs = [i \in 1..Len(positions) |-> seqs[i]]
    BY <1>1
  <1> HIDE DEF seqs, part
  <1>6. IsList(seqs)
    BY <1>1, <1>4, <1>5, FunctionIsList
  <1>7. \A i \in DOMAIN seqs : IsList(seqs[i])
    BY <1>2, <1>4 DEF AllFetched
  <1> DEFINE f == FlattenSeq(seqs)
  <1>8. /\ IsList(f)
        /\ \A k \in DOMAIN f : \E i \in DOMAIN seqs : \E j \in DOMAIN seqs[i] : f[k] = seqs[i][j]
    BY <1>6, <1>7, FlattenIs
  <1> HIDE DEF f
  <1>9. \A k \in DOMAIN f : IsFetched(f[k], unit)
    BY <1>2, <1>4, <1>8 DEF AllFetched
  <1>10. QED
    BY <1>3, <1>8, <1>9 DEF AllFetched, f

LEMMA PriceOfType ==
    ASSUME NEW value \in Int, NEW amount \in Int
    PROVE  PriceOf(value, amount) \in Int
  BY DEF PriceOf

\* One token in a position.
LEMMA OneToken ==
    ASSUME NEW type, NEW id, NEW rate, NEW health, NEW token, token.price \in Int
    PROVE  PricedTokens(Position(type, id, rate, health, <<token>>))
  <1>1. <<token>> \in Seq({token}) /\ DOMAIN <<token>> = {1} /\ <<token>>[1] = token
    OBVIOUS
  <1>2. IsList(<<token>>)
    BY ONLY <1>1, SeqIsList
  <1>3. QED
    BY <1>1, <1>2 DEF PricedTokens, Position

\* What is said of a reply when the reply is a fetch's result.
IsReply(reply, unit) == reply.ok \in BOOLEAN /\ AllFetched(reply.results, unit)

LEMMA FailedReplies == \A unit : IsReply(Failed, unit) /\ ~Failed.ok
  BY NoneFetched DEF IsReply, Failed

LEMMA AnsweredReplies ==
    ASSUME NEW results, NEW unit, AllFetched(results, unit)
    PROVE  IsReply(Answered(results), unit) /\ Answered(results).ok
  BY DEF IsReply, Answered

----------------------------------------------------------------------------
(* AaveV3                                                                  *)

Entries(entries) ==
    /\ IsList(entries)
    /\ \A i \in DOMAIN entries : entries[i].amount \in Int /\ entries[i].usd \in Int

LEMMA WorthIs ==
    ASSUME NEW entries, Entries(entries)
    PROVE  Entries(Worth(entries))
  <1> DEFINE keep == {i \in DOMAIN entries : entries[i].usd > 0}
  <1>1. Worth(entries) = Chosen(entries, keep) /\ IsList(entries)
    BY DEF Worth, Entries
  <1> HIDE DEF keep
  <1>2. /\ IsList(Worth(entries))
        /\ \A k \in DOMAIN Worth(entries) : \E i \in DOMAIN entries : Worth(entries)[k] = entries[i]
    BY <1>1, ChosenIs
  <1>3. QED
    BY <1>2 DEF Entries

LEMMA AavePositionsArePriced ==
    ASSUME NEW supplies, NEW borrows, Entries(supplies), Entries(borrows)
    PROVE  /\ IsList(AavePositions(supplies, borrows))
           /\ \A i \in DOMAIN AavePositions(supplies, borrows) :
                 PricedTokens(AavePositions(supplies, borrows)[i])
  <1> PICK health : health = HealthFactor(UsdOf(supplies, Collateral(supplies)),
                                          UsdOf(borrows, DOMAIN borrows))
    OBVIOUS
  <1> PICK s, b : s = Worth(supplies) /\ b = Worth(borrows)
    OBVIOUS
  <1>1. Entries(s) /\ Entries(b)
    BY WorthIs
  <1>2. Len(s) \in Nat /\ DOMAIN s = 1..Len(s) /\ Len(b) \in Nat /\ DOMAIN b = 1..Len(b)
    BY <1>1, ListIs DEF Entries
  <1> DEFINE lent == [i \in DOMAIN s |-> SupplyPosition(s[i], health)]
             owed == [i \in DOMAIN b |-> BorrowPosition(b[i], health)]
  <1> PICK all : Joins(all, lent, owed)
    BY DEF Joins
  <1>3. \A i \in DOMAIN s : PricedTokens(SupplyPosition(s[i], health))
    <2>1. \A i \in DOMAIN s : Held(s[i], "Supplied").price \in Int
      BY <1>1, PriceOfType DEF Entries, Held, Token
    <2>2. QED
      BY <2>1, OneToken DEF SupplyPosition
  <1>4. \A i \in DOMAIN b : PricedTokens(BorrowPosition(b[i], health))
    <2>1. \A i \in DOMAIN b : Held(b[i], "Borrowed").price \in Int
      BY <1>1, PriceOfType DEF Entries, Held, Token
    <2>2. QED
      BY <2>1, OneToken DEF BorrowPosition
  <1>5. /\ DOMAIN lent = 1..Len(s) /\ lent = [i \in 1..Len(s) |-> lent[i]]
        /\ \A i \in DOMAIN lent : PricedTokens(lent[i])
    BY <1>2, <1>3
  <1>6. /\ DOMAIN owed = 1..Len(b) /\ owed = [i \in 1..Len(b) |-> owed[i]]
        /\ \A i \in DOMAIN owed : PricedTokens(owed[i])
    BY <1>2, <1>4
  <1>7. AavePositions(supplies, borrows) = all
    BY DEF AavePositions, Joins
  <1> HIDE DEF lent, owed
  <1>8. IsList(lent) /\ IsList(owed)
    BY <1>2, <1>5, <1>6, FunctionIsList
  <1>9. /\ IsList(all)
        /\ \A i \in DOMAIN lent : all[i] = lent[i]
        /\ \A i \in DOMAIN owed : all[Len(lent) + i] = owed[i]
        /\ \A i \in DOMAIN all : i \in DOMAIN lent \/ \E k \in DOMAIN owed : i = Len(lent) + k
    BY <1>8, ConcatIs
  <1>10. QED
    BY <1>5, <1>6, <1>7, <1>9

LEMMA AaveReplies ==
    ASSUME NEW unit, NEW supplies, NEW borrows, NEW history, NEW test,
           supplies # None => Entries(supplies), borrows # None => Entries(borrows)
    PROVE  /\ IsReply(FetchAave(unit, supplies, borrows, history, test), unit)
           /\ supplies # None /\ borrows # None =>
                FetchAave(unit, supplies, borrows, history, test).ok
  <1>1. CASE None \in {supplies, borrows}
    BY <1>1, FailedReplies DEF FetchAave
  <1>2. CASE None \notin {supplies, borrows}
    <2> PICK events : events = TransactionHistory(history)
      OBVIOUS
    <2> PICK positions : positions = AavePositions(supplies, borrows)
      OBVIOUS
    <2> PICK results : results = Flattened("aave-v3", unit, positions, test)
      OBVIOUS
    <2>1. IsList(positions) /\ \A i \in DOMAIN positions : PricedTokens(positions[i])
      BY <1>2, AavePositionsArePriced
    <2>2. AllFetched(results, unit)
      <3>1. "aave-v3" # "wallet"
        OBVIOUS
      <3>2. QED
        BY <2>1, <3>1, FlattenedFetched
    <2> DEFINE w == WithTransactions(results, events)
    <2>3. Len(results) \in Nat /\ DOMAIN results = 1..Len(results)
      BY <2>2, ListIs DEF AllFetched
    <2>4. DOMAIN w = 1..Len(results) /\ w = [i \in 1..Len(results) |-> w[i]]
      BY <2>3 DEF WithTransactions
    <2>5. \A i \in 1..Len(results) : \E x : w[i] = [results[i] EXCEPT !.history = x]
      BY <2>3 DEF WithTransactions
    <2> HIDE DEF w
    <2>6. \A i \in 1..Len(results) : IsFetched(w[i], unit)
      <3>1. ASSUME NEW i \in 1..Len(results) PROVE IsFetched(w[i], unit)
        <4>1. IsFetched(results[i], unit)
          BY <2>2, <2>3 DEF AllFetched
        <4>2. PICK x : w[i] = [results[i] EXCEPT !.history = x]
          BY <2>5
        <4>3. QED
          BY <4>1, <4>2 DEF IsFetched, ResultFields
      <3>2. QED
        BY <3>1
    <2>7. AllFetched(w, unit)
      BY <2>3, <2>4, <2>6, MappedFetched
    <2>8. FetchAave(unit, supplies, borrows, history, test) = Answered(w)
      BY <1>2 DEF FetchAave, w
    <2>9. QED
      BY <2>7, <2>8, AnsweredReplies
  <1>3. QED
    BY <1>1, <1>2

\* A list with each element replaced.
LEMMA MappedList ==
    ASSUME NEW s, IsList(s), NEW t, DOMAIN t = DOMAIN s, t = [i \in DOMAIN s |-> t[i]]
    PROVE  IsList(t)
  <1>1. Len(s) \in Nat /\ DOMAIN s = 1..Len(s)
    BY ListIs
  <1>2. QED
    BY <1>1, FunctionIsList

\* The fields that do not matter here may change.
Retouched(a, b) ==
    \E x : b = a \/ b = [a EXCEPT !.history = x] \/ b = [a EXCEPT !.label = x]

LEMMA ReplacedFetched ==
    ASSUME NEW s, NEW unit, AllFetched(s, unit), NEW t, DOMAIN t = DOMAIN s,
           t = [i \in DOMAIN s |-> t[i]],
           \A i \in DOMAIN s : Retouched(s[i], t[i])
    PROVE  AllFetched(t, unit)
  <1>1. IsList(s) /\ \A i \in DOMAIN s : IsFetched(s[i], unit)
    BY DEF AllFetched
  <1>2. IsList(t)
    BY <1>1, MappedList
  <1>3. ASSUME NEW i \in DOMAIN s PROVE IsFetched(t[i], unit)
    <2>1. PICK x : \/ t[i] = s[i] \/ t[i] = [s[i] EXCEPT !.history = x]
                   \/ t[i] = [s[i] EXCEPT !.label = x]
      BY DEF Retouched
    <2>2. IsFetched(s[i], unit)
      BY <1>1
    <2>3. CASE t[i] = s[i]
      BY <2>2, <2>3
    <2>4. CASE t[i] = [s[i] EXCEPT !.history = x]
      BY <2>2, <2>4 DEF IsFetched, ResultFields
    <2>5. CASE t[i] = [s[i] EXCEPT !.label = x]
      BY <2>2, <2>5 DEF IsFetched, ResultFields
    <2>6. QED
      BY <2>1, <2>3, <2>4, <2>5
  <1>4. QED
    BY <1>2, <1>3 DEF AllFetched

----------------------------------------------------------------------------
(* Pendle                                                                  *)

LEMMA MarketsReply ==
    ASSUME NEW unit, NEW markets, NEW test, markets # None => IsList(markets)
    PROVE  /\ IsReply(FetchMarkets(unit, markets, test), unit)
           /\ markets # None => FetchMarkets(unit, markets, test).ok
  <1>1. CASE markets = None
    BY <1>1, FailedReplies DEF FetchMarkets
  <1>2. CASE markets # None
    <2> DEFINE ps == [i \in DOMAIN markets |-> MarketPosition(markets[i])]
    <2>1. IsList(ps)
      <3>1. DOMAIN ps = DOMAIN markets /\ ps = [i \in DOMAIN markets |-> ps[i]]
        OBVIOUS
      <3> HIDE DEF ps
      <3>2. QED
        BY <1>2, <3>1, MappedList
    <2>2. \A i \in DOMAIN ps : PricedTokens(ps[i])
      BY OneToken DEF MarketPosition, Token
    <2> PICK results : results = Flattened("pendle", unit, ps, test)
      OBVIOUS
    <2>3. AllFetched(results, unit)
      <3>1. "pendle" # "wallet"
        OBVIOUS
      <3> HIDE DEF ps
      <3>2. QED
        BY <2>1, <2>2, <3>1, FlattenedFetched
    <2> DEFINE t == [i \in DOMAIN results |-> [results[i] EXCEPT !.label = None]]
    <2>4. AllFetched(t, unit)
      <3>1. /\ DOMAIN t = DOMAIN results /\ t = [i \in DOMAIN results |-> t[i]]
            /\ \A i \in DOMAIN results : Retouched(results[i], t[i])
        BY DEF Retouched
      <3> HIDE DEF t
      <3>2. QED
        BY <2>3, <3>1, ReplacedFetched
    <2>5. FetchMarkets(unit, markets, test) = Answered(t)
      BY <1>2 DEF FetchMarkets
    <2>6. QED
      BY <2>4, <2>5, AnsweredReplies
  <1>3. QED
    BY <1>1, <1>2

LEMMA VeReply ==
    ASSUME NEW unit, NEW lock, NEW power
    PROVE  /\ IsReply(FetchVe(unit, lock, power), unit)
           /\ lock # None /\ power # None => FetchVe(unit, lock, power).ok
  <1> PICK position : position = VePosition(lock, power)
    OBVIOUS
  <1> PICK results : results = Flattened("pendle", unit, <<position>>, "positive")
    OBVIOUS
  <1> DEFINE two == << Token("PENDLE", "PENDLE", "Supplied", lock.amount, 0, 0),
                       Token("", "vePENDLE", "GovernancePower", power, 0, 0) >>
  <1>1. position.tokens = two
    BY DEF VePosition, Position
  <1>2. two[1].price = 0 /\ two[2].price = 0
    BY DEF Token
  <1>3. DOMAIN two = 1..2 /\ two = [i \in 1..2 |-> two[i]]
    OBVIOUS
  <1> HIDE DEF two
  <1>4. IsList(two)
    BY <1>3, FunctionIsList
  <1>5. \A i \in 1..2 : i = 1 \/ i = 2
    OBVIOUS
  <1>6. IsList(two) /\ \A i \in DOMAIN two : two[i].price \in Int
    BY <1>2, <1>3, <1>4, <1>5
  <1>7. PricedTokens(position)
    BY <1>1, <1>6 DEF PricedTokens
  <1>8. <<position>> \in Seq({position}) /\ DOMAIN <<position>> = {1} /\ <<position>>[1] = position
    OBVIOUS
  <1>9. IsList(<<position>>) /\ \A i \in DOMAIN <<position>> : PricedTokens(<<position>>[i])
    BY <1>7, <1>8, SeqIsList
  <1>10. AllFetched(results, unit)
    <2>1. "pendle" # "wallet"
      OBVIOUS
    <2> PICK ps : ps = <<position>>
      OBVIOUS
    <2>2. IsList(ps) /\ \A i \in DOMAIN ps : PricedTokens(ps[i])
      BY <1>9
    <2>3. AllFetched(Flattened("pendle", unit, ps, "positive"), unit)
      BY <2>1, <2>2, FlattenedFetched
    <2>4. QED
      BY <2>3
  <1>11. IsReply(Answered(results), unit) /\ Answered(results).ok
    BY <1>10, AnsweredReplies
  <1>12. IsReply(Answered(<<>>), unit) /\ Answered(<<>>).ok
    BY NoneFetched, AnsweredReplies
  <1>13. QED
    BY <1>11, <1>12, FailedReplies DEF FetchVe

LEMMA PendleReply ==
    ASSUME NEW unit, NEW markets, NEW lock, NEW power, markets # None => IsList(markets)
    PROVE  /\ IsReply(FetchPendle(unit, markets, lock, power), unit)
           /\ markets # None => FetchPendle(unit, markets, lock, power).ok
  <1> PICK regular : regular = FetchMarkets(unit, markets, "shown")
    OBVIOUS
  <1> PICK ve : ve = IF unit.chain = "ethereum" THEN FetchVe(unit, lock, power)
                     ELSE Answered(<<>>)
    OBVIOUS
  <1>1. IsReply(regular, unit) /\ (markets # None => regular.ok)
    BY MarketsReply
  <1>2. IsReply(ve, unit)
    BY VeReply, NoneFetched, AnsweredReplies
  <1>3. AllFetched(regular.results \o ve.results, unit)
    BY <1>1, <1>2, ConcatFetched DEF IsReply
  <1>4. FetchPendle(unit, markets, lock, power)
          = IF ~regular.ok THEN Failed ELSE Answered(regular.results \o ve.results)
    BY DEF FetchPendle
  <1>5. QED
    BY <1>1, <1>3, <1>4, FailedReplies, AnsweredReplies

----------------------------------------------------------------------------
(* UniswapV3                                                               *)

LEMMA UniswapReply ==
    ASSUME NEW unit, NEW entries,
           entries # None => IsList(entries) /\ \A i \in DOMAIN entries : entries[i].well
    PROVE  /\ IsReply(FetchUniswap(unit, entries), unit)
           /\ entries # None => FetchUniswap(unit, entries).ok
  <1>1. CASE entries = None
    BY <1>1, FailedReplies DEF FetchUniswap
  <1>2. CASE entries # None
    <2> DEFINE ps == [i \in DOMAIN entries |-> PoolPosition(entries[i])]
    <2>1. IsList(ps)
      <3>1. DOMAIN ps = DOMAIN entries /\ ps = [i \in DOMAIN entries |-> ps[i]]
        OBVIOUS
      <3> HIDE DEF ps
      <3>2. QED
        BY <1>2, <3>1, MappedList
    <2>2. \A e : PricedTokens(PoolPosition(e))
      <3>1. ASSUME NEW e PROVE PricedTokens(PoolPosition(e))
        <4> DEFINE t == [k \in 1..6 |-> PoolToken(e.tokens[((k - 1) % 2) + 1],
                                                  Labels[((k - 1) \div 2) + 1])]
        <4>1. PoolPosition(e).tokens = t
          BY DEF PoolPosition, Position
        <4>2. \A k \in 1..6 : t[k].price = 0
          BY DEF PoolToken, Token
        <4>3. DOMAIN t = 1..6 /\ t = [k \in 1..6 |-> t[k]]
          OBVIOUS
        <4> HIDE DEF t
        <4>4. IsList(t)
          BY <4>3, FunctionIsList
        <4>5. QED
          BY <4>1, <4>2, <4>3, <4>4 DEF PricedTokens
      <3>2. QED
        BY <3>1
    <2>3. AllFetched(Flattened("uniswap-v3", unit, ps, "any"), unit)
      <3>1. "uniswap-v3" # "wallet" /\ \A i \in DOMAIN ps : PricedTokens(ps[i])
        BY <2>2
      <3> HIDE DEF ps
      <3>2. QED
        BY <2>1, <3>1, FlattenedFetched
    <2>4. FetchUniswap(unit, entries) = Answered(Flattened("uniswap-v3", unit, ps, "any"))
      BY <1>2 DEF FetchUniswap
    <2>5. QED
      BY <2>3, <2>4, AnsweredReplies
  <1>3. QED
    BY <1>1, <1>2

----------------------------------------------------------------------------
(* Raydium                                                                 *)

LEMMA ClmmIsPriced ==
    ASSUME NEW entry, NEW i, NEW failing, \A k \in 1..2 : entry.tokens[k].price \in Int
    PROVE  PricedTokens(ClmmPosition(entry, i, failing))
  <1> DEFINE unread(k) == <<"decimals", i, k>> \in failing
             price(k) == PriceRead(entry, k, <<"prices", i>> \in failing)
             amount(k, n) == AmountsOf(entry, k, unread(k))[n]
             raw(k, n) == n = 2 /\ entry.tokens[k].fees > 0
             token(k, n) == Token(entry.tokens[k].token, entry.tokens[k].symbol,
                                  amount(k, n).label, amount(k, n).of, price(k),
                                  amount(k, n).of * price(k))
             listed == << <<1, 1>>, <<2, 1>>, <<1, 2>>, <<2, 2>>, <<1, 3>>, <<2, 3>> >>
             keep == {j \in DOMAIN listed :
                        LET p == listed[j]
                        IN  p[2] = 1 \/ raw(p[1], p[2]) \/ amount(p[1], p[2]).of > 0}
             kept == Chosen(listed, keep)
             t == [j \in DOMAIN kept |-> token(kept[j][1], kept[j][2])]
  <1>1. ClmmPosition(entry, i, failing).tokens = t
    BY DEF ClmmPosition, Position
  <1>2. \A k \in 1..2 : \A n : token(k, n).price \in Int
    BY DEF Token, PriceRead
  <1>3. listed \in Seq((1..2) \X Nat)
    OBVIOUS
  <1> HIDE DEF listed, keep, token
  <1>4. IsList(listed) /\ \A j \in DOMAIN listed : listed[j] \in (1..2) \X Nat
    BY <1>3, SeqIsList
  <1>5. IsList(kept) /\ \A k \in DOMAIN kept : \E j \in DOMAIN listed : kept[k] = listed[j]
    BY <1>4, ChosenIs
  <1> HIDE DEF kept
  <1>6. \A k \in DOMAIN kept : kept[k][1] \in 1..2
    BY <1>4, <1>5
  <1>7. \A j \in DOMAIN t : t[j].price \in Int
    BY <1>2, <1>6
  <1>8. DOMAIN t = DOMAIN kept /\ t = [j \in DOMAIN kept |-> t[j]]
    OBVIOUS
  <1> HIDE DEF t
  <1>9. IsList(t)
    BY <1>5, <1>8, MappedList
  <1>10. QED
    BY <1>1, <1>7, <1>9 DEF PricedTokens

\* The places at which a list is kept.
LEMMA PlacesIs ==
    ASSUME NEW s, IsList(s), NEW keep, NEW places, places = Chosen([i \in DOMAIN s |-> i], keep)
    PROVE  IsList(places) /\ \A k \in DOMAIN places : places[k] \in DOMAIN s
  <1> DEFINE all == [i \in DOMAIN s |-> i]
  <1>1. DOMAIN all = DOMAIN s /\ all = [i \in DOMAIN s |-> all[i]] /\ \A i \in DOMAIN all : all[i] = i
    OBVIOUS
  <1>2. places = Chosen(all, keep)
    OBVIOUS
  <1> HIDE DEF all
  <1>3. IsList(all)
    BY <1>1, MappedList
  <1>4. /\ IsList(Chosen(all, keep))
        /\ \A k \in DOMAIN Chosen(all, keep) : \E i \in DOMAIN all : Chosen(all, keep)[k] = all[i]
    BY <1>3, ChosenIs
  <1>5. QED
    BY <1>1, <1>2, <1>4

LEMMA RaydiumReply ==
    ASSUME NEW unit, NEW entries, RaydiumAnswers(entries), NEW failing, NEW test
    PROVE  /\ IsReply(FetchRaydium(unit, entries, failing, test), unit)
           /\ failing = {} => FetchRaydium(unit, entries, failing, test).ok
  <1>1. CASE <<"mints">> \in failing
    BY <1>1, FailedReplies DEF FetchRaydium
  <1>2. CASE <<"mints">> \notin failing
    <2> PICK read : read = Readable(entries, failing)
      OBVIOUS
    <2> DEFINE keep == {i \in DOMAIN entries : entries[i].liquid /\ <<"clmm", i>> \notin failing}
               ps == [j \in DOMAIN read |-> ClmmPosition(entries[read[j]], read[j], failing)]
    <2>1. IsList(read) /\ \A k \in DOMAIN read : read[k] \in DOMAIN entries
      <3>1. read = Chosen([i \in DOMAIN entries |-> i], keep) /\ IsList(entries)
        BY DEF Readable, RaydiumAnswers
      <3> HIDE DEF keep
      <3>2. QED
        BY <3>1, PlacesIs
    <2>2. \A j \in DOMAIN ps : PricedTokens(ps[j])
      <3>1. \A i \in DOMAIN entries : PricedTokens(ClmmPosition(entries[i], i, failing))
        BY ClmmIsPriced DEF RaydiumAnswers
      <3>2. QED
        BY <2>1, <3>1
    <2>3. DOMAIN ps = DOMAIN read /\ ps = [j \in DOMAIN read |-> ps[j]]
      OBVIOUS
    <2>4. FetchRaydium(unit, entries, failing, test) = Answered(Flattened("raydium", unit, ps, test))
      BY <1>2 DEF FetchRaydium
    <2> HIDE DEF ps
    <2>5. IsList(ps)
      BY <2>1, <2>3, MappedList
    <2>6. AllFetched(Flattened("raydium", unit, ps, test), unit)
      <3>1. "raydium" # "wallet"
        OBVIOUS
      <3>2. QED
        BY <2>2, <2>5, <3>1, FlattenedFetched
    <2>7. QED
      BY <2>4, <2>6, AnsweredReplies
  <1>3. QED
    BY <1>1, <1>2

----------------------------------------------------------------------------
(* Kamino                                                                  *)

ReservesPriced(market) ==
    \A r \in DOMAIN market.reserves : market.reserves[r].price \in Int

LEMMA ReservePrice ==
    ASSUME NEW market, NEW reserve, ReservesPriced(market)
    PROVE  ReserveOf(market, reserve).price \in Int
  BY DEF ReservesPriced, ReserveOf

LEMMA ShareSumType ==
    ASSUME NEW entries, IsList(entries), \A i \in DOMAIN entries : entries[i].share \in Int
    PROVE  ShareSum(entries) \in Int
  <1> DEFINE f == [i \in DOMAIN entries |-> entries[i].share]
  <1>1. Len(entries) \in Nat /\ DOMAIN entries = 1..Len(entries)
    BY ListIs
  <1>2. DOMAIN f = DOMAIN entries /\ \A i \in DOMAIN entries : f[i] \in Int
    OBVIOUS
  <1>3. ShareSum(entries) = SumFunctionOnSet(f, DOMAIN entries)
    BY DEF ShareSum, SumFunction
  <1>4. IsFiniteSet(DOMAIN entries)
    BY <1>1, FS_Interval
  <1> HIDE DEF f
  <1>5. QED
    BY <1>2, <1>3, <1>4, SumType

LEMMA UnitPriceType ==
    ASSUME NEW price \in Int, NEW value \in Int, NEW amount \in Int
    PROVE  UnitPrice(price, value, amount) \in Int
  BY PriceOfType DEF UnitPrice

LEMMA ProportionalType ==
    ASSUME NEW share \in Int, NEW total \in Int, NEW usd \in Int
    PROVE  Proportional(share, total, usd) \in Int
  BY DEF Proportional

LEMMA DepositIsPriced ==
    ASSUME NEW market, ReservesPriced(market), NEW obligation, ObligationOK(obligation),
           NEW i \in DOMAIN obligation.deposits, NEW health
    PROVE  PricedTokens(DepositPosition(market, obligation, obligation.deposits[i], health))
  <1> PICK entry : entry = obligation.deposits[i]
    OBVIOUS
  <1> PICK reserve : reserve = ReserveOf(market, entry.reserve)
    OBVIOUS
  <1> PICK value : value = Proportional(entry.share, ShareSum(obligation.deposits),
                                        obligation.deposited)
    OBVIOUS
  <1>1. /\ IsList(obligation.deposits) /\ entry.share \in Int /\ entry.amount \in Int
        /\ \A k \in DOMAIN obligation.deposits : obligation.deposits[k].share \in Int
        /\ obligation.deposited \in Int
    BY DEF ObligationOK
  <1>2. ShareSum(obligation.deposits) \in Int
    BY <1>1, ShareSumType
  <1>3. value \in Int
    BY <1>1, <1>2, ProportionalType
  <1>4. UnitPrice(reserve.price, value, entry.amount) \in Int
    BY <1>1, <1>3, ReservePrice, UnitPriceType
  <1>5. DepositPosition(market, obligation, entry, health)
          = Position("lending", None, reserve.supplyRate, health,
                 << Token(reserve.mint, reserve.symbol, "Supplied", entry.amount,
                          UnitPrice(reserve.price, value, entry.amount), value) >>)
    BY DEF DepositPosition
  <1>6. \A a, b, c, d, e, p \in Int : Token(a, b, c, d, p, e).price \in Int
    BY DEF Token
  <1>7. Token(reserve.mint, reserve.symbol, "Supplied", entry.amount,
              UnitPrice(reserve.price, value, entry.amount), value).price \in Int
    BY <1>4 DEF Token
  <1>8. QED
    BY <1>5, <1>7, OneToken

LEMMA BorrowedValueType ==
    ASSUME NEW obligation, ObligationOK(obligation), NEW i \in DOMAIN obligation.borrows
    PROVE  BorrowedValue(obligation, obligation.borrows[i]) \in Int
  <1> PICK total : total = ShareSum(obligation.borrows)
    OBVIOUS
  <1> PICK n : n = Len(obligation.borrows)
    OBVIOUS
  <1> PICK share : share = obligation.borrows[i].share
    OBVIOUS
  <1>1. /\ IsList(obligation.borrows) /\ obligation.borrowed \in Int /\ share \in Int
        /\ \A k \in DOMAIN obligation.borrows : obligation.borrows[k].share \in Int
    BY DEF ObligationOK
  <1>2. total \in Int
    BY <1>1, ShareSumType
  <1>3. n \in Nat \ {0}
    <2>1. n \in Nat /\ i \in 1..n
      BY <1>1, ListIs
    <2>2. QED
      BY <2>1
  <1>4. obligation.borrowed \div n \in Int
    BY <1>1, <1>3
  <1>5. total > 0 => (share * obligation.borrowed) \div total \in Int
    <2>1. share * obligation.borrowed \in Int
      BY <1>1
    <2>2. QED
      BY <1>2, <2>1
  <1>6. QED
    BY <1>4, <1>5 DEF BorrowedValue

LEMMA DebtIsPriced ==
    ASSUME NEW market, ReservesPriced(market), NEW obligation, ObligationOK(obligation),
           NEW i \in DOMAIN obligation.borrows, NEW health
    PROVE  PricedTokens(DebtPosition(market, obligation, obligation.borrows[i], health))
  <1> PICK entry : entry = obligation.borrows[i]
    OBVIOUS
  <1> PICK reserve : reserve = ReserveOf(market, entry.reserve)
    OBVIOUS
  <1> PICK value : value = BorrowedValue(obligation, entry)
    OBVIOUS
  <1> PICK amount : amount = BorrowedAmount(entry, value, reserve.price)
    OBVIOUS
  <1>1. entry.amount \in Int /\ reserve.price \in Int /\ value \in Int
    BY BorrowedValueType, ReservePrice DEF ObligationOK
  <1>2. amount \in Int
    BY <1>1 DEF BorrowedAmount
  <1>3. UnitPrice(reserve.price, value, amount) \in Int
    BY <1>1, <1>2, UnitPriceType
  <1>4. DebtPosition(market, obligation, entry, health)
          = Position("borrowing", None, -reserve.borrowRate, health,
                 << Token(reserve.mint, reserve.symbol, "Borrowed", amount,
                          UnitPrice(reserve.price, value, amount), value) >>)
    BY DEF DebtPosition
  <1>5. Token(reserve.mint, reserve.symbol, "Borrowed", amount,
              UnitPrice(reserve.price, value, amount), value).price \in Int
    BY <1>3 DEF Token
  <1>6. QED
    BY <1>4, <1>5, OneToken

AllPriced(positions) ==
    IsList(positions) /\ \A i \in DOMAIN positions : PricedTokens(positions[i])

LEMMA ObligationIsPriced ==
    ASSUME NEW market, ReservesPriced(market), NEW obligation, ObligationOK(obligation)
    PROVE  AllPriced(ObligationPositions(market, obligation))
  <1> PICK health : health = HealthFactor(obligation.deposited, obligation.borrowed)
    OBVIOUS
  <1> DEFINE lent == [i \in DOMAIN obligation.deposits |->
                        DepositPosition(market, obligation, obligation.deposits[i], health)]
             owed == [i \in DOMAIN obligation.borrows |->
                        DebtPosition(market, obligation, obligation.borrows[i], health)]
  <1>1. IsList(obligation.deposits) /\ IsList(obligation.borrows)
    BY DEF ObligationOK
  <1>2. /\ DOMAIN lent = DOMAIN obligation.deposits
        /\ lent = [i \in DOMAIN obligation.deposits |-> lent[i]]
        /\ \A i \in DOMAIN lent : PricedTokens(lent[i])
    BY DepositIsPriced
  <1>3. /\ DOMAIN owed = DOMAIN obligation.borrows
        /\ owed = [i \in DOMAIN obligation.borrows |-> owed[i]]
        /\ \A i \in DOMAIN owed : PricedTokens(owed[i])
    BY DebtIsPriced
  <1> PICK all : Joins(all, lent, owed)
    BY DEF Joins
  <1> DEFINE keep == {i \in DOMAIN all : all[i].tokens[1].value > 0}
  <1>4. ObligationPositions(market, obligation) = Chosen(all, keep)
    BY DEF ObligationPositions, Joins
  <1> HIDE DEF lent, owed
  <1>5. IsList(lent) /\ IsList(owed)
    BY <1>1, <1>2, <1>3, MappedList
  <1>6. /\ IsList(all)
        /\ \A i \in DOMAIN lent : all[i] = lent[i]
        /\ \A i \in DOMAIN owed : all[Len(lent) + i] = owed[i]
        /\ \A i \in DOMAIN all : i \in DOMAIN lent \/ \E k \in DOMAIN owed : i = Len(lent) + k
    BY <1>5, ConcatIs
  <1>7. ASSUME NEW i \in DOMAIN all PROVE PricedTokens(all[i])
    <2>1. CASE i \in DOMAIN lent
      BY <1>2, <1>6, <2>1
    <2>2. CASE \E k \in DOMAIN owed : i = Len(lent) + k
      <3>1. PICK k \in DOMAIN owed : i = Len(lent) + k
        BY <2>2
      <3>2. all[i] = owed[k]
        BY <1>6, <3>1
      <3>3. QED
        BY <1>3, <3>2
    <2>3. QED
      BY <1>6, <2>1, <2>2
  <1> HIDE DEF keep
  <1>8. /\ IsList(Chosen(all, keep))
        /\ \A k \in DOMAIN Chosen(all, keep) : \E i \in DOMAIN all : Chosen(all, keep)[k] = all[i]
    BY <1>6, ChosenIs
  <1>9. QED
    BY <1>4, <1>7, <1>8 DEF AllPriced

ObligationsOK(obligations) ==
    /\ IsList(obligations)
    /\ \A k \in DOMAIN obligations :
          ReservesPriced(obligations[k].market) /\ ObligationOK(obligations[k].obligation)

LEMMA ObligationsAre ==
    ASSUME NEW markets, KaminoAnswers(markets), NEW failing
    PROVE  ObligationsOK(Obligations(markets, failing))
  <1> DEFINE keep == {m \in DOMAIN markets :
                        /\ markets[m].obligations # <<>>
                        /\ {<<"obligations", m>>, <<"reserves", m>>} \cap failing = {}}
  <1> PICK listed : listed = Markets(markets, failing)
    OBVIOUS
  <1>1. IsList(listed) /\ \A k \in DOMAIN listed : listed[k] \in DOMAIN markets
    <2>1. listed = Chosen([m \in DOMAIN markets |-> m], keep) /\ IsList(markets)
      BY DEF Markets, KaminoAnswers
    <2> HIDE DEF keep
    <2>2. QED
      BY <2>1, PlacesIs
  <1> DEFINE those(k) == [i \in DOMAIN markets[listed[k]].obligations |->
                            [market |-> markets[listed[k]], of |-> listed[k],
                             obligation |-> markets[listed[k]].obligations[i]]]
             seqs == [k \in DOMAIN listed |-> those(k)]
  <1>2. ASSUME NEW k \in DOMAIN listed
        PROVE  ObligationsOK(those(k))
    <2> PICK m : m = listed[k] /\ m \in DOMAIN markets
      BY <1>1
    <2> DEFINE t == those(k)
    <2>1. /\ IsList(markets[m].obligations) /\ ReservesPriced(markets[m])
          /\ \A i \in DOMAIN markets[m].obligations : ObligationOK(markets[m].obligations[i])
      BY DEF KaminoAnswers, ReservesPriced
    <2>2. /\ DOMAIN t = DOMAIN markets[m].obligations
          /\ t = [i \in DOMAIN markets[m].obligations |-> t[i]]
          /\ \A i \in DOMAIN t : t[i].market = markets[m]
                                  /\ t[i].obligation = markets[m].obligations[i]
      OBVIOUS
    <2> HIDE DEF t
    <2>3. IsList(t)
      BY <2>1, <2>2, MappedList
    <2>4. ObligationsOK(t)
      BY <2>1, <2>2, <2>3 DEF ObligationsOK
    <2>5. QED
      BY <2>4 DEF t
  <1>3. Obligations(markets, failing) = FlattenSeq(seqs)
    BY DEF Obligations
  <1>4. /\ DOMAIN seqs = DOMAIN listed /\ seqs = [k \in DOMAIN listed |-> seqs[k]]
        /\ \A k \in DOMAIN seqs : ObligationsOK(seqs[k])
    BY <1>2
  <1> HIDE DEF seqs, those
  <1>5. IsList(seqs) /\ \A k \in DOMAIN seqs : IsList(seqs[k])
    <2>1. IsList(seqs)
      BY <1>1, <1>4, MappedList
    <2>2. QED
      BY <1>4, <2>1 DEF ObligationsOK
  <1> DEFINE f == FlattenSeq(seqs)
  <1>6. /\ IsList(f)
        /\ \A k \in DOMAIN f : \E i \in DOMAIN seqs : \E j \in DOMAIN seqs[i] : f[k] = seqs[i][j]
    BY <1>5, FlattenIs
  <1> HIDE DEF f
  <1>7. \A i \in DOMAIN seqs : \A j \in DOMAIN seqs[i] :
            ReservesPriced(seqs[i][j].market) /\ ObligationOK(seqs[i][j].obligation)
    BY <1>4 DEF ObligationsOK
  <1>8. ObligationsOK(f)
    BY <1>6, <1>7 DEF ObligationsOK
  <1>9. QED
    BY <1>3, <1>8 DEF f

LEMMA KaminoPositionsArePriced ==
    ASSUME NEW obligations, ObligationsOK(obligations)
    PROVE  AllPriced(KaminoPositions(obligations))
  <1> DEFINE those(k) == ObligationPositions(obligations[k].market, obligations[k].obligation)
             seqs == [k \in DOMAIN obligations |-> those(k)]
  <1>1. \A k \in DOMAIN obligations : AllPriced(those(k))
    BY ObligationIsPriced DEF ObligationsOK
  <1>2. KaminoPositions(obligations) = FlattenSeq(seqs)
    BY DEF KaminoPositions
  <1> HIDE DEF those
  <1>3. /\ DOMAIN seqs = DOMAIN obligations /\ seqs = [k \in DOMAIN obligations |-> seqs[k]]
        /\ \A k \in DOMAIN seqs : AllPriced(seqs[k])
    BY <1>1
  <1> HIDE DEF seqs
  <1>4. IsList(seqs) /\ \A k \in DOMAIN seqs : IsList(seqs[k])
    <2>1. IsList(obligations)
      BY DEF ObligationsOK
    <2>2. IsList(seqs)
      BY <1>3, <2>1, MappedList
    <2>3. QED
      BY <1>3, <2>2 DEF AllPriced
  <1> DEFINE f == FlattenSeq(seqs)
  <1>5. /\ IsList(f)
        /\ \A k \in DOMAIN f : \E i \in DOMAIN seqs : \E j \in DOMAIN seqs[i] : f[k] = seqs[i][j]
    BY <1>4, FlattenIs
  <1> HIDE DEF f
  <1>6. \A i \in DOMAIN seqs : \A j \in DOMAIN seqs[i] : PricedTokens(seqs[i][j])
    BY <1>3 DEF AllPriced
  <1>7. AllPriced(f)
    BY <1>5, <1>6 DEF AllPriced
  <1>8. QED
    BY <1>2, <1>7 DEF f

LEMMA AttachedFetched ==
    ASSUME NEW results, NEW unit, AllFetched(results, unit), NEW mints, NEW type
    PROVE  AllFetched(AttachHistory(results, mints, type), unit)
  <1> DEFINE t == AttachHistory(results, mints, type)
  <1>1. /\ DOMAIN t = DOMAIN results /\ t = [i \in DOMAIN results |-> t[i]]
        /\ \A i \in DOMAIN results : Retouched(results[i], t[i])
    BY DEF AttachHistory, Retouched
  <1> HIDE DEF t
  <1>2. AllFetched(t, unit)
    BY <1>1, ReplacedFetched
  <1>3. QED
    BY <1>2 DEF t

LEMMA KaminoReply ==
    ASSUME NEW unit, NEW markets, KaminoAnswers(markets), NEW failing, NEW test
    PROVE  /\ IsReply(FetchKamino(unit, markets, failing, test), unit)
           /\ FetchKamino(unit, markets, failing, test).ok
  <1> PICK obligations : obligations = Obligations(markets, failing)
    OBVIOUS
  <1> PICK results : results = Flattened("kamino", unit, KaminoPositions(obligations), test)
    OBVIOUS
  <1> PICK lent : lent = AttachHistory(results, EventMints(obligations, "deposits", failing),
                                       "lending")
    OBVIOUS
  <1> PICK all : all = AttachHistory(lent, EventMints(obligations, "borrows", failing),
                                     "borrowing")
    OBVIOUS
  <1>1. AllPriced(KaminoPositions(obligations))
    BY ObligationsAre, KaminoPositionsArePriced
  <1>2. AllFetched(results, unit)
    <2>1. "kamino" # "wallet"
      OBVIOUS
    <2>2. QED
      BY <1>1, <2>1, FlattenedFetched DEF AllPriced
  <1>3. AllFetched(all, unit)
    BY <1>2, AttachedFetched
  <1>4. FetchKamino(unit, markets, failing, test) = Answered(all)
    BY DEF FetchKamino
  <1>5. QED
    BY <1>3, <1>4, AnsweredReplies

----------------------------------------------------------------------------
(* The wallet                                                              *)

LEMMA NativeReply ==
    ASSUME NEW unit, NEW amount, NEW quoted, quoted # None => quoted \in Int
    PROVE  /\ IsReply(FetchNative(unit, amount, quoted), unit)
           /\ amount # None => FetchNative(unit, amount, quoted).ok
  <1>1. CASE amount = None
    BY <1>1, FailedReplies DEF FetchNative
  <1>2. CASE amount # None
    <2> DEFINE price == IF quoted = None THEN FallbackPrice(unit.chain) ELSE quoted
               coin == Token("native", NativeSymbol(unit.chain), None, amount, price,
                             amount * price)
               r == ResultOf("native", unit, InWallet("wallet"), coin)
    <2>1. coin.price \in Int /\ "native" # "wallet"
      BY DEF Token, FallbackPrice
    <2>2. IsFetched(r, unit)
      <3> HIDE DEF coin
      <3>1. QED
        BY <2>1, ResultIs
    <2>3. FetchNative(unit, amount, quoted)
            = Answered(IF amount = 0 THEN <<>> ELSE <<r>>)
      BY <1>2 DEF FetchNative
    <2> HIDE DEF r
    <2>4. AllFetched(<<r>>, unit) /\ AllFetched(<<>>, unit)
      BY <2>2, OneFetched, NoneFetched
    <2>5. QED
      BY <2>3, <2>4, AnsweredReplies
  <1>3. QED
    BY <1>1, <1>2

LEMMA EvmTokensReply ==
    ASSUME NEW unit, NEW tokens,
           tokens # None => IsList(tokens) /\ \A i \in DOMAIN tokens : tokens[i].price \in Int
    PROVE  /\ IsReply(FetchEvmTokens(unit, tokens), unit)
           /\ tokens # None => FetchEvmTokens(unit, tokens).ok
  <1>1. CASE tokens = None
    BY <1>1, FailedReplies DEF FetchEvmTokens
  <1>2. CASE tokens # None
    <2> PICK keep : keep = {i \in DOMAIN tokens :
                        /\ ~tokens[i].spam /\ ~tokens[i].protocol
                        /\ tokens[i].balance > 0 /\ tokens[i].price > 0}
      OBVIOUS
    <2>c. PICK kept : kept = Chosen(tokens, keep)
      OBVIOUS
    <2>0. IsList(tokens) /\ \A i \in DOMAIN tokens : tokens[i].price \in Int
      BY <1>2
    <2>1. /\ IsList(kept)
          /\ \A k \in DOMAIN kept : \E i \in DOMAIN tokens : i \in keep /\ kept[k] = tokens[i]
      BY ONLY <2>c, <2>0, ChosenIs
    <2>2. \A k \in DOMAIN kept : kept[k].price \in Int /\ kept[k].price > 0
      BY <2>0, <2>1
    <2> DEFINE rs == [k \in DOMAIN kept |-> TokenResult(unit, kept[k], kept[k].price, kept[k].value)]
    <2>3. FetchEvmTokens(unit, tokens) = Answered(rs)
      BY <1>2, <2>c DEF FetchEvmTokens
    <2>4. \A k \in DOMAIN kept : IsFetched(rs[k], unit)
      <3>1. ASSUME NEW k \in DOMAIN kept PROVE IsFetched(rs[k], unit)
        <4> PICK t : t = Token(kept[k].token, kept[k].symbol, None, kept[k].balance,
                               kept[k].price, kept[k].value)
          OBVIOUS
        <4>1. t.price \in Int /\ t.price > 0
          BY <2>2 DEF Token
        <4>2. rs[k] = ResultOf("wallet", unit, InWallet("token"), t)
          BY DEF TokenResult
        <4>3. QED
          BY <4>1, <4>2, ResultIs
      <3>2. QED
        BY <3>1
    <2>5. Len(kept) \in Nat /\ DOMAIN kept = 1..Len(kept)
      BY <2>1, ListIs
    <2>6. DOMAIN rs = 1..Len(kept) /\ rs = [k \in 1..Len(kept) |-> rs[k]]
      BY <2>5
    <2> HIDE DEF rs
    <2>7. AllFetched(rs, unit)
      BY <2>4, <2>5, <2>6, MappedFetched
    <2>8. QED
      BY <2>3, <2>7, AnsweredReplies
  <1>3. QED
    BY <1>1, <1>2

LEMMA SolanaTokensReply ==
    ASSUME NEW unit, unit.chain = "solana", NEW tokens, NEW failing,
           tokens # None => SolanaWalletAnswers(tokens)
    PROVE  /\ IsReply(FetchSolanaTokens(unit, tokens, failing), unit)
           /\ tokens # None => FetchSolanaTokens(unit, tokens, failing).ok
  <1>1. CASE tokens = None
    BY <1>1, FailedReplies DEF FetchSolanaTokens
  <1>2. CASE tokens # None
    <2> PICK keep : keep = {i \in DOMAIN tokens : tokens[i].balance > 0}
      OBVIOUS
    <2> PICK held : held = Chosen([i \in DOMAIN tokens |-> i], keep)
      OBVIOUS
    <2>1. IsList(tokens)
      BY <1>2 DEF SolanaWalletAnswers
    <2>2. IsList(held) /\ \A k \in DOMAIN held : held[k] \in DOMAIN tokens
      BY <2>1, PlacesIs
    <2> DEFINE asked(i) == IF <<"quote", i>> \in failing THEN None ELSE tokens[i].quote
               rs == [k \in DOMAIN held |->
                        SolanaToken(unit, tokens[held[k]], asked(held[k]))]
    <2>3. FetchSolanaTokens(unit, tokens, failing) = Answered(rs)
      BY <1>2 DEF FetchSolanaTokens
    <2>4. \A k \in DOMAIN held : IsFetched(rs[k], unit)
      <3>1. ASSUME NEW k \in DOMAIN held PROVE IsFetched(rs[k], unit)
        <4> PICK x : x = tokens[held[k]]
          OBVIOUS
        <4> PICK price : price = IF x.price # 0 THEN x.price
                                 ELSE IF asked(held[k]) = None THEN 0 ELSE asked(held[k])
          OBVIOUS
        <4> PICK value : value = IF x.value = 0 \/ x.price = 0 THEN x.balance * price ELSE x.value
          OBVIOUS
        <4> PICK t : t = Token(x.token, x.symbol, None, x.balance, price, value)
          OBVIOUS
        <4>1. held[k] \in DOMAIN tokens
          BY <2>2
        <4>2. x.price \in Int /\ tokens[held[k]].quote \in Int
          BY <1>2, <4>1 DEF SolanaWalletAnswers
        <4>3. price \in Int
          BY <4>2
        <4>4. t.price \in Int
          BY <4>3 DEF Token
        <4>5. rs[k] = ResultOf("wallet", unit, InWallet("token"), t)
          BY DEF SolanaToken, TokenResult
        <4>s. "wallet" = "wallet" /\ unit.chain # "solana" => t.price > 0
          OBVIOUS
        <4>6. IsFetched(ResultOf("wallet", unit, InWallet("token"), t), unit)
          BY ONLY <4>4, <4>s, ResultIs
        <4>7. QED
          BY <4>5, <4>6
      <3>2. QED
        BY <3>1
    <2>5. Len(held) \in Nat /\ DOMAIN held = 1..Len(held)
      BY <2>2, ListIs
    <2>6. DOMAIN rs = 1..Len(held) /\ rs = [k \in 1..Len(held) |-> rs[k]]
      BY <2>5
    <2> HIDE DEF rs
    <2>7. AllFetched(rs, unit)
      BY <2>4, <2>5, <2>6, MappedFetched
    <2>8. QED
      BY <2>3, <2>7, AnsweredReplies
  <1>3. QED
    BY <1>1, <1>2

\* What the API makes up, whatever stands for the address that it leaves blank.
MadeUp(unit, blank) ==
    << ResultOf("aave", unit, Position("lending", None, None, None, <<>>),
                Token(blank, "USDC", None, 1000, 1, 1000)),
       ResultOf("uniswap", unit, Position("liquidity", None, None, None, <<>>),
                Token(blank, "ETH-USDC", None, 500, 1, 500)) >>

LEMMA MadeUpFetched ==
    ASSUME NEW unit, NEW blank
    PROVE  AllFetched(MadeUp(unit, blank), unit)
  <1> PICK a : a = Token(blank, "USDC", None, 1000, 1, 1000)
    OBVIOUS
  <1> PICK b : b = Token(blank, "ETH-USDC", None, 500, 1, 500)
    OBVIOUS
  <1> PICK r : r = ResultOf("aave", unit, Position("lending", None, None, None, <<>>), a)
    OBVIOUS
  <1> PICK q : q = ResultOf("uniswap", unit, Position("liquidity", None, None, None, <<>>), b)
    OBVIOUS
  <1>1. a.price \in Int /\ b.price \in Int /\ "aave" # "wallet" /\ "uniswap" # "wallet"
    BY DEF Token
  <1>2. IsFetched(r, unit) /\ IsFetched(q, unit)
    BY <1>1, ResultIs
  <1>3. MadeUp(unit, blank) = <<r, q>>
    BY DEF MadeUp
  <1>4. DOMAIN <<r, q>> = 1..2 /\ <<r, q>> = [i \in 1..2 |-> <<r, q>>[i]]
        /\ <<r, q>>[1] = r /\ <<r, q>>[2] = q /\ \A i \in 1..2 : i = 1 \/ i = 2
    OBVIOUS
  <1> DEFINE s == <<r, q>>
             n == 2
  <1>5. /\ n \in Nat /\ DOMAIN s = 1..n /\ s = [i \in 1..n |-> s[i]]
        /\ \A i \in 1..n : IsFetched(s[i], unit)
    BY <1>2, <1>4
  <1> HIDE DEF s, n
  <1>6. AllFetched(s, unit)
    BY ONLY <1>5, MappedFetched
  <1>7. QED
    BY <1>3, <1>6 DEF s

LEMMA MockFetched ==
    ASSUME NEW unit
    PROVE  AllFetched(MockData(unit), unit)
  <1>1. MockData(unit) = MadeUp(unit, "")
    BY Zenon DEF MockData, MadeUp
  <1>2. QED
    BY Zenon, <1>1, MadeUpFetched

----------------------------------------------------------------------------
(* The sources                                                             *)

SourcesFor(chain) ==
    IF IsEvm(chain)
    THEN {"native", "moralis", "aave-v3", "uniswap-v3", "pendle", "pendle-ve"}
    ELSE {"moralis", "kamino", "raydium"}

LEMMA ReplyIs ==
    \A h, call, failing : /\ Reply(h, call, failing) \in {None, h[call]}
                          /\ failing = {} => Reply(h, call, failing) = h[call]
  BY DEF Reply

LEMMA FetchReplies ==
    ASSUME NEW unit \in Units, NEW pipeline, NEW source \in SourcesFor(unit.chain), NEW failing
    PROVE  /\ IsReply(Fetch(pipeline, source, unit, Holdings[unit], failing), unit)
           /\ failing = {} => Fetch(pipeline, source, unit, Holdings[unit], failing).ok
  <1> PICK h : h = Holdings[unit]
    OBVIOUS
  <1> DEFINE reply(call) == Reply(h, call, failing)
             fetched == Fetch(pipeline, source, unit, h, failing)
             Good(r) == IsReply(r, unit) /\ (failing = {} => r.ok)
  <1>1. Answers(unit.chain, h)
    BY HoldingsAssumption
  <1>2. \A call : reply(call) \in {None, h[call]} /\ (failing = {} => reply(call) = h[call])
    BY ReplyIs
  <1> HIDE DEF reply
  <1>3. ASSUME IsEvm(unit.chain)
        PROVE  /\ EvmWalletAnswers(h.native, h.gas, h.tokens, h.screen)
               /\ AaveAnswers(h.supplies, h.borrows)
               /\ UniswapAnswers(h.positions)
               /\ PendleAnswers(h.pendle, h.lock, h.power)
    BY <1>1, <1>3 DEF Answers
  <1>4. ASSUME ~IsEvm(unit.chain)
        PROVE  SolanaWalletAnswers(h.tokens) /\ KaminoAnswers(h.markets) /\ RaydiumAnswers(h.nfts)
    BY <1>1, <1>4 DEF Answers
  <1> SUFFICES Good(fetched)
    BY DEF reply
  <1>5. CASE source = "native"
    <2>1. IsEvm(unit.chain)
      BY <1>5 DEF SourcesFor
    <2>2. h.native # None /\ h.gas \in Int
      BY <1>3, <2>1 DEF EvmWalletAnswers
    <2>3. reply("gas") # None => reply("gas") \in Int
      BY <1>2, <2>2
    <2>4. failing = {} => reply("native") # None
      BY <1>2, <2>2
    <2>5. Good(FetchNative(unit, reply("native"), reply("gas")))
      BY <2>3, <2>4, NativeReply
    <2>6. fetched = FetchNative(unit, reply("native"), reply("gas"))
      BY <1>5 DEF Fetch, reply
    <2>7. QED
      BY <2>5, <2>6
  <1>6. CASE source = "moralis" /\ IsEvm(unit.chain)
    <2>1. h.tokens # None /\ IsList(h.tokens) /\ \A i \in DOMAIN h.tokens : h.tokens[i].price \in Int
      BY <1>3, <1>6 DEF EvmWalletAnswers
    <2> PICK t : t = reply("tokens")
      OBVIOUS
    <2>2. /\ t # None => IsList(t) /\ \A i \in DOMAIN t : t[i].price \in Int
          /\ failing = {} => t # None
      BY <1>2, <2>1
    <2>3. Good(FetchEvmTokens(unit, t))
      BY <2>2, EvmTokensReply
    <2>4. fetched = FetchEvmTokens(unit, t)
      BY <1>6 DEF Fetch, ApiTokens, reply
    <2>5. QED
      BY <2>3, <2>4
  <1>7. CASE source = "moralis" /\ ~IsEvm(unit.chain)
    <2> PICK t : t = reply("tokens")
      OBVIOUS
    <2>1. SolanaWalletAnswers(h.tokens) /\ h.tokens # None
      BY <1>4, <1>7 DEF SolanaWalletAnswers
    <2>2. (t # None => SolanaWalletAnswers(t)) /\ (failing = {} => t # None)
      BY <1>2, <2>1
    <2>3. unit.chain = "solana"
      BY <1>7 DEF IsEvm
    <2>4. Good(FetchSolanaTokens(unit, t, failing))
      BY <2>2, <2>3, SolanaTokensReply
    <2>5. fetched = FetchSolanaTokens(unit, t, failing)
      BY <1>7 DEF Fetch, ApiTokens, reply
    <2>6. QED
      BY <2>4, <2>5
  <1>8. CASE source = "aave-v3"
    <2>1. IsEvm(unit.chain)
      BY <1>8 DEF SourcesFor
    <2>2. h.supplies # None /\ h.borrows # None /\ Entries(h.supplies) /\ Entries(h.borrows)
      BY <1>3, <2>1 DEF AaveAnswers, Entries
    <2> PICK s, b, e : s = reply("supplies") /\ b = reply("borrows") /\ e = reply("history")
      OBVIOUS
    <2>3. /\ s # None => Entries(s)
          /\ b # None => Entries(b)
          /\ failing = {} => s # None /\ b # None
      BY <1>2, <2>2
    <2>4. Good(FetchAave(unit, s, b, e, "positive")) /\ Good(FetchAave(unit, s, b, e, "shown"))
      BY <2>3, AaveReplies
    <2>5. \/ fetched = FetchAave(unit, s, b, e, "positive")
          \/ fetched = FetchAave(unit, s, b, e, "shown")
      BY <1>8 DEF Fetch, ApiAave, AaveAdapter, reply
    <2>6. QED
      BY <2>4, <2>5
  <1>9. CASE source = "uniswap-v3"
    <2>1. IsEvm(unit.chain)
      BY <1>9 DEF SourcesFor
    <2>2. UniswapAnswers(h.positions)
      BY <1>3, <2>1
    <2> PICK p : p = reply("positions")
      OBVIOUS
    <2>3. /\ p # None => IsList(p) /\ \A i \in DOMAIN p : p[i].well
          /\ failing = {} => p # None
      BY <1>2, <2>2 DEF UniswapAnswers
    <2>4. Good(FetchUniswap(unit, p))
      BY <2>3, UniswapReply
    <2>5. fetched = FetchUniswap(unit, p)
      BY <1>9 DEF Fetch, ApiUniswap, UniswapAdapter, reply
    <2>6. QED
      BY <2>4, <2>5
  <1>10. CASE source = "kamino"
    <2>1. ~IsEvm(unit.chain)
      BY <1>10 DEF SourcesFor
    <2>2. KaminoAnswers(h.markets)
      BY <1>4, <2>1
    <2>3. \A test : Good(FetchKamino(unit, h.markets, failing, test))
      BY <2>2, KaminoReply
    <2>4. \E test : fetched = FetchKamino(unit, h.markets, failing, test)
      BY <1>10 DEF Fetch, ApiKamino, KaminoAdapter
    <2>5. QED
      BY <2>3, <2>4
  <1>11. CASE source = "raydium"
    <2>1. ~IsEvm(unit.chain)
      BY <1>11 DEF SourcesFor
    <2>2. RaydiumAnswers(h.nfts)
      BY <1>4, <2>1
    <2>3. \A test : Good(FetchRaydium(unit, h.nfts, failing, test))
      BY <2>2, RaydiumReply
    <2>4. \E test : fetched = FetchRaydium(unit, h.nfts, failing, test)
      BY <1>11 DEF Fetch, ApiRaydium, RaydiumAdapter
    <2>5. QED
      BY <2>3, <2>4
  <1>12. CASE source \in {"pendle", "pendle-ve"}
    <2>1. IsEvm(unit.chain)
      BY <1>12 DEF SourcesFor
    <2>2. PendleAnswers(h.pendle, h.lock, h.power)
      BY <1>3, <2>1
    <2> PICK m, l, p : m = reply("pendle") /\ l = reply("lock") /\ p = reply("power")
      OBVIOUS
    <2>3. /\ m # None => IsList(m)
          /\ failing = {} => m # None /\ l # None /\ p # None
      BY <1>2, <2>2 DEF PendleAnswers
    <2>4. Good(FetchPendle(unit, m, l, p)) /\ Good(FetchVe(unit, l, p))
      BY <2>3, PendleReply, VeReply
    <2>5. fetched = FetchPendle(unit, m, l, p) \/ fetched = FetchVe(unit, l, p)
      BY <1>12 DEF Fetch, PendleAdapter, ApiPendleVe, reply
    <2>6. QED
      BY <2>4, <2>5
  <1> HIDE DEF fetched, Good
  <1>13. QED
    BY <1>5, <1>6, <1>7, <1>8, <1>9, <1>10, <1>11, <1>12 DEF SourcesFor

\* Sources that are left to ask; the NFTs come last, and only on EVM chains.
KnownSources(todo, chain) ==
    IsList(todo) /\ \A i \in DOMAIN todo : todo[i] \in SourcesFor(chain)

Plan(todo, chain) ==
    /\ IsList(todo)
    /\ \A i \in DOMAIN todo : \/ todo[i] \in SourcesFor(chain)
                              \/ todo[i] = "nfts" /\ IsEvm(chain) /\ i = Len(todo)

LEMMA KnownPlan ==
    ASSUME NEW todo, NEW chain, KnownSources(todo, chain)
    PROVE  Plan(todo, chain)
  BY DEF KnownSources, Plan

LEMMA ConcatKnown ==
    ASSUME NEW s, NEW t, NEW chain, KnownSources(s, chain), KnownSources(t, chain)
    PROVE  KnownSources(s \o t, chain)
  <1>1. IsList(s) /\ IsList(t)
    BY DEF KnownSources
  <1> PICK c : Joins(c, s, t)
    BY DEF Joins
  <1>2. /\ IsList(c)
        /\ \A i \in DOMAIN s : c[i] = s[i]
        /\ \A i \in DOMAIN t : c[Len(s) + i] = t[i]
        /\ \A i \in DOMAIN c : i \in DOMAIN s \/ \E k \in DOMAIN t : i = Len(s) + k
    BY <1>1, ConcatIs
  <1>3. \A i \in DOMAIN c : c[i] \in SourcesFor(chain)
    BY <1>2 DEF KnownSources
  <1>4. KnownSources(c, chain)
    BY <1>2, <1>3 DEF KnownSources
  <1>5. QED
    BY <1>4 DEF Joins

LEMMA FewKnown ==
    ASSUME NEW chain, NEW source
    PROVE  /\ KnownSources(<<>>, chain)
           /\ source \in SourcesFor(chain) => KnownSources(<<source>>, chain)
  <1>1. DOMAIN <<>> = {} /\ IsList(<<>>)
    BY EmptyIsList
  <1>2. <<source>> \in Seq({source}) /\ DOMAIN <<source>> = {1} /\ <<source>>[1] = source
    OBVIOUS
  <1>3. IsList(<<source>>)
    BY ONLY <1>2, SeqIsList
  <1>4. QED
    BY <1>1, <1>2, <1>3 DEF KnownSources

LEMMA AdaptersKnown ==
    ASSUME NEW chain
    PROVE  KnownSources(AdaptersFor(chain), chain)
  <1> PICK all : all = Adapters
    OBVIOUS
  <1> PICK keep : keep = {i \in DOMAIN all : chain \in SupportedChains(all[i])}
    OBVIOUS
  <1>1. DOMAIN Adapters = 1..5 /\ Adapters = [i \in 1..5 |-> Adapters[i]]
    BY DEF Adapters
  <1>2. IsList(all)
    <2>1. 5 \in Nat /\ DOMAIN all = 1..5 /\ all = [i \in 1..5 |-> all[i]]
      BY <1>1
    <2>2. QED
      BY <2>1, FunctionIsList
  <1>3. \A i \in DOMAIN all :
          all[i] \in {"aave-v3", "uniswap-v3", "kamino", "raydium", "pendle"}
    BY DEF Adapters
  <1>4. AdaptersFor(chain) = Chosen(all, keep)
    BY DEF AdaptersFor
  <1>c. PICK c : c = Chosen(all, keep)
    OBVIOUS
  <1>5. IsList(c) /\ \A k \in DOMAIN c : \E i \in DOMAIN all : i \in keep /\ c[k] = all[i]
    BY ONLY <1>2, <1>c, ChosenIs
  <1>6. \A k \in DOMAIN c :
          /\ c[k] \in {"aave-v3", "uniswap-v3", "kamino", "raydium", "pendle"}
          /\ chain \in SupportedChains(c[k])
    BY <1>3, <1>5
  <1>7. \A k \in DOMAIN c : c[k] \in SourcesFor(chain)
    BY <1>6 DEF SupportedChains, SourcesFor, IsEvm
  <1>8. QED
    BY <1>4, <1>5, <1>7, <1>c DEF KnownSources

LEMMA WorkerKnown ==
    ASSUME NEW chain
    PROVE  KnownSources(WorkerSources(chain), chain)
  <1> PICK first : first = IF IsEvm(chain) THEN <<"native">> ELSE <<>>
    OBVIOUS
  <1>1. KnownSources(first, chain)
    <2>1. IsEvm(chain) => KnownSources(<<"native">>, chain)
      BY FewKnown DEF SourcesFor
    <2>2. KnownSources(<<>>, chain)
      BY FewKnown
    <2>3. QED
      BY <2>1, <2>2
  <1>2. KnownSources(first \o AdaptersFor(chain), chain)
    BY <1>1, AdaptersKnown, ConcatKnown
  <1>3. QED
    BY <1>2 DEF WorkerSources

LEMMA SourcesPlan ==
    ASSUME NEW pipeline \in Pipelines, NEW chain
    PROVE  Plan(Sources(pipeline, chain), chain)
  <1>1. CASE pipeline = "worker"
    BY <1>1, WorkerKnown, KnownPlan DEF Sources
  <1>2. CASE pipeline # "worker" /\ IsEvm(chain)
    <2> DEFINE s == <<"native", "moralis", "nfts">>
    <2>1. /\ 3 \in Nat /\ DOMAIN s = 1..3 /\ s = [i \in 1..3 |-> s[i]]
          /\ s[1] = "native" /\ s[2] = "moralis" /\ s[3] = "nfts"
      OBVIOUS
    <2>2. \A i \in 1..3 : i = 1 \/ i = 2 \/ i = 3
      OBVIOUS
    <2>3. Sources(pipeline, chain) = s
      BY <1>2 DEF Sources, ApiSources
    <2> HIDE DEF s
    <2>4. IsList(s) /\ Len(s) = 3
      BY <2>1, FunctionIsList
    <2>5. "native" \in SourcesFor(chain) /\ "moralis" \in SourcesFor(chain)
      BY <1>2 DEF SourcesFor
    <2>6. Plan(s, chain)
      BY <1>2, <2>1, <2>2, <2>4, <2>5 DEF Plan
    <2>7. QED
      BY <2>3, <2>6
  <1>3. CASE pipeline # "worker" /\ ~IsEvm(chain)
    <2> DEFINE s == <<"moralis", "kamino", "raydium">>
    <2>1. /\ 3 \in Nat /\ DOMAIN s = 1..3 /\ s = [i \in 1..3 |-> s[i]]
          /\ s[1] = "moralis" /\ s[2] = "kamino" /\ s[3] = "raydium"
      OBVIOUS
    <2>2. \A i \in 1..3 : i = 1 \/ i = 2 \/ i = 3
      OBVIOUS
    <2>3. Sources(pipeline, chain) = s
      BY <1>3 DEF Sources, ApiSources
    <2> HIDE DEF s
    <2>4. IsList(s)
      BY <2>1, FunctionIsList
    <2>5. {"moralis", "kamino", "raydium"} \subseteq SourcesFor(chain)
      BY <1>3 DEF SourcesFor
    <2>6. KnownSources(s, chain)
      BY <2>1, <2>2, <2>4, <2>5 DEF KnownSources
    <2>7. QED
      BY <2>3, <2>6, KnownPlan
  <1>4. QED
    BY <1>1, <1>2, <1>3

LEMMA ScreeningKnown ==
    ASSUME NEW chain, IsEvm(chain), NEW nfts
    PROVE  KnownSources(AfterScreening(chain, nfts), chain)
  <1> DEFINE contracts == Screened(nfts)
             when(condition, source) == IF condition THEN <<source>> ELSE <<>>
  <1>1. {"aave-v3", "uniswap-v3", "pendle", "pendle-ve"} \subseteq SourcesFor(chain)
    BY DEF SourcesFor
  <1>2. \A condition : \A source \in SourcesFor(chain) : KnownSources(when(condition, source), chain)
    BY FewKnown
  <1> PICK a, b, c, e :
        /\ a = <<"aave-v3">> /\ b = when(HasUniswapNft(contracts, chain), "uniswap-v3")
        /\ c = when(HasPendleNft(contracts, chain), "pendle")
        /\ e = when(chain = "ethereum", "pendle-ve")
    OBVIOUS
  <1>3. AfterScreening(chain, nfts) = a \o b \o c \o e
    BY DEF AfterScreening
  <1>4. KnownSources(b, chain) /\ KnownSources(c, chain) /\ KnownSources(e, chain)
    BY <1>1, <1>2
  <1>5. KnownSources(a, chain)
    BY <1>1, FewKnown
  <1>6. KnownSources(a \o b, chain)
    BY <1>4, <1>5, ConcatKnown
  <1>7. KnownSources((a \o b) \o c, chain)
    BY <1>4, <1>6, ConcatKnown
  <1>8. KnownSources(((a \o b) \o c) \o e, chain)
    BY <1>4, <1>7, ConcatKnown
  <1>9. QED
    BY <1>3, <1>8

LEMMA RestOfPlan ==
    ASSUME NEW todo, NEW chain, Plan(todo, chain), todo # <<>>
    PROVE  /\ Plan(Tail(todo), chain)
           /\ Head(todo) = "nfts" => IsEvm(chain) /\ Tail(todo) = <<>>
           /\ Head(todo) # "nfts" => Head(todo) \in SourcesFor(chain)
  <1>1. IsList(todo)
    BY DEF Plan
  <1> PICK rest : rest = Tail(todo)
    OBVIOUS
  <1>2. /\ IsList(rest) /\ Len(rest) = Len(todo) - 1 /\ 1 \in DOMAIN todo /\ Head(todo) = todo[1]
        /\ \A i \in DOMAIN rest : i + 1 \in DOMAIN todo /\ rest[i] = todo[i + 1]
    BY <1>1, TailIs
  <1>3. /\ Len(todo) \in Nat /\ DOMAIN todo = 1..Len(todo)
        /\ Len(rest) \in Nat /\ DOMAIN rest = 1..Len(rest) /\ rest = [i \in 1..Len(rest) |-> rest[i]]
    BY <1>1, <1>2, ListIs
  <1>4. "nfts" \notin SourcesFor(chain)
    BY DEF SourcesFor
  <1>5. Plan(rest, chain)
    <2>1. ASSUME NEW i \in DOMAIN rest
          PROVE  \/ rest[i] \in SourcesFor(chain)
                 \/ rest[i] = "nfts" /\ IsEvm(chain) /\ i = Len(rest)
      <3>1. i + 1 \in DOMAIN todo /\ rest[i] = todo[i + 1] /\ i \in Nat
        BY <1>2, <1>3
      <3>2. \/ todo[i + 1] \in SourcesFor(chain)
            \/ todo[i + 1] = "nfts" /\ IsEvm(chain) /\ i + 1 = Len(todo)
        BY <3>1 DEF Plan
      <3>3. i + 1 = Len(todo) => i = Len(rest)
        BY <1>2, <1>3, <3>1
      <3>4. QED
        BY <3>1, <3>2, <3>3
    <2>2. QED
      BY <1>2, <2>1 DEF Plan
  <1>6. ASSUME Head(todo) = "nfts" PROVE IsEvm(chain) /\ rest = <<>>
    <2>1. IsEvm(chain) /\ 1 = Len(todo)
      BY <1>2, <1>4, <1>6 DEF Plan
    <2>2. Len(rest) = 0
      <3>1. Len(rest) = Len(todo) - 1 /\ Len(todo) = 1 /\ Len(rest) \in Nat /\ Len(todo) \in Nat
        BY <1>2, <1>3, <2>1
      <3>2. QED
        BY ONLY <3>1
    <2>3. rest \in Seq(Range(rest))
      BY <1>2 DEF IsList
    <2>4. rest = <<>>
      BY <2>2, <2>3
    <2>5. QED
      BY <2>1, <2>4
  <1>7. Head(todo) # "nfts" => Head(todo) \in SourcesFor(chain)
    BY <1>2 DEF Plan
  <1>8. QED
    BY <1>5, <1>6, <1>7

----------------------------------------------------------------------------
(* The types of the tasks.                                                 *)

HasOwner(r, unit) ==
    DOMAIN r = ResultFields /\ r.account = unit.account /\ r.chain = unit.chain

Owned(results, unit) ==
    IsList(results) /\ \A i \in DOMAIN results : HasOwner(results[i], unit)

TaskFields == {"step", "pipeline", "attempt", "todo", "results", "ops", "lost", "peers",
               "needing", "added"}

\* Until its results are final, none has been added to the job.
AddedTyped(task) ==
    \/ task.added = 0
    \/ task.step \in {"cached", "store"} /\ task.added \in 1..Len(task.results)

\* A task in any of its steps: what has been fetched has prices, and what needs
\* a price has none.
TaskTyped(task, unit) ==
    /\ DOMAIN task = TaskFields
    /\ task.step \in Steps
    /\ task.attempt \in 1..Attempts
    /\ task.pipeline \in Pipelines \cup {None}
    /\ task.step # "idle" => task.pipeline \in Pipelines
    /\ Owned(task.results, unit)
    /\ task.step \in {"connect", "ask"} => AllFetched(task.results, unit)
    /\ task.step = "ask" => Plan(task.todo, unit.chain)
    /\ task.step \notin {"price", "quote"} => task.needing = {}
    /\ task.step = "quote" => task.needing # {}
    /\ task.needing \subseteq DOMAIN task.results
    /\ \A i \in task.needing : task.results[i].price \in Int /\ task.results[i].price <= 0
    /\ AddedTyped(task)

OfJob(r, j) ==
    /\ DOMAIN r = ResultFields
    /\ \E d \in Deliveries : of[d].job = j /\ r.account = of[d].account /\ r.chain = of[d].chain

\* A hash of results: each is in the field that it makes.
JobHash(entries, j) ==
    /\ IsFiniteSet(DOMAIN entries)
    /\ \A f \in DOMAIN entries : f = DedupField(entries[f]) /\ OfJob(entries[f], j)

Typed ==
    /\ of \in Scenarios
    /\ DOMAIN tasks = Deliveries /\ DOMAIN cached = Units /\ DOMAIN hashes = Jobs
    /\ \A d \in Deliveries : TaskTyped(tasks[d], UnitOf(d))
    /\ \A u \in Units : cached[u] # None => Owned(cached[u], u)
    /\ \A j \in Jobs : JobHash(hashes[j], j)
    /\ now \in 0..MaxTicks
    /\ faults \in 0..MaxFaults

LEMMA FetchedOwned ==
    ASSUME NEW results, NEW unit, AllFetched(results, unit)
    PROVE  Owned(results, unit)
  BY DEF AllFetched, Owned, IsFetched, HasOwner

LEMMA PlacesFinite ==
    ASSUME NEW s, IsList(s), NEW T, T \subseteq DOMAIN s
    PROVE  IsFiniteSet(T) /\ T \subseteq Int /\ T \subseteq Nat
  <1>1. Len(s) \in Nat /\ DOMAIN s = 1..Len(s)
    BY ListIs
  <1>2. IsFiniteSet(1..Len(s))
    BY <1>1, FS_Interval
  <1>3. IsFiniteSet(T)
    BY <1>1, <1>2, FS_Subset
  <1>4. QED
    BY <1>1, <1>3

LEMMA NeedingFirst ==
    ASSUME NEW task, NEW unit, TaskTyped(task, unit), task.needing # {}
    PROVE  Min(task.needing) \in task.needing
  <1> PICK needing : needing = task.needing
    OBVIOUS
  <1>1. IsList(task.results) /\ needing \subseteq DOMAIN task.results /\ needing # {}
    BY DEF TaskTyped, Owned
  <1>2. IsFiniteSet(needing) /\ needing \subseteq Int
    BY <1>1, PlacesFinite
  <1>3. Min(needing) \in needing
    BY <1>1, <1>2, MinOfFinite
  <1>4. QED
    BY <1>3

\* A price that is filled in is that of one result.
RePriced(r, price) == [r EXCEPT !.price = price, !.value = r.balance * price]

LEMMA PricedIs ==
    ASSUME NEW results, IsList(results), NEW i \in DOMAIN results,
           DOMAIN results[i] = ResultFields, NEW price
    PROVE  /\ IsList(Priced(results, i, price))
           /\ DOMAIN Priced(results, i, price) = DOMAIN results
           /\ \A k \in DOMAIN results : k # i => Priced(results, i, price)[k] = results[k]
           /\ Priced(results, i, price)[i] = RePriced(results[i], price)
  <1> DEFINE p == Priced(results, i, price)
  <1>1. DOMAIN p = DOMAIN results /\ p = [k \in DOMAIN results |-> p[k]]
    BY DEF Priced
  <1>2. \A k \in DOMAIN results : k # i => p[k] = results[k]
    BY DEF Priced
  <1>3. p[i] = RePriced(results[i], price)
    BY DEF Priced, RePriced
  <1> HIDE DEF p
  <1>4. IsList(p)
    BY <1>1, MappedList
  <1>5. QED
    BY <1>1, <1>2, <1>3, <1>4 DEF p

LEMMA RePricedIs ==
    ASSUME NEW r, DOMAIN r = ResultFields, NEW price
    PROVE  /\ DOMAIN RePriced(r, price) = ResultFields
           /\ RePriced(r, price).price = price
           /\ \A f \in ResultFields \ {"price", "value"} : RePriced(r, price)[f] = r[f]
  BY DEF RePriced, ResultFields

LEMMA PriceNextIs ==
    ASSUME NEW task, NEW unit, TaskTyped(task, unit), task.needing # {}, NEW price, NEW next,
           next = PriceNext(task, price), NEW m, m = Min(task.needing)
    PROVE  /\ m \in task.needing /\ m \in DOMAIN task.results
           /\ DOMAIN next = TaskFields /\ next.step = "price" /\ next.needing = task.needing \ {m}
           /\ \A f \in TaskFields \ {"step", "needing", "results"} : next[f] = task[f]
           /\ IsList(next.results) /\ DOMAIN next.results = DOMAIN task.results
           /\ \A k \in DOMAIN task.results : k # m => next.results[k] = task.results[k]
           /\ next.results[m] = RePriced(task.results[m], price)
           /\ DOMAIN task.results[m] = ResultFields
  <1>1. m \in task.needing /\ m \in DOMAIN task.results
    BY NeedingFirst DEF TaskTyped
  <1>2. IsList(task.results) /\ DOMAIN task.results[m] = ResultFields
    BY <1>1 DEF TaskTyped, Owned, HasOwner
  <1>3. DOMAIN task = TaskFields
    BY DEF TaskTyped
  <1> PICK priced : priced = Priced(task.results, m, price)
    OBVIOUS
  <1>4. next = [task EXCEPT !.step = "price", !.needing = @ \ {m}, !.results = priced]
    BY DEF PriceNext
  <1>5. /\ DOMAIN next = TaskFields /\ next.step = "price" /\ next.needing = task.needing \ {m}
        /\ \A f \in TaskFields \ {"step", "needing", "results"} : next[f] = task[f]
        /\ next.results = priced
    BY <1>3, <1>4 DEF TaskFields
  <1> PICK rs : rs = task.results
    OBVIOUS
  <1>6. /\ IsList(priced) /\ DOMAIN priced = DOMAIN rs
        /\ \A k \in DOMAIN rs : k # m => priced[k] = rs[k]
        /\ priced[m] = RePriced(rs[m], price)
    <2>1. IsList(rs) /\ m \in DOMAIN rs /\ DOMAIN rs[m] = ResultFields
      BY <1>1, <1>2
    <2>2. priced = Priced(rs, m, price)
      OBVIOUS
    <2>3. QED
      BY <2>1, <2>2, PricedIs
  <1>7. QED
    BY <1>1, <1>2, <1>5, <1>6

LEMMA PriceNextTyped ==
    ASSUME NEW task, NEW unit, TaskTyped(task, unit), task.needing # {}, NEW price, NEW next,
           next = PriceNext(task, price)
    PROVE  TaskTyped(next, unit)
  <1> PICK m : m = Min(task.needing)
    OBVIOUS
  <1>1. /\ m \in task.needing /\ m \in DOMAIN task.results
        /\ DOMAIN next = TaskFields /\ next.step = "price" /\ next.needing = task.needing \ {m}
        /\ \A f \in TaskFields \ {"step", "needing", "results"} : next[f] = task[f]
        /\ IsList(next.results) /\ DOMAIN next.results = DOMAIN task.results
        /\ \A k \in DOMAIN task.results : k # m => next.results[k] = task.results[k]
        /\ next.results[m] = RePriced(task.results[m], price)
        /\ DOMAIN task.results[m] = ResultFields
    BY PriceNextIs
  <1>2. next.attempt = task.attempt /\ next.pipeline = task.pipeline /\ next.added = task.added
    BY <1>1 DEF TaskFields
  <1>3. Owned(next.results, unit)
    <2>1. HasOwner(RePriced(task.results[m], price), unit)
      <3>1. HasOwner(task.results[m], unit)
        BY <1>1 DEF TaskTyped, Owned
      <3> PICK r : r = task.results[m]
        OBVIOUS
      <3>2. HasOwner(r, unit)
        BY <3>1
      <3>3. HasOwner(RePriced(r, price), unit)
        BY <3>2, RePricedIs DEF HasOwner, ResultFields
      <3>4. QED
        BY <3>3
    <2>2. \A k \in DOMAIN task.results : HasOwner(task.results[k], unit)
      BY DEF TaskTyped, Owned
    <2>3. QED
      BY <1>1, <2>1, <2>2 DEF Owned
  <1>4. task.step \in {"price", "quote"} /\ task.pipeline \in Pipelines
    BY DEF TaskTyped
  <1>5. \A i \in next.needing : next.results[i].price \in Int /\ next.results[i].price <= 0
    BY <1>1 DEF TaskTyped
  <1>6. next.needing \subseteq DOMAIN next.results
    BY <1>1 DEF TaskTyped
  <1>7. next.attempt \in 1..Attempts
    BY <1>2 DEF TaskTyped
  <1>8. AddedTyped(next)
    <2>1. task.added = 0
      BY <1>4 DEF TaskTyped, AddedTyped
    <2>2. QED
      BY <1>2, <2>1 DEF AddedTyped
  <1>9. QED
    BY <1>1, <1>2, <1>3, <1>4, <1>5, <1>6, <1>7, <1>8 DEF TaskTyped, Steps

LEMMA HydratingTyped ==
    ASSUME NEW task, NEW unit, TaskTyped(task, unit), task.step \in {"connect", "ask"},
           NEW results, AllFetched(results, unit), NEW next, next = Hydrating(task, results)
    PROVE  TaskTyped(next, unit)
  <1>1. DOMAIN task = TaskFields /\ task.attempt \in 1..Attempts /\ task.pipeline \in Pipelines
    BY DEF TaskTyped
  <1> PICK peers : peers = AlreadyPriced(results)
    OBVIOUS
  <1> PICK needing : needing = Needing(results)
    OBVIOUS
  <1>2. next = [task EXCEPT !.step = "price", !.results = results, !.peers = peers,
                            !.needing = needing]
    BY DEF Hydrating
  <1>3. /\ DOMAIN next = TaskFields /\ next.step = "price" /\ next.results = results
        /\ next.needing = needing /\ next.attempt = task.attempt /\ next.pipeline = task.pipeline
        /\ next.added = task.added
    BY <1>1, <1>2 DEF TaskFields
  <1>4. /\ needing \subseteq DOMAIN results
        /\ \A i \in needing : results[i].price \in Int /\ results[i].price <= 0
    BY DEF Needing, AllFetched, IsFetched
  <1>5. Owned(results, unit)
    BY FetchedOwned
  <1>6. AddedTyped(next)
    <2>1. task.added = 0
      BY DEF TaskTyped, AddedTyped
    <2>2. QED
      BY <1>3, <2>1 DEF AddedTyped
  <1>7. QED
    BY <1>1, <1>3, <1>4, <1>5, <1>6 DEF TaskTyped, Steps

\* A task that changes nothing but its step, attempt, operations and the like.
LEMMA IdleTyped ==
    ASSUME NEW unit
    PROVE  TaskTyped(Idle, unit)
  <1>1. IsList(<<>>) /\ DOMAIN <<>> = {}
    BY EmptyIsList
  <1>2. /\ DOMAIN Idle = TaskFields /\ Idle.step = "idle" /\ Idle.attempt = 1
        /\ Idle.pipeline = None /\ Idle.results = <<>> /\ Idle.needing = {}
        /\ Idle.added = 0
    BY DEF Idle, TaskFields
  <1>3. 1 \in 1..Attempts
    BY CollectAssumption
  <1>4. Owned(<<>>, unit)
    BY <1>1 DEF Owned
  <1>5. QED
    BY <1>2, <1>3, <1>4 DEF TaskTyped, Steps, AddedTyped

LEMMA KeptOwned ==
    ASSUME NEW pipeline, NEW results, NEW unit, Owned(results, unit)
    PROVE  Owned(Kept(pipeline, results), unit)
  <1> PICK keep : keep = {i \in DOMAIN results : ~IsSpam(pipeline, results[i])}
    OBVIOUS
  <1>c. PICK c : c = Chosen(results, keep)
    OBVIOUS
  <1>1. IsList(results)
    BY DEF Owned
  <1>2. IsList(c) /\ \A k \in DOMAIN c : \E i \in DOMAIN results : i \in keep /\ c[k] = results[i]
    BY ONLY <1>1, <1>c, ChosenIs
  <1>3. \A k \in DOMAIN c : HasOwner(c[k], unit)
    BY <1>2 DEF Owned
  <1>4. QED
    BY <1>2, <1>3, <1>c DEF Owned, Kept

----------------------------------------------------------------------------
(* Types, for every step.                                                  *)

LEMMA UnitIs ==
    ASSUME Typed, NEW d \in Deliveries
    PROVE  UnitOf(d) \in Units /\ of[d].job \in Jobs
  BY DEF Typed, Units, Jobs, UnitOf

LEMMA TypedInit == Init => Typed
  <1> SUFFICES ASSUME Init PROVE Typed
    OBVIOUS
  <1>1. DOMAIN <<>> = {} /\ IsFiniteSet({})
    BY EmptyIsList, FS_EmptySet
  <1>2. \A d \in Deliveries : TaskTyped(tasks[d], UnitOf(d))
    BY IdleTyped DEF Init
  <1>3. \A j \in Jobs : JobHash(hashes[j], j)
    BY <1>1 DEF Init, JobHash
  <1>4. now \in 0..MaxTicks /\ faults \in 0..MaxFaults
    BY CollectAssumption DEF Init
  <1>5. /\ DOMAIN tasks = Deliveries /\ DOMAIN cached = Units /\ DOMAIN hashes = Jobs
        /\ of \in Scenarios /\ \A u \in Units : cached[u] = None
    BY DEF Init
  <1>6. QED
    BY <1>2, <1>3, <1>4, <1>5 DEF Typed

TasksTyped == DOMAIN tasks = Deliveries /\ \A d \in Deliveries : TaskTyped(tasks[d], UnitOf(d))

LEMMA TaskStep ==
    ASSUME Typed, NEW d \in Deliveries, NEW task, Become(d, task), of' = of,
           TaskTyped(task, UnitOf(d))
    PROVE  TasksTyped'
  <1>1. DOMAIN tasks' = Deliveries /\ \A e \in Deliveries : tasks'[e] = IF e = d THEN task ELSE tasks[e]
    BY DEF Typed, Become
  <1>2. \A e \in Deliveries : UnitOf(e)' = UnitOf(e)
    BY DEF UnitOf
  <1>3. \A e \in Deliveries : TaskTyped(tasks[e], UnitOf(e))
    BY DEF Typed
  <1>4. \A e \in Deliveries : TaskTyped(tasks'[e], UnitOf(e))
    BY <1>1, <1>3
  <1>5. \A e \in Deliveries : TaskTyped(tasks[e], UnitOf(e))'
    BY <1>2, <1>4
  <1>6. QED
    BY <1>1, <1>5 DEF TasksTyped

HashesTyped == DOMAIN hashes = Jobs /\ \A j \in Jobs : JobHash(hashes[j], j)

LEMMA HashesKept ==
    ASSUME Typed, of' = of, hashes' = hashes
    PROVE  HashesTyped'
  <1>1. \A j \in Jobs : JobHash(hashes'[j], j)
    BY DEF Typed
  <1>2. \A j \in Jobs : JobHash(hashes[j], j)'
    BY <1>1 DEF JobHash, OfJob
  <1>3. QED
    BY <1>2 DEF Typed, HashesTyped

\* A result is added to a job.
Adds(d, r) == hashes' = [hashes EXCEPT ![of[d].job] = WithResult(@, r)]

LEMMA AddsIs ==
    ASSUME Typed, NEW d \in Deliveries, NEW r, Adds(d, r), NEW j, j = of[d].job
    PROVE  /\ j \in Jobs /\ DOMAIN hashes' = Jobs
           /\ hashes'[j] = WithResult(hashes[j], r)
           /\ \A k \in Jobs : k # j => hashes'[k] = hashes[k]
  <1>1. j \in Jobs /\ DOMAIN hashes = Jobs
    BY UnitIs DEF Typed
  <1>2. QED
    BY <1>1 DEF Adds

LEMMA HashStep ==
    ASSUME Typed, of' = of, NEW d \in Deliveries, NEW r, HasOwner(r, UnitOf(d)), Adds(d, r)
    PROVE  HashesTyped'
  <1> PICK j : j = of[d].job
    OBVIOUS
  <1> PICK old : old = hashes[j]
    OBVIOUS
  <1>n. PICK new : new = WithResult(old, r)
    OBVIOUS
  <1>f. PICK f : f = DedupField(r)
    OBVIOUS
  <1>1. /\ j \in Jobs /\ DOMAIN hashes' = Jobs /\ hashes'[j] = new
        /\ \A k \in Jobs : k # j => hashes'[k] = hashes[k]
    BY <1>n, AddsIs
  <1>2. OfJob(r, j)
    BY DEF HasOwner, OfJob, UnitOf
  <1>3. JobHash(old, j)
    BY <1>1 DEF Typed
  <1>4. /\ DOMAIN new = DOMAIN old \cup {f} /\ new[f] = r
        /\ \A g \in DOMAIN old : g # f => new[g] = old[g]
    BY ONLY <1>n, <1>f DEF WithResult
  <1>5. IsFiniteSet(DOMAIN new)
    <2>1. IsFiniteSet(DOMAIN old)
      BY <1>3 DEF JobHash
    <2> PICK D : D = DOMAIN old
      OBVIOUS
    <2>2. IsFiniteSet(D \cup {f})
      BY <2>1, FS_AddElement
    <2>3. QED
      BY <1>4, <2>2
  <1>6. \A g \in DOMAIN new : g = DedupField(new[g]) /\ OfJob(new[g], j)
    BY <1>f, <1>2, <1>3, <1>4 DEF JobHash
  <1>7. JobHash(new, j)
    BY <1>5, <1>6 DEF JobHash
  <1>8. \A k \in Jobs : JobHash(hashes'[k], k)
    BY <1>1, <1>7 DEF Typed
  <1>9. \A k \in Jobs : JobHash(hashes[k], k)'
    BY <1>8 DEF JobHash, OfJob
  <1>10. QED
    BY <1>1, <1>9 DEF HashesTyped

CacheTyped == DOMAIN cached = Units /\ \A u \in Units : cached[u] # None => Owned(cached[u], u)

LEMMA CacheKept ==
    ASSUME Typed, cached' = cached
    PROVE  CacheTyped'
  BY DEF Typed, CacheTyped

\* The steps that change a task only, and perhaps count faults.
LEMMA TaskOnly ==
    ASSUME Typed, NEW d \in Deliveries, NEW task, Become(d, task), TaskTyped(task, UnitOf(d)),
           UNCHANGED <<of, cached, hashes, now>>, faults' \in 0..MaxFaults
    PROVE  Typed'
  <1>1. TasksTyped'
    BY TaskStep
  <1>2. HashesTyped' /\ CacheTyped'
    BY HashesKept, CacheKept
  <1>3. of' \in Scenarios /\ now' \in 0..MaxTicks
    BY DEF Typed
  <1>4. QED
    BY <1>1, <1>2, <1>3 DEF Typed, TasksTyped, HashesTyped, CacheTyped

LEMMA FaultIs ==
    ASSUME Typed, Fault
    PROVE  faults' \in 0..MaxFaults
  BY CollectAssumption DEF Typed, Fault

LEMMA FailureIs ==
    ASSUME Typed, NEW calls, NEW failing \in Failures(calls)
    PROVE  /\ failing \subseteq calls
           /\ faults + Cardinality(failing) \in 0..MaxFaults
  <1>1. MaxFaults \in Nat /\ faults \in 0..MaxFaults
    BY CollectAssumption DEF Typed
  <1>2. PICK k \in 0..(MaxFaults - faults) : failing \in kSubset(k, calls)
    BY DEF Failures
  <1>3. failing \subseteq calls /\ Cardinality(failing) = k
    BY <1>2 DEF kSubset
  <1>4. QED
    BY <1>1, <1>3

LEMMA TypedTakeCached ==
    ASSUME Typed, NEW d \in Deliveries, NEW p \in Pipelines, TakeCached(d, p)
    PROVE  Typed'
  <1> PICK u : u = UnitOf(d)
    OBVIOUS
  <1> PICK results : results = cached[u]
    OBVIOUS
  <1> PICK ops : ops = {<<results[i].protocol, TRUE>> : i \in DOMAIN results}
    OBVIOUS
  <1> PICK task : task = [Idle EXCEPT !.step = "cached", !.pipeline = p, !.results = results,
                                      !.ops = ops]
    OBVIOUS
  <1>1. /\ Become(d, task) /\ results # None
        /\ UNCHANGED <<of, prices, cached, hashes, now, faults>>
    BY DEF TakeCached
  <1>2. Owned(results, u)
    BY <1>1, UnitIs DEF Typed
  <1>3. /\ DOMAIN task = TaskFields /\ task.step = "cached" /\ task.attempt = 1
        /\ task.pipeline = p /\ task.results = results /\ task.needing = {} /\ task.added = 0
    BY DEF Idle, TaskFields
  <1>4. TaskTyped(task, u)
    BY <1>2, <1>3, CollectAssumption DEF TaskTyped, Steps, AddedTyped
  <1>5. faults' \in 0..MaxFaults
    BY <1>1 DEF Typed
  <1>6. QED
    BY <1>1, <1>4, <1>5, TaskOnly

LEMMA TypedTake ==
    ASSUME Typed, NEW d \in Deliveries, NEW p \in Pipelines, Take(d, p)
    PROVE  Typed'
  <1> PICK u : u = UnitOf(d)
    OBVIOUS
  <1> PICK task : task = [Idle EXCEPT !.step = "connect", !.pipeline = p]
    OBVIOUS
  <1>1. Become(d, task) /\ UNCHANGED <<of, prices, cached, hashes, now, faults>>
    BY DEF Take
  <1>2. /\ DOMAIN task = TaskFields /\ task.step = "connect" /\ task.attempt = 1
        /\ task.pipeline = p /\ task.results = <<>> /\ task.needing = {}
        /\ task.added = 0
    BY DEF Idle, TaskFields
  <1>3. AllFetched(<<>>, u)
    BY NoneFetched
  <1>4. Owned(<<>>, u)
    BY <1>3, FetchedOwned
  <1>5. TaskTyped(task, u)
    BY <1>2, <1>3, <1>4, CollectAssumption DEF TaskTyped, Steps, AddedTyped
  <1>6. faults' \in 0..MaxFaults
    BY <1>1 DEF Typed
  <1>7. QED
    BY <1>1, <1>5, <1>6, TaskOnly

LEMMA TypedConnect ==
    ASSUME Typed, NEW d \in Deliveries, Connect(d)
    PROVE  Typed'
  <1> PICK u : u = UnitOf(d)
    OBVIOUS
  <1> PICK task : task = tasks[d]
    OBVIOUS
  <1>1. /\ task.step = "connect" /\ UNCHANGED <<of, prices, cached, hashes, now, faults>>
        /\ TaskTyped(task, u)
    BY DEF Connect, Typed
  <1>2. faults' \in 0..MaxFaults
    BY <1>1 DEF Typed
  <1>3. CASE u.chain \in NoNode
    <2> PICK made : made = WithoutNode(task.pipeline, u)
      OBVIOUS
    <2> PICK next : next = Hydrating(task, made)
      OBVIOUS
    <2>1. Become(d, next)
      BY <1>3 DEF Connect
    <2>2. AllFetched(made, u)
      BY MockFetched, NoneFetched DEF WithoutNode
    <2>3. TaskTyped(next, u)
      BY <1>1, <2>2, HydratingTyped
    <2>4. QED
      BY <1>1, <1>2, <2>1, <2>3, TaskOnly
  <1>4. CASE u.chain \notin NoNode
    <2> PICK todo : todo = Sources(task.pipeline, u.chain)
      OBVIOUS
    <2> PICK next : next = [task EXCEPT !.step = "ask", !.todo = todo]
      OBVIOUS
    <2>1. Become(d, next)
      BY <1>4 DEF Connect
    <2>2. DOMAIN task = TaskFields /\ task.pipeline \in Pipelines
      BY <1>1 DEF TaskTyped
    <2>3. Plan(todo, u.chain)
      BY <2>2, SourcesPlan
    <2>4. /\ DOMAIN next = TaskFields /\ next.step = "ask" /\ next.todo = todo
          /\ next.results = task.results /\ next.needing = task.needing
          /\ next.attempt = task.attempt /\ next.pipeline = task.pipeline
          /\ next.added = task.added
      BY <2>2 DEF TaskFields
    <2>5. TaskTyped(next, u)
      BY <1>1, <2>3, <2>4 DEF TaskTyped, Steps, AddedTyped
    <2>6. QED
      BY <1>1, <1>2, <2>1, <2>5, TaskOnly
  <1>5. QED
    BY <1>3, <1>4

LEMMA TypedConnectUnhealthy ==
    ASSUME Typed, NEW d \in Deliveries, ConnectUnhealthy(d)
    PROVE  Typed'
  <1> PICK u : u = UnitOf(d)
    OBVIOUS
  <1> PICK task : task = tasks[d]
    OBVIOUS
  <1> PICK next : next = Hydrating(task, <<>>)
    OBVIOUS
  <1>1. /\ task.step = "connect" /\ Fault /\ Become(d, next) /\ TaskTyped(task, u)
        /\ UNCHANGED <<of, prices, cached, hashes, now>>
    BY DEF ConnectUnhealthy, Typed
  <1>2. TaskTyped(next, u)
    BY <1>1, NoneFetched, HydratingTyped
  <1>3. QED
    BY <1>1, <1>2, FaultIs, TaskOnly

LEMMA TypedConnectFails ==
    ASSUME Typed, NEW d \in Deliveries, ConnectFails(d)
    PROVE  Typed'
  <1> PICK u : u = UnitOf(d)
    OBVIOUS
  <1> PICK task : task = tasks[d]
    OBVIOUS
  <1>1. /\ task.step = "connect" /\ TaskTyped(task, u)
        /\ UNCHANGED <<of, prices, cached, hashes, now, faults>>
        /\ Become(d, IF AnotherAttempt(task.attempt) THEN [task EXCEPT !.attempt = @ + 1]
                     ELSE [task EXCEPT !.step = "failed"])
    BY DEF ConnectFails, Typed
  <1>2. faults' \in 0..MaxFaults
    BY <1>1 DEF Typed
  <1>3. DOMAIN task = TaskFields /\ task.attempt \in 1..Attempts /\ Attempts \in Nat
    BY <1>1, CollectAssumption DEF TaskTyped
  <1>4. CASE AnotherAttempt(task.attempt)
    <2> PICK next : next = [task EXCEPT !.attempt = @ + 1]
      OBVIOUS
    <2>1. Become(d, next)
      BY <1>1, <1>4
    <2>2. task.attempt + 1 \in 1..Attempts
      BY <1>3, <1>4 DEF AnotherAttempt
    <2>3. /\ DOMAIN next = TaskFields /\ next.step = task.step /\ next.todo = task.todo
          /\ next.results = task.results /\ next.needing = task.needing
          /\ next.attempt = task.attempt + 1 /\ next.pipeline = task.pipeline
          /\ next.added = task.added
      BY <1>3 DEF TaskFields
    <2>4. TaskTyped(next, u)
      BY <1>1, <2>2, <2>3 DEF TaskTyped, AddedTyped
    <2>5. QED
      BY <1>1, <1>2, <2>1, <2>4, TaskOnly
  <1>5. CASE ~AnotherAttempt(task.attempt)
    <2> PICK next : next = [task EXCEPT !.step = "failed"]
      OBVIOUS
    <2>1. Become(d, next)
      BY <1>1, <1>5
    <2>2. /\ DOMAIN next = TaskFields /\ next.step = "failed" /\ next.todo = task.todo
          /\ next.results = task.results /\ next.needing = task.needing
          /\ next.attempt = task.attempt /\ next.pipeline = task.pipeline
          /\ next.added = task.added
      BY <1>3 DEF TaskFields
    <2>3. TaskTyped(next, u)
      BY <1>1, <2>2 DEF TaskTyped, Steps, AddedTyped
    <2>4. QED
      BY <1>1, <1>2, <2>1, <2>3, TaskOnly
  <1>6. QED
    BY <1>4, <1>5

\* The result of asking a source, with failing its calls that fail.
Asked(task, unit, source, failing) ==
    [task EXCEPT !.todo = Tail(@),
                 !.results = @ \o Fetch(task.pipeline, source, unit, Holdings[unit], failing).results,
                 !.ops = @ \cup {<<source,
                            Fetch(task.pipeline, source, unit, Holdings[unit], failing).ok>>},
                 !.lost = @ \cup failing]

LEMMA AskIs ==
    ASSUME NEW d \in Deliveries, Ask(d), NEW task, task = tasks[d], NEW unit, unit = UnitOf(d)
    PROVE  /\ task.step = "ask" /\ task.todo # <<>> /\ Head(task.todo) # "nfts"
           /\ UNCHANGED <<of, prices, cached, hashes, now>>
           /\ \E failing \in Failures(Calls(task.pipeline, Head(task.todo), unit.chain,
                                            Holdings[unit])) :
                 /\ Become(d, Asked(task, unit, Head(task.todo), failing))
                 /\ faults' = faults + Cardinality(failing)
  BY DEF Ask, Remaining, Asked

\* How a list of results grows.
Grown(task, next, results) ==
    /\ DOMAIN next = TaskFields /\ next.step = task.step /\ next.attempt = task.attempt
    /\ next.pipeline = task.pipeline /\ next.needing = task.needing /\ next.peers = task.peers
    /\ next.added = task.added
    /\ Joins(next.results, task.results, results)

LEMMA AskedIs ==
    ASSUME NEW task, DOMAIN task = TaskFields, NEW unit, NEW source, NEW failing, NEW next,
           next = Asked(task, unit, source, failing), NEW reply,
           reply = Fetch(task.pipeline, source, unit, Holdings[unit], failing)
    PROVE  /\ Grown(task, next, reply.results) /\ next.todo = Tail(task.todo)
           /\ next.ops = task.ops \cup {<<source, reply.ok>>}
           /\ next.lost = task.lost \cup failing
  <1>1. next = [task EXCEPT !.todo = Tail(@), !.results = @ \o reply.results,
                            !.ops = @ \cup {<<source, reply.ok>>}, !.lost = @ \cup failing]
    BY DEF Asked
  <1>2. /\ DOMAIN next = TaskFields /\ next.step = task.step /\ next.attempt = task.attempt
        /\ next.pipeline = task.pipeline /\ next.needing = task.needing /\ next.peers = task.peers
        /\ next.added = task.added
        /\ next.results = task.results \o reply.results /\ next.todo = Tail(task.todo)
        /\ next.ops = task.ops \cup {<<source, reply.ok>>}
        /\ next.lost = task.lost \cup failing
    BY <1>1 DEF TaskFields
  <1>3. QED
    BY <1>2 DEF Grown, Joins

LEMMA AskedTyped ==
    ASSUME NEW task, NEW unit \in Units, TaskTyped(task, unit), task.step = "ask",
           task.todo # <<>>, Head(task.todo) # "nfts", NEW failing, NEW next,
           next = Asked(task, unit, Head(task.todo), failing)
    PROVE  TaskTyped(next, unit)
  <1> PICK source : source = Head(task.todo)
    OBVIOUS
  <1> PICK reply : reply = Fetch(task.pipeline, source, unit, Holdings[unit], failing)
    OBVIOUS
  <1>1. DOMAIN task = TaskFields /\ Plan(task.todo, unit.chain) /\ AllFetched(task.results, unit)
    BY DEF TaskTyped
  <1>2. Grown(task, next, reply.results) /\ next.todo = Tail(task.todo)
    BY <1>1, AskedIs
  <1>3. source \in SourcesFor(unit.chain) /\ Plan(next.todo, unit.chain)
    BY <1>1, <1>2, RestOfPlan
  <1>4. AllFetched(reply.results, unit)
    BY <1>3, FetchReplies DEF IsReply
  <1>5. AllFetched(next.results, unit)
    <2>1. AllFetched(task.results \o reply.results, unit)
      BY <1>1, <1>4, ConcatFetched
    <2>2. QED
      BY <1>2, <2>1 DEF Grown, Joins
  <1>6. Owned(next.results, unit)
    BY <1>5, FetchedOwned
  <1>7. task.needing = {}
    BY DEF TaskTyped
  <1>8. QED
    BY <1>2, <1>3, <1>5, <1>6, <1>7 DEF TaskTyped, Grown, AddedTyped

LEMMA TypedAsk ==
    ASSUME Typed, NEW d \in Deliveries, Ask(d)
    PROVE  Typed'
  <1> PICK u : u = UnitOf(d)
    OBVIOUS
  <1> PICK task : task = tasks[d]
    OBVIOUS
  <1> PICK calls : calls = Calls(task.pipeline, Head(task.todo), u.chain, Holdings[u])
    OBVIOUS
  <1>1. /\ task.step = "ask" /\ task.todo # <<>> /\ Head(task.todo) # "nfts"
        /\ UNCHANGED <<of, prices, cached, hashes, now>>
        /\ \E failing \in Failures(calls) :
                 /\ Become(d, Asked(task, u, Head(task.todo), failing))
                 /\ faults' = faults + Cardinality(failing)
    BY AskIs
  <1>2. PICK failing \in Failures(calls) :
                 /\ Become(d, Asked(task, u, Head(task.todo), failing))
                 /\ faults' = faults + Cardinality(failing)
    BY <1>1
  <1> PICK next : next = Asked(task, u, Head(task.todo), failing)
    OBVIOUS
  <1>3. TaskTyped(task, u) /\ u \in Units
    BY UnitIs DEF Typed
  <1>4. TaskTyped(next, u)
    BY <1>1, <1>3, AskedTyped
  <1>5. faults' \in 0..MaxFaults
    BY <1>2, FailureIs
  <1>6. QED
    BY <1>1, <1>2, <1>4, <1>5, TaskOnly

ScreenedBy(task, unit, failing) ==
    [task EXCEPT !.todo = AfterScreening(unit.chain, Reply(Holdings[unit], "screen", failing)),
                 !.lost = @ \cup failing]

LEMMA ScreenIs ==
    ASSUME NEW d \in Deliveries, Screen(d), NEW task, task = tasks[d], NEW unit, unit = UnitOf(d)
    PROVE  /\ task.step = "ask" /\ task.todo # <<>> /\ Head(task.todo) = "nfts"
           /\ UNCHANGED <<of, prices, cached, hashes, now>>
           /\ \E failing \in Failures({<<"screen">>}) :
                 /\ Become(d, ScreenedBy(task, unit, failing))
                 /\ faults' = faults + Cardinality(failing)
  BY DEF Screen, ScreenedBy

LEMMA ScreenedByIs ==
    ASSUME NEW task, DOMAIN task = TaskFields, NEW unit, NEW failing, NEW next,
           next = ScreenedBy(task, unit, failing)
    PROVE  /\ DOMAIN next = TaskFields
           /\ next.todo = AfterScreening(unit.chain, Reply(Holdings[unit], "screen", failing))
           /\ next.lost = task.lost \cup failing
           /\ \A f \in TaskFields \ {"todo", "lost"} : next[f] = task[f]
  BY DEF ScreenedBy, TaskFields

LEMMA TypedScreen ==
    ASSUME Typed, NEW d \in Deliveries, Screen(d)
    PROVE  Typed'
  <1> PICK u : u = UnitOf(d)
    OBVIOUS
  <1> PICK task : task = tasks[d]
    OBVIOUS
  <1>1. /\ task.step = "ask" /\ task.todo # <<>> /\ Head(task.todo) = "nfts"
        /\ UNCHANGED <<of, prices, cached, hashes, now>>
        /\ \E failing \in Failures({<<"screen">>}) :
                 /\ Become(d, ScreenedBy(task, u, failing))
                 /\ faults' = faults + Cardinality(failing)
    BY ScreenIs
  <1>2. PICK failing \in Failures({<<"screen">>}) :
                 /\ Become(d, ScreenedBy(task, u, failing))
                 /\ faults' = faults + Cardinality(failing)
    BY <1>1
  <1> PICK next : next = ScreenedBy(task, u, failing)
    OBVIOUS
  <1>3. TaskTyped(task, u)
    BY DEF Typed
  <1>4. DOMAIN task = TaskFields /\ Plan(task.todo, u.chain)
    BY <1>1, <1>3 DEF TaskTyped
  <1>5. IsEvm(u.chain)
    BY <1>1, <1>4, RestOfPlan
  <1> PICK screen : screen = Reply(Holdings[u], "screen", failing)
    OBVIOUS
  <1>6. /\ DOMAIN next = TaskFields /\ next.todo = AfterScreening(u.chain, screen)
        /\ \A f \in TaskFields \ {"todo", "lost"} : next[f] = task[f]
    BY <1>4, ScreenedByIs
  <1>7. Plan(next.todo, u.chain)
    BY <1>5, <1>6, ScreeningKnown, KnownPlan
  <1>8. /\ next.step = task.step /\ next.attempt = task.attempt /\ next.pipeline = task.pipeline
        /\ next.results = task.results /\ next.needing = task.needing /\ next.added = task.added
    BY <1>6 DEF TaskFields
  <1>9. TaskTyped(next, u)
    BY <1>1, <1>3, <1>6, <1>7, <1>8 DEF TaskTyped, AddedTyped
  <1>10. faults' \in 0..MaxFaults
    BY <1>2, FailureIs
  <1>11. QED
    BY <1>1, <1>2, <1>9, <1>10, TaskOnly

LEMMA TypedHydrate ==
    ASSUME Typed, NEW d \in Deliveries, Hydrate(d)
    PROVE  Typed'
  <1> PICK u : u = UnitOf(d)
    OBVIOUS
  <1> PICK task : task = tasks[d]
    OBVIOUS
  <1> PICK next : next = Hydrating(task, task.results)
    OBVIOUS
  <1>1. /\ task.step = "ask" /\ Become(d, next) /\ TaskTyped(task, u)
        /\ UNCHANGED <<of, prices, cached, hashes, now, faults>>
    BY DEF Hydrate, Typed
  <1> PICK results : results = task.results
    OBVIOUS
  <1>2. AllFetched(results, u) /\ next = Hydrating(task, results)
    BY <1>1 DEF TaskTyped
  <1>3. TaskTyped(next, u)
    BY <1>1, <1>2, HydratingTyped
  <1>4. faults' \in 0..MaxFaults
    BY <1>1 DEF Typed
  <1>5. QED
    BY <1>1, <1>3, <1>4, TaskOnly

\* Each of the steps that may fill in a price.
LEMMA TypedPriced ==
    ASSUME Typed, NEW d \in Deliveries, NEW price, tasks[d].needing # {},
           Become(d, PriceNext(tasks[d], price)), UNCHANGED <<of, cached, hashes, now>>,
           faults' \in 0..MaxFaults
    PROVE  Typed'
  <1> PICK u : u = UnitOf(d)
    OBVIOUS
  <1> PICK task : task = tasks[d]
    OBVIOUS
  <1> PICK next : next = PriceNext(task, price)
    OBVIOUS
  <1>1. TaskTyped(task, u) /\ task.needing # {}
    BY DEF Typed
  <1>2. TaskTyped(next, u)
    BY <1>1, PriceNextTyped
  <1>3. QED
    BY <1>2, TaskOnly

LEMMA PriceIs ==
    ASSUME NEW d \in Deliveries, Price(d), NEW task, task = tasks[d], NEW key,
           key = KeyOf(task.results[Min(task.needing)]), NEW hit,
           hit = CachedPrice(prices[task.pipeline], key, now)
    PROVE  /\ task.step = "price" /\ task.needing # {}
           /\ UNCHANGED <<of, prices, cached, hashes, now, faults>>
           /\ \/ key \in DOMAIN task.peers /\ Become(d, PriceNext(task, task.peers[key]))
              \/ hit # None /\ Become(d, PriceNext(task, hit))
              \/ Become(d, [task EXCEPT !.step = "quote"])
  BY DEF Price

LEMMA TypedPrice ==
    ASSUME Typed, NEW d \in Deliveries, Price(d)
    PROVE  Typed'
  <1> PICK u : u = UnitOf(d)
    OBVIOUS
  <1> PICK task : task = tasks[d]
    OBVIOUS
  <1> PICK key : key = KeyOf(task.results[Min(task.needing)])
    OBVIOUS
  <1> PICK hit : hit = CachedPrice(prices[task.pipeline], key, now)
    OBVIOUS
  <1>1. /\ task.step = "price" /\ task.needing # {}
        /\ UNCHANGED <<of, prices, cached, hashes, now, faults>>
        /\ \/ key \in DOMAIN task.peers /\ Become(d, PriceNext(task, task.peers[key]))
           \/ hit # None /\ Become(d, PriceNext(task, hit))
           \/ Become(d, [task EXCEPT !.step = "quote"])
    BY PriceIs
  <1>2. faults' \in 0..MaxFaults
    BY <1>1 DEF Typed
  <1>3. CASE \E price : Become(d, PriceNext(task, price))
    BY <1>1, <1>2, <1>3, TypedPriced
  <1>4. CASE Become(d, [task EXCEPT !.step = "quote"])
    <2> PICK next : next = [task EXCEPT !.step = "quote"]
      OBVIOUS
    <2>1. TaskTyped(task, u)
      BY DEF Typed
    <2>2. DOMAIN task = TaskFields
      BY <2>1 DEF TaskTyped
    <2>3. /\ DOMAIN next = TaskFields /\ next.step = "quote" /\ next.todo = task.todo
          /\ next.results = task.results /\ next.needing = task.needing
          /\ next.attempt = task.attempt /\ next.pipeline = task.pipeline
          /\ next.added = task.added
      BY <2>2 DEF TaskFields
    <2>4. TaskTyped(next, u)
      BY <1>1, <2>1, <2>3 DEF TaskTyped, Steps, AddedTyped
    <2>5. QED
      BY <1>1, <1>2, <1>4, <2>4, TaskOnly
  <1>5. QED
    BY <1>1, <1>3, <1>4

LEMMA TypedQuote ==
    ASSUME Typed, NEW d \in Deliveries, Quote(d)
    PROVE  Typed'
  <1>1. /\ tasks[d].step = "quote" /\ UNCHANGED <<of, cached, hashes, now, faults>>
        /\ \E price : Become(d, PriceNext(tasks[d], price))
    BY DEF Quote
  <1>2. tasks[d].needing # {}
    BY <1>1 DEF Typed, TaskTyped
  <1>3. faults' \in 0..MaxFaults
    BY <1>1 DEF Typed
  <1>4. QED
    BY <1>1, <1>2, <1>3, TypedPriced

LEMMA TypedGuess ==
    ASSUME Typed, NEW d \in Deliveries, Guess(d)
    PROVE  Typed'
  <1>1. /\ tasks[d].step = "quote" /\ UNCHANGED <<of, prices, cached, hashes, now>>
        /\ \E price : Become(d, PriceNext(tasks[d], price))
        /\ Fault \/ UNCHANGED faults
    BY DEF Guess
  <1>2. tasks[d].needing # {}
    BY <1>1 DEF Typed, TaskTyped
  <1>3. faults' \in 0..MaxFaults
    BY <1>1, FaultIs DEF Typed
  <1>4. QED
    BY <1>1, <1>2, <1>3, TypedPriced

LEMMA CacheIs ==
    ASSUME NEW d \in Deliveries, Cache(d), NEW task, task = tasks[d], NEW results,
           results = Kept(task.pipeline, task.results)
    PROVE  /\ task.step = "price" /\ task.needing = {}
           /\ \/ cached' = [cached EXCEPT ![UnitOf(d)] = results] /\ UNCHANGED faults
              \/ UNCHANGED cached /\ Fault
           /\ Become(d, [task EXCEPT !.step = "store", !.results = results])
           /\ UNCHANGED <<of, prices, hashes, now>>
  BY DEF Cache

LEMMA TypedCache ==
    ASSUME Typed, NEW d \in Deliveries, Cache(d)
    PROVE  Typed'
  <1> PICK u : u = UnitOf(d)
    OBVIOUS
  <1> PICK task : task = tasks[d]
    OBVIOUS
  <1> PICK results : results = Kept(task.pipeline, task.results)
    OBVIOUS
  <1> PICK next : next = [task EXCEPT !.step = "store", !.results = results]
    OBVIOUS
  <1>1. /\ task.step = "price" /\ task.needing = {}
        /\ \/ cached' = [cached EXCEPT ![u] = results] /\ UNCHANGED faults
           \/ UNCHANGED cached /\ Fault
        /\ Become(d, next) /\ UNCHANGED <<of, prices, hashes, now>>
    BY CacheIs
  <1>2. TaskTyped(task, u) /\ u \in Units
    BY UnitIs DEF Typed
  <1>3. Owned(results, u)
    BY <1>2, KeptOwned DEF TaskTyped
  <1>4. DOMAIN task = TaskFields /\ task.added = 0
    BY <1>1, <1>2 DEF TaskTyped, AddedTyped
  <1>5. /\ DOMAIN next = TaskFields /\ next.step = "store" /\ next.results = results
        /\ next.needing = task.needing /\ next.added = 0
        /\ next.attempt = task.attempt /\ next.pipeline = task.pipeline
    BY <1>4 DEF TaskFields
  <1>6. TaskTyped(next, u)
    BY <1>1, <1>2, <1>3, <1>5 DEF TaskTyped, Steps, AddedTyped
  <1>7. TasksTyped' /\ HashesTyped'
    BY <1>1, <1>6, TaskStep, HashesKept
  <1>8. CacheTyped'
    BY <1>1, <1>2, <1>3 DEF Typed, CacheTyped
  <1>9. of' \in Scenarios /\ now' \in 0..MaxTicks /\ faults' \in 0..MaxFaults
    BY <1>1, FaultIs DEF Typed
  <1>10. QED
    BY <1>7, <1>8, <1>9 DEF Typed, TasksTyped, HashesTyped, CacheTyped

\* A task that has added one more of its results.
OneAdded(task) == [task EXCEPT !.added = @ + 1]

\* One more result of a delivery is added, which is among its results.
LEMMA AddResultIs ==
    ASSUME Typed, NEW d \in Deliveries, AddResult(d), NEW task, task = tasks[d],
           NEW n, n = task.added + 1
    PROVE  /\ task.step \in {"cached", "store"}
           /\ task.added \in Nat /\ task.added < Len(task.results)
           /\ n \in DOMAIN task.results /\ n \in 1..Len(task.results)
           /\ HasOwner(task.results[n], UnitOf(d))
           /\ Adds(d, task.results[n]) /\ Become(d, OneAdded(task))
           /\ UNCHANGED <<of, prices, cached, now, faults>>
  <1>1. /\ task.step \in {"cached", "store"} /\ task.added < Len(task.results)
        /\ Adds(d, task.results[n]) /\ Become(d, OneAdded(task))
        /\ UNCHANGED <<of, prices, cached, now, faults>>
    BY DEF AddResult, Adds, OneAdded
  <1>2. TaskTyped(task, UnitOf(d))
    BY DEF Typed
  <1>3. IsList(task.results) /\ (\A i \in DOMAIN task.results : HasOwner(task.results[i], UnitOf(d)))
    BY <1>2 DEF TaskTyped, Owned
  <1>4. DOMAIN task.results = 1..Len(task.results) /\ Len(task.results) \in Nat
    BY <1>3, ListIs
  <1>5. task.added \in Nat
    BY <1>2, <1>4 DEF TaskTyped, AddedTyped
  <1>6. n \in 1..Len(task.results)
    BY <1>1, <1>4, <1>5
  <1>7. QED
    BY <1>1, <1>3, <1>4, <1>5, <1>6

LEMMA OneAddedIs ==
    ASSUME NEW task, DOMAIN task = TaskFields, NEW next, next = OneAdded(task)
    PROVE  /\ DOMAIN next = TaskFields /\ next.added = task.added + 1
           /\ \A f \in TaskFields \ {"added"} : next[f] = task[f]
  BY DEF OneAdded, TaskFields

LEMMA TypedAddResult ==
    ASSUME Typed, NEW d \in Deliveries, AddResult(d)
    PROVE  Typed'
  <1> PICK u : u = UnitOf(d)
    OBVIOUS
  <1> PICK task : task = tasks[d]
    OBVIOUS
  <1> PICK n : n = task.added + 1
    OBVIOUS
  <1> PICK next : next = OneAdded(task)
    OBVIOUS
  <1>1. /\ task.step \in {"cached", "store"} /\ n \in 1..Len(task.results)
        /\ HasOwner(task.results[n], u) /\ Adds(d, task.results[n]) /\ Become(d, next)
        /\ UNCHANGED <<of, prices, cached, now, faults>>
    BY AddResultIs
  <1>2. TaskTyped(task, u)
    BY DEF Typed
  <1>3. DOMAIN task = TaskFields
    BY <1>2 DEF TaskTyped
  <1>4. /\ DOMAIN next = TaskFields /\ next.added = n
        /\ \A f \in TaskFields \ {"added"} : next[f] = task[f]
    BY <1>3, OneAddedIs
  <1>5. /\ next.step = task.step /\ next.results = task.results /\ next.needing = task.needing
        /\ next.attempt = task.attempt /\ next.pipeline = task.pipeline
    BY <1>4 DEF TaskFields
  <1>6. TaskTyped(next, u)
    BY <1>1, <1>2, <1>4, <1>5 DEF TaskTyped, AddedTyped
  <1>7. TasksTyped' /\ HashesTyped'
    BY <1>1, <1>6, TaskStep, HashStep
  <1>8. CacheTyped'
    BY <1>1, CacheKept
  <1>9. of' \in Scenarios /\ now' \in 0..MaxTicks /\ faults' \in 0..MaxFaults
    BY <1>1 DEF Typed
  <1>10. QED
    BY <1>7, <1>8, <1>9 DEF Typed, TasksTyped, HashesTyped, CacheTyped

LEMMA TasksKept ==
    ASSUME Typed, of' = of, tasks' = tasks
    PROVE  TasksTyped'
  BY DEF Typed, TasksTyped, UnitOf

LEMMA TypedTick ==
    ASSUME Typed, Tick
    PROVE  Typed'
  <1>1. TasksTyped' /\ HashesTyped' /\ CacheTyped'
    BY TasksKept, HashesKept, CacheKept DEF Tick
  <1>2. of' \in Scenarios /\ now' \in 0..MaxTicks /\ faults' \in 0..MaxFaults
    BY CollectAssumption DEF Tick, Typed
  <1>3. QED
    BY <1>1, <1>2 DEF Typed, TasksTyped, HashesTyped, CacheTyped

LEMMA TypedStep == Typed /\ [Next]_vars => Typed'
  <1> SUFFICES ASSUME Typed, [Next]_vars PROVE Typed'
    OBVIOUS
  <1>1. ASSUME NEW d \in Deliveries, NEW p \in Pipelines, TakeCached(d, p) \/ Take(d, p)
        PROVE  Typed'
    BY <1>1, TypedTakeCached, TypedTake
  <1>2. ASSUME NEW d \in Deliveries, Connect(d) \/ ConnectUnhealthy(d) \/ ConnectFails(d)
        PROVE  Typed'
    BY <1>2, TypedConnect, TypedConnectUnhealthy, TypedConnectFails
  <1>3. ASSUME NEW d \in Deliveries, Ask(d) \/ Screen(d) \/ Hydrate(d)
        PROVE  Typed'
    BY <1>3, TypedAsk, TypedScreen, TypedHydrate
  <1>4. ASSUME NEW d \in Deliveries, Price(d) \/ Quote(d) \/ Guess(d) \/ Cache(d) \/ AddResult(d)
        PROVE  Typed'
    BY <1>4, TypedPrice, TypedQuote, TypedGuess, TypedCache, TypedAddResult
  <1>5. CASE Tick
    BY <1>5, TypedTick
  <1>6. CASE UNCHANGED vars
    <2>1. TasksTyped' /\ HashesTyped' /\ CacheTyped'
      BY <1>6, TasksKept, HashesKept, CacheKept DEF vars
    <2>2. of' \in Scenarios /\ now' \in 0..MaxTicks /\ faults' \in 0..MaxFaults
      BY <1>6 DEF vars, Typed
    <2>3. QED
      BY <2>1, <2>2 DEF Typed, TasksTyped, HashesTyped, CacheTyped
  <1>7. QED
    BY <1>1, <1>2, <1>3, <1>4, <1>5, <1>6 DEF Next

LEMMA TypedAlways == Spec => []Typed
  BY TypedInit, TypedStep, PTL DEF Spec

LEMMA TypedImplies == Typed => TypeOK
  <1> SUFFICES ASSUME Typed PROVE TypeOK
    OBVIOUS
  <1>1. ASSUME NEW d \in Deliveries
        PROVE  /\ tasks[d].step \in Steps
               /\ tasks[d].pipeline \in Pipelines \cup {None}
               /\ tasks[d].attempt \in 1..Attempts
               /\ tasks[d].needing \subseteq DOMAIN tasks[d].results
               /\ tasks[d].added \in 0..Len(tasks[d].results)
    <2>1. TaskTyped(tasks[d], UnitOf(d))
      BY DEF Typed
    <2>2. Len(tasks[d].results) \in Nat
      BY <2>1, ListIs DEF TaskTyped, Owned
    <2>3. QED
      BY <2>1, <2>2 DEF TaskTyped, AddedTyped
  <1>2. ASSUME NEW u \in Units, cached[u] # None, NEW i \in DOMAIN cached[u]
        PROVE  cached[u][i].account = u.account /\ cached[u][i].chain = u.chain
    BY <1>2 DEF Typed, Owned, HasOwner
  <1>3. ASSUME NEW j \in Jobs, NEW f \in DOMAIN hashes[j]
        PROVE  \E d \in Deliveries : of[d].job = j /\ hashes[j][f].account = of[d].account
                                      /\ hashes[j][f].chain = of[d].chain
    BY DEF Typed, JobHash, OfJob
  <1>4. of \in Scenarios /\ now \in 0..MaxTicks /\ faults \in 0..MaxFaults
    BY DEF Typed
  <1>5. QED
    BY <1>1, <1>2, <1>3, <1>4 DEF TypeOK

\* What a message goes through stays within its type: no more than Attempts
\* are made, and what is cached or added belongs to its account and chain.
THEOREM CollectTypeOK == Spec => []TypeOK
  BY TypedAlways, TypedImplies, PTL

----------------------------------------------------------------------------
(* Where prices come from.                                                 *)

\* What is known of a symbol is the price of a result that is left alone.
PeersKnown(task) ==
    task.step \in {"price", "quote"} =>
        \A key \in DOMAIN task.peers :
            \E k \in DOMAIN task.results \ task.needing :
                KeyOf(task.results[k]) = key /\ task.results[k].price = task.peers[key]

CacheFresh(cache, time) ==
    \A key \in DOMAIN cache : /\ cache[key].at \in 0..time
                              /\ cache[key].price = MarketPrice(key[1], cache[key].at)

Fresh ==
    /\ \A d \in Deliveries : PeersKnown(tasks[d])
    /\ DOMAIN prices = Pipelines
    /\ \A p \in Pipelines : CacheFresh(prices[p], now)

LEMMA FreshInit == Init => Fresh
  <1> SUFFICES ASSUME Init PROVE Fresh
    OBVIOUS
  <1>1. DOMAIN prices = Pipelines /\ \A p \in Pipelines : prices[p] = <<>>
    BY DEF Init
  <1>2. DOMAIN <<>> = {}
    BY EmptyIsList
  <1>3. \A p \in Pipelines : CacheFresh(prices[p], now)
    BY <1>1, <1>2 DEF CacheFresh
  <1>4. Idle.step = "idle"
    BY DEF Idle
  <1>5. \A d \in Deliveries : PeersKnown(tasks[d])
    BY <1>4 DEF Init, PeersKnown
  <1>6. QED
    BY <1>1, <1>3, <1>5 DEF Fresh

LEMMA AlreadyPricedIs ==
    ASSUME NEW results, NEW unit, AllFetched(results, unit), NEW key \in DOMAIN AlreadyPriced(results)
    PROVE  \E k \in DOMAIN results \ Needing(results) :
              KeyOf(results[k]) = key /\ results[k].price = AlreadyPriced(results)[key]
  <1> PICK those : those = {i \in PricedOf(results) : KeyOf(results[i]) = key}
    OBVIOUS
  <1>1. AlreadyPriced(results)[key] = results[Max(those)].price /\ those # {}
    BY DEF AlreadyPriced
  <1>2. those \subseteq DOMAIN results
    BY DEF PricedOf
  <1>3. IsList(results)
    BY DEF AllFetched
  <1>4. IsFiniteSet(those) /\ those \subseteq Int
    BY <1>2, <1>3, PlacesFinite
  <1>5. Max(those) \in those
    BY <1>1, <1>4, MaxOfFinite
  <1> PICK k : k = Max(those)
    OBVIOUS
  <1>6. k \in DOMAIN results /\ results[k].price > 0 /\ KeyOf(results[k]) = key
    BY <1>5 DEF PricedOf
  <1>7. results[k].price \in Int
    BY <1>6 DEF AllFetched, IsFetched
  <1>8. k \notin Needing(results)
    BY <1>6, <1>7 DEF Needing
  <1>9. QED
    BY <1>1, <1>6, <1>8

LEMMA HydratingKnown ==
    ASSUME NEW task, DOMAIN task = TaskFields, NEW results, NEW unit, AllFetched(results, unit),
           NEW next, next = Hydrating(task, results)
    PROVE  PeersKnown(next)
  <1> PICK peers : peers = AlreadyPriced(results)
    OBVIOUS
  <1> PICK needing : needing = Needing(results)
    OBVIOUS
  <1>1. next = [task EXCEPT !.step = "price", !.results = results, !.peers = peers,
                            !.needing = needing]
    BY DEF Hydrating
  <1>2. next.results = results /\ next.peers = peers /\ next.needing = needing
    BY <1>1 DEF TaskFields
  <1>3. \A key \in DOMAIN peers : \E k \in DOMAIN results \ needing :
           KeyOf(results[k]) = key /\ results[k].price = peers[key]
    BY AlreadyPricedIs
  <1>4. QED
    BY <1>2, <1>3 DEF PeersKnown

LEMMA PriceNextKnown ==
    ASSUME NEW task, NEW unit, TaskTyped(task, unit), task.needing # {}, PeersKnown(task),
           NEW price, NEW next, next = PriceNext(task, price)
    PROVE  PeersKnown(next)
  <1> PICK m : m = Min(task.needing)
    OBVIOUS
  <1>1. /\ m \in task.needing /\ next.needing = task.needing \ {m}
        /\ \A f \in TaskFields \ {"step", "needing", "results"} : next[f] = task[f]
        /\ DOMAIN next.results = DOMAIN task.results
        /\ \A k \in DOMAIN task.results : k # m => next.results[k] = task.results[k]
    BY PriceNextIs
  <1>2. next.peers = task.peers
    BY <1>1 DEF TaskFields
  <1>3. task.step \in {"price", "quote"}
    BY DEF TaskTyped
  <1>4. ASSUME NEW key \in DOMAIN task.peers
        PROVE  \E k \in DOMAIN next.results \ next.needing :
                  KeyOf(next.results[k]) = key /\ next.results[k].price = task.peers[key]
    <2>1. PICK k \in DOMAIN task.results \ task.needing :
             KeyOf(task.results[k]) = key /\ task.results[k].price = task.peers[key]
      BY <1>3 DEF PeersKnown
    <2>2. k # m /\ next.results[k] = task.results[k] /\ k \notin next.needing
      BY <1>1, <2>1
    <2>3. QED
      BY <1>1, <2>1, <2>2
  <1>5. QED
    BY <1>2, <1>4 DEF PeersKnown

\* Only hydration and pricing lead to a step in which peers matter.
LEMMA KnownStep ==
    ASSUME Typed, Fresh, NEW d \in Deliveries, NEW task, Become(d, task), PeersKnown(task)
    PROVE  \A e \in Deliveries : PeersKnown(tasks[e])'
  <1>1. \A e \in Deliveries : tasks'[e] = IF e = d THEN task ELSE tasks[e]
    BY DEF Typed, Become
  <1>2. \A e \in Deliveries : PeersKnown(tasks[e])
    BY DEF Fresh
  <1>3. \A e \in Deliveries : PeersKnown(tasks'[e])
    BY <1>1, <1>2
  <1>4. QED
    BY <1>3 DEF PeersKnown, KeyOf

LEMMA EarlierKnown ==
    \A task : task.step \notin {"price", "quote"} => PeersKnown(task)
  BY DEF PeersKnown

PeersStay == \A e \in Deliveries : PeersKnown(tasks[e])

LEMMA PeersOther ==
    ASSUME Typed, Fresh, NEW d \in Deliveries,
           \/ \E p \in Pipelines : TakeCached(d, p) \/ Take(d, p)
           \/ ConnectFails(d) \/ Cache(d) \/ AddResult(d)
    PROVE  PeersStay'
  <1> PICK task : task = tasks[d]
    OBVIOUS
  <1>1. DOMAIN task = TaskFields
    BY DEF Typed, TaskTyped
  <1>2. DOMAIN Idle = TaskFields
    BY DEF Idle, TaskFields
  <1>3. ASSUME NEW p \in Pipelines, TakeCached(d, p)
        PROVE  \E next : Become(d, next) /\ next.step = "cached"
    <2> PICK results, ops : /\ results = cached[UnitOf(d)]
                            /\ ops = {<<results[i].protocol, TRUE>> : i \in DOMAIN results}
      OBVIOUS
    <2> PICK next : next = [Idle EXCEPT !.step = "cached", !.pipeline = p, !.results = results,
                                        !.ops = ops]
      OBVIOUS
    <2>1. Become(d, next)
      BY <1>3 DEF TakeCached
    <2>2. next.step = "cached"
      BY <1>2 DEF TaskFields
    <2>3. QED
      BY <2>1, <2>2
  <1>4. ASSUME NEW p \in Pipelines, Take(d, p)
        PROVE  \E next : Become(d, next) /\ next.step = "connect"
    <2> PICK next : next = [Idle EXCEPT !.step = "connect", !.pipeline = p]
      OBVIOUS
    <2>1. Become(d, next)
      BY <1>4 DEF Take
    <2>2. next.step = "connect"
      BY <1>2 DEF TaskFields
    <2>3. QED
      BY <2>1, <2>2
  <1>5. ASSUME ConnectFails(d)
        PROVE  \E next : Become(d, next) /\ next.step \in {"connect", "failed"}
    <2> PICK again, failed : /\ again = [task EXCEPT !.attempt = @ + 1]
                             /\ failed = [task EXCEPT !.step = "failed"]
      OBVIOUS
    <2>1. task.step = "connect" /\ (Become(d, again) \/ Become(d, failed))
      BY <1>5 DEF ConnectFails
    <2>2. again.step = task.step /\ failed.step = "failed"
      BY <1>1 DEF TaskFields
    <2>3. QED
      BY <2>1, <2>2
  <1>6. ASSUME Cache(d)
        PROVE  \E next : Become(d, next) /\ next.step = "store"
    <2> PICK results : results = Kept(task.pipeline, task.results)
      OBVIOUS
    <2> PICK next : next = [task EXCEPT !.step = "store", !.results = results]
      OBVIOUS
    <2>1. Become(d, next)
      BY <1>6 DEF Cache
    <2>2. next.step = "store"
      BY <1>1 DEF TaskFields
    <2>3. QED
      BY <2>1, <2>2
  <1>7. ASSUME AddResult(d)
        PROVE  \E next : Become(d, next) /\ next.step \in {"cached", "store"}
    <2> PICK next : next = OneAdded(task)
      OBVIOUS
    <2> PICK n : n = task.added + 1
      OBVIOUS
    <2>1. Become(d, next) /\ task.step \in {"cached", "store"}
      BY <1>7, AddResultIs
    <2>2. next.step = task.step
      BY <1>1, OneAddedIs DEF TaskFields
    <2>3. QED
      BY <2>1, <2>2
  <1>8. PICK next : Become(d, next) /\ next.step \in {"cached", "connect", "failed", "store"}
    BY <1>3, <1>4, <1>5, <1>6, <1>7
  <1>9. PeersKnown(next)
    BY <1>8, EarlierKnown
  <1>10. QED
    BY <1>8, <1>9, KnownStep DEF PeersStay

LEMMA PeersHydrated ==
    ASSUME Typed, Fresh, NEW d \in Deliveries,
           Connect(d) \/ ConnectUnhealthy(d) \/ Hydrate(d)
    PROVE  PeersStay'
  <1> PICK u : u = UnitOf(d)
    OBVIOUS
  <1> PICK task : task = tasks[d]
    OBVIOUS
  <1>1. DOMAIN task = TaskFields /\ (task.step = "ask" => AllFetched(task.results, u))
    BY DEF Typed, TaskTyped
  <1>2. AllFetched(<<>>, u) /\ AllFetched(WithoutNode(task.pipeline, u), u)
    BY MockFetched, NoneFetched DEF WithoutNode
  <1> PICK todo : todo = Sources(task.pipeline, u.chain)
    OBVIOUS
  <1> PICK ask : ask = [task EXCEPT !.step = "ask", !.todo = todo]
    OBVIOUS
  <1>3. ask.step = "ask"
    BY <1>1 DEF TaskFields
  <1>4. Become(d, ask) \/ \E results : AllFetched(results, u) /\ Become(d, Hydrating(task, results))
    BY <1>1, <1>2 DEF Connect, ConnectUnhealthy, Hydrate
  <1>5. CASE Become(d, ask)
    BY <1>3, <1>5, EarlierKnown, KnownStep DEF PeersStay
  <1>6. CASE \E results : AllFetched(results, u) /\ Become(d, Hydrating(task, results))
    <2>1. PICK results : AllFetched(results, u) /\ Become(d, Hydrating(task, results))
      BY <1>6
    <2> PICK next : next = Hydrating(task, results)
      OBVIOUS
    <2>2. PeersKnown(next)
      BY <1>1, <2>1, HydratingKnown
    <2>3. QED
      BY <2>1, <2>2, KnownStep DEF PeersStay
  <1>7. QED
    BY <1>4, <1>5, <1>6

LEMMA PeersAsked ==
    ASSUME Typed, Fresh, NEW d \in Deliveries, Ask(d) \/ Screen(d)
    PROVE  PeersStay'
  <1> PICK u : u = UnitOf(d)
    OBVIOUS
  <1> PICK task : task = tasks[d]
    OBVIOUS
  <1>1. DOMAIN task = TaskFields
    BY DEF Typed, TaskTyped
  <1>2. CASE Ask(d)
    <2> PICK source : source = Head(task.todo)
      OBVIOUS
    <2>1. PICK failing : Become(d, Asked(task, u, source, failing)) /\ task.step = "ask"
      BY <1>2, AskIs
    <2> PICK next : next = Asked(task, u, source, failing)
      OBVIOUS
    <2> PICK reply : reply = Fetch(task.pipeline, source, u, Holdings[u], failing)
      OBVIOUS
    <2>2. next.step = "ask"
      BY <1>1, <2>1, AskedIs DEF Grown
    <2>3. QED
      BY <2>1, <2>2, EarlierKnown, KnownStep DEF PeersStay
  <1>3. CASE Screen(d)
    <2>1. PICK failing : Become(d, ScreenedBy(task, u, failing)) /\ task.step = "ask"
      BY <1>3, ScreenIs
    <2> PICK next : next = ScreenedBy(task, u, failing)
      OBVIOUS
    <2>2. next.step = "ask"
      BY <1>1, <2>1, ScreenedByIs DEF TaskFields
    <2>3. QED
      BY <2>1, <2>2, EarlierKnown, KnownStep DEF PeersStay
  <1>4. QED
    BY <1>2, <1>3

LEMMA PeersPriced ==
    ASSUME Typed, Fresh, NEW d \in Deliveries, Price(d) \/ Quote(d) \/ Guess(d)
    PROVE  PeersStay'
  <1> PICK u : u = UnitOf(d)
    OBVIOUS
  <1> PICK task : task = tasks[d]
    OBVIOUS
  <1>1. DOMAIN task = TaskFields /\ TaskTyped(task, u) /\ PeersKnown(task)
    BY DEF Typed, TaskTyped, Fresh
  <1>2. task.needing # {} /\ task.step \in {"price", "quote"}
    BY <1>1 DEF Price, Quote, Guess, TaskTyped
  <1>3. \/ \E price : Become(d, PriceNext(task, price))
        \/ Become(d, [task EXCEPT !.step = "quote"])
    BY PriceIs DEF Quote, Guess
  <1>4. CASE \E price : Become(d, PriceNext(task, price))
    <2>1. PICK price : Become(d, PriceNext(task, price))
      BY <1>4
    <2> PICK next : next = PriceNext(task, price)
      OBVIOUS
    <2>2. PeersKnown(next)
      BY <1>1, <1>2, PriceNextKnown
    <2>3. QED
      BY <2>1, <2>2, KnownStep DEF PeersStay
  <1>5. CASE Become(d, [task EXCEPT !.step = "quote"])
    <2> PICK next : next = [task EXCEPT !.step = "quote"]
      OBVIOUS
    <2>1. next.results = task.results /\ next.needing = task.needing /\ next.peers = task.peers
      BY <1>1 DEF TaskFields
    <2>2. PeersKnown(next)
      BY <1>1, <1>2, <2>1 DEF PeersKnown
    <2>3. QED
      BY <1>5, <2>2, KnownStep DEF PeersStay
  <1>6. QED
    BY <1>3, <1>4, <1>5

PricesFresh == DOMAIN prices = Pipelines /\ \A p \in Pipelines : CacheFresh(prices[p], now)

LEMMA PricesSame ==
    ASSUME Fresh, prices' = prices, now' = now
    PROVE  PricesFresh'
  BY DEF Fresh, PricesFresh, CacheFresh, MarketPrice

LEMMA PricesTick ==
    ASSUME Typed, Fresh, Tick
    PROVE  PricesFresh'
  <1>1. prices' = prices /\ now' = now + 1 /\ now \in Nat
    BY CollectAssumption DEF Tick, Typed
  <1>2. \A at \in 0..now : at \in 0..(now + 1)
    BY <1>1
  <1>3. QED
    BY <1>1, <1>2 DEF Fresh, PricesFresh, CacheFresh, MarketPrice

LEMMA PricesQuoted ==
    ASSUME Typed, Fresh, NEW d \in Deliveries, Quote(d)
    PROVE  PricesFresh'
  <1> PICK task : task = tasks[d]
    OBVIOUS
  <1> PICK p : p = task.pipeline
    OBVIOUS
  <1> PICK key : key = KeyOf(task.results[Min(task.needing)])
    OBVIOUS
  <1> PICK price : price = MarketPrice(key[1], now)
    OBVIOUS
  <1> PICK old : old = prices[p]
    OBVIOUS
  <1> PICK new : new = CachePrice(old, key, price, now)
    OBVIOUS
  <1>1. task.step = "quote" /\ prices' = [prices EXCEPT ![p] = new] /\ now' = now
    BY DEF Quote
  <1>2. p \in Pipelines
    BY <1>1 DEF Typed, TaskTyped
  <1>3. DOMAIN prices = Pipelines /\ CacheFresh(old, now)
    BY <1>2 DEF Fresh
  <1>4. now \in 0..now
    BY CollectAssumption DEF Typed
  <1>5. CacheFresh(new, now)
    BY <1>3, <1>4 DEF CachePrice, CacheFresh
  <1>6. \A q \in Pipelines : CacheFresh(prices'[q], now)
    BY <1>1, <1>2, <1>3, <1>5 DEF Fresh
  <1>7. \A q \in Pipelines : CacheFresh(prices[q], now)'
    BY <1>1, <1>6 DEF CacheFresh, MarketPrice
  <1>8. QED
    BY <1>1, <1>3, <1>7 DEF PricesFresh

LEMMA FreshStep == Typed /\ Fresh /\ [Next]_vars => Fresh'
  <1> SUFFICES ASSUME Typed, Fresh, [Next]_vars PROVE Fresh'
    OBVIOUS
  <1> USE DEF PeersStay, PricesFresh
  <1> SUFFICES PeersStay' /\ PricesFresh'
    BY DEF Fresh
  <1> HIDE DEF PeersStay, PricesFresh
  <1>1. ASSUME NEW d \in Deliveries, NEW p \in Pipelines, TakeCached(d, p) \/ Take(d, p)
        PROVE  PeersStay' /\ PricesFresh'
    BY <1>1, PeersOther, PricesSame DEF TakeCached, Take
  <1>2. ASSUME NEW d \in Deliveries, ConnectFails(d) \/ Cache(d) \/ AddResult(d)
        PROVE  PeersStay' /\ PricesFresh'
    BY <1>2, PeersOther, PricesSame DEF ConnectFails, Cache, AddResult
  <1>3. ASSUME NEW d \in Deliveries, Connect(d) \/ ConnectUnhealthy(d) \/ Hydrate(d)
        PROVE  PeersStay' /\ PricesFresh'
    BY <1>3, PeersHydrated, PricesSame DEF Connect, ConnectUnhealthy, Hydrate
  <1>4. ASSUME NEW d \in Deliveries, Ask(d) \/ Screen(d)
        PROVE  PeersStay' /\ PricesFresh'
    BY <1>4, PeersAsked, PricesSame DEF Ask, Screen
  <1>5. ASSUME NEW d \in Deliveries, Price(d) \/ Guess(d)
        PROVE  PeersStay' /\ PricesFresh'
    BY <1>5, PeersPriced, PricesSame DEF Price, Guess
  <1>6. ASSUME NEW d \in Deliveries, Quote(d)
        PROVE  PeersStay' /\ PricesFresh'
    BY <1>6, PeersPriced, PricesQuoted
  <1>7. CASE Tick
    <2>1. tasks' = tasks
      BY <1>7 DEF Tick
    <2>2. PeersStay'
      BY <2>1 DEF Fresh, PeersStay, PeersKnown, KeyOf
    <2>3. QED
      BY <1>7, <2>2, PricesTick
  <1>8. CASE UNCHANGED vars
    <2>1. tasks' = tasks /\ prices' = prices /\ now' = now
      BY <1>8 DEF vars
    <2>2. PeersStay'
      BY <2>1 DEF Fresh, PeersStay, PeersKnown, KeyOf
    <2>3. QED
      BY <2>1, <2>2, PricesSame
  <1>9. QED
    BY <1>1, <1>2, <1>3, <1>4, <1>5, <1>6, <1>7, <1>8 DEF Next

LEMMA FreshAlways == Spec => [](Typed /\ Fresh)
  <1>1. Init => Typed /\ Fresh
    BY TypedInit, FreshInit
  <1>2. Typed /\ Fresh /\ [Next]_vars => Typed' /\ Fresh'
    BY TypedStep, FreshStep
  <1>3. QED
    BY <1>1, <1>2, PTL DEF Spec

LEMMA OnlyPriced ==
    ASSUME Typed, NEW d \in Deliveries, NEW task, task = tasks[d], task.needing # {},
           NEW m, m = Min(task.needing), NEW price, Become(d, PriceNext(task, price))
    PROVE  /\ m \in DOMAIN task.results
           /\ \A i \in DOMAIN task.results :
                 \/ tasks'[d].results[i].price = task.results[i].price
                 \/ i = m /\ tasks'[d].results[i].price = price
  <1> PICK u : u = UnitOf(d)
    OBVIOUS
  <1> PICK next : next = PriceNext(task, price)
    OBVIOUS
  <1>1. TaskTyped(task, u)
    BY DEF Typed
  <1>2. tasks'[d] = next
    BY DEF Typed, Become
  <1>3. /\ m \in DOMAIN task.results
        /\ \A k \in DOMAIN task.results : k # m => next.results[k] = task.results[k]
        /\ next.results[m] = RePriced(task.results[m], price)
        /\ DOMAIN task.results[m] = ResultFields
    BY <1>1, PriceNextIs
  <1>4. RePriced(task.results[m], price).price = price
    BY <1>3, RePricedIs
  <1>5. QED
    BY <1>2, <1>3, <1>4

LEMMA UnexpiredIs ==
    ASSUME NEW n \in Nat, NEW m \in Nat \ {0}, n \div m < 1
    PROVE  n < m
  OBVIOUS

LEMMA CachedIsFresh ==
    ASSUME NEW cache, NEW time \in Nat, CacheFresh(cache, time), NEW key, NEW hit,
           hit = CachedPrice(cache, key, time), hit # None
    PROVE  \E t \in 0..time : time - t < TicksPerHour /\ hit = MarketPrice(key[1], t)
  <1>1. key \in DOMAIN cache /\ ~Expired(cache[key], time) /\ hit = cache[key].price
    BY DEF CachedPrice
  <1> PICK t : t = cache[key].at
    OBVIOUS
  <1>2. t \in 0..time /\ hit = MarketPrice(key[1], t)
    BY <1>1 DEF CacheFresh
  <1>3. TicksPerHour \in Nat \ {0}
    BY HydrationAssumption
  <1>4. ~((time - t) \div TicksPerHour >= 1)
    BY <1>1 DEF Expired, TtlHours
  <1>5. time - t \in Nat
    BY <1>2
  <1> PICK age : age = time - t
    OBVIOUS
  <1>6. age \in Nat /\ ~(age \div TicksPerHour >= 1)
    BY <1>4, <1>5
  <1>7. age \div TicksPerHour < 1
    BY <1>3, <1>6
  <1>8. age < TicksPerHour
    BY <1>3, <1>6, <1>7, UnexpiredIs
  <1>9. QED
    BY <1>2, <1>8

FreshFor(d) ==
    (tasks[d].step \in {"price", "quote"} /\ tasks[d].needing # {}) =>
        \A i \in DOMAIN tasks[d].results :
            \/ tasks'[d].results[i].price = tasks[d].results[i].price
            \/ FreshlyPriced(d, i)

LEMMA FreshSame ==
    ASSUME NEW d \in Deliveries, tasks'[d] = tasks[d]
    PROVE  FreshFor(d)
  BY DEF FreshFor

LEMMA FreshPrice ==
    ASSUME Typed, Fresh, NEW d \in Deliveries, Price(d)
    PROVE  FreshFor(d)
  <1> PICK u : u = UnitOf(d)
    OBVIOUS
  <1> PICK task : task = tasks[d]
    OBVIOUS
  <1> PICK m : m = Min(task.needing)
    OBVIOUS
  <1> PICK key : key = KeyOf(task.results[m])
    OBVIOUS
  <1> PICK hit : hit = CachedPrice(prices[task.pipeline], key, now)
    OBVIOUS
  <1>1. /\ task.step = "price" /\ task.needing # {}
        /\ \/ key \in DOMAIN task.peers /\ Become(d, PriceNext(task, task.peers[key]))
           \/ hit # None /\ Become(d, PriceNext(task, hit))
           \/ Become(d, [task EXCEPT !.step = "quote"])
    BY PriceIs
  <1>2. TaskTyped(task, u) /\ PeersKnown(task) /\ now \in Nat
    BY CollectAssumption DEF Typed, Fresh
  <1>p. Typed /\ d \in Deliveries /\ task = tasks[d] /\ task.needing # {} /\ m = Min(task.needing)
    BY <1>1
  <1>3. CASE key \in DOMAIN task.peers /\ Become(d, PriceNext(task, task.peers[key]))
    <2>p. PICK price : price = task.peers[key]
      OBVIOUS
    <2>0. Become(d, PriceNext(task, price))
      BY <1>3, <2>p
    <2>1. \A i \in DOMAIN task.results :
             \/ tasks'[d].results[i].price = task.results[i].price
             \/ i = m /\ tasks'[d].results[i].price = price
      BY ONLY <1>p, <2>0, OnlyPriced
    <2>2. PICK k \in DOMAIN task.results : KeyOf(task.results[k]) = key /\ task.results[k].price = price
      BY <1>1, <1>2, <1>3, <2>p DEF PeersKnown
    <2>3. ASSUME NEW i \in DOMAIN task.results, i = m, tasks'[d].results[i].price = price
          PROVE  FreshlyPriced(d, i)
      BY <2>2, <2>3 DEF FreshlyPriced
    <2>4. QED
      BY <2>1, <2>3 DEF FreshFor
  <1>4. CASE hit # None /\ Become(d, PriceNext(task, hit))
    <2>1. \A i \in DOMAIN task.results :
             \/ tasks'[d].results[i].price = task.results[i].price
             \/ i = m /\ tasks'[d].results[i].price = hit
      BY ONLY <1>p, <1>4, OnlyPriced
    <2>2. task.pipeline \in Pipelines
      BY <1>1, <1>2 DEF TaskTyped
    <2>3. CacheFresh(prices[task.pipeline], now)
      BY <2>2 DEF Fresh
    <2>4. \E t \in 0..now : now - t < TicksPerHour /\ hit = MarketPrice(key[1], t)
      BY <1>2, <1>4, <2>3, CachedIsFresh
    <2>5. ASSUME NEW i \in DOMAIN task.results, i = m, tasks'[d].results[i].price = hit
          PROVE  FreshlyPriced(d, i)
      BY <2>4, <2>5 DEF FreshlyPriced
    <2>6. QED
      BY <2>1, <2>5 DEF FreshFor
  <1>5. CASE Become(d, [task EXCEPT !.step = "quote"])
    <2> PICK next : next = [task EXCEPT !.step = "quote"]
      OBVIOUS
    <2>1. tasks'[d] = next
      BY <1>5 DEF Typed, Become
    <2>2. DOMAIN task = TaskFields
      BY <1>2 DEF TaskTyped
    <2>3. next.results = task.results
      BY <2>2 DEF TaskFields
    <2>4. QED
      BY <2>1, <2>3 DEF FreshFor
  <1>6. QED
    BY <1>1, <1>3, <1>4, <1>5

LEMMA FreshQuote ==
    ASSUME Typed, Fresh, NEW d \in Deliveries, Quote(d) \/ Guess(d)
    PROVE  FreshFor(d)
  <1> PICK task : task = tasks[d]
    OBVIOUS
  <1> PICK m : m = Min(task.needing)
    OBVIOUS
  <1> PICK key : key = KeyOf(task.results[m])
    OBVIOUS
  <1>1. task.step = "quote" /\ task.needing # {}
    <2>1. task.step = "quote"
      BY DEF Quote, Guess
    <2>2. QED
      BY <2>1 DEF Typed, TaskTyped
  <1>2. /\ now \in Nat /\ now \in 0..now /\ now - now = 0 /\ 0 < TicksPerHour
    BY CollectAssumption, HydrationAssumption DEF Typed
  <1>3. CASE Quote(d)
    <2> PICK price : price = MarketPrice(key[1], now)
      OBVIOUS
    <2>1. Become(d, PriceNext(task, price))
      BY <1>3 DEF Quote
    <2>2. \A i \in DOMAIN task.results :
             \/ tasks'[d].results[i].price = task.results[i].price
             \/ i = m /\ tasks'[d].results[i].price = price
      BY <1>1, <2>1, OnlyPriced
    <2>3. \E t \in 0..now : now - t < TicksPerHour /\ price = MarketPrice(key[1], t)
      BY <1>2
    <2>4. ASSUME NEW i \in DOMAIN task.results, i = m, tasks'[d].results[i].price = price
          PROVE  FreshlyPriced(d, i)
      BY <2>3, <2>4 DEF FreshlyPriced
    <2>5. QED
      BY <2>2, <2>4 DEF FreshFor
  <1>4. CASE Guess(d)
    <2>1. prices' = prices
      BY <1>4 DEF Guess
    <2>2. \A i : FreshlyPriced(d, i)
      BY <1>1, <2>1 DEF FreshlyPriced
    <2>3. QED
      BY <2>2 DEF FreshFor
  <1>5. QED
    BY <1>3, <1>4

\* A step is one of a single delivery, of the clock, or of nothing.
StepOf(d) ==
    \/ \E p \in Pipelines : TakeCached(d, p) \/ Take(d, p)
    \/ Connect(d) \/ ConnectUnhealthy(d) \/ ConnectFails(d)
    \/ Ask(d) \/ Screen(d) \/ Hydrate(d)
    \/ Price(d) \/ Quote(d) \/ Guess(d)
    \/ Cache(d) \/ AddResult(d)

LEMMA StepChanges ==
    ASSUME NEW d, StepOf(d)
    PROVE  \E task : Become(d, task)
  <1>1. CASE \E p \in Pipelines : TakeCached(d, p) \/ Take(d, p)
    BY <1>1 DEF TakeCached, Take
  <1>2. CASE Connect(d) \/ ConnectUnhealthy(d) \/ ConnectFails(d)
    BY <1>2 DEF Connect, ConnectUnhealthy, ConnectFails
  <1>3. CASE Ask(d) \/ Screen(d) \/ Hydrate(d)
    BY <1>3 DEF Ask, Screen, Hydrate
  <1>4. CASE Price(d) \/ Quote(d) \/ Guess(d) \/ Cache(d) \/ AddResult(d)
    BY <1>4 DEF Price, Quote, Guess, Cache, AddResult
  <1>5. QED
    BY <1>1, <1>2, <1>3, <1>4 DEF StepOf

LEMMA StepsAre ==
    ASSUME Typed, [Next]_vars, NEW d \in Deliveries
    PROVE  tasks'[d] = tasks[d] \/ StepOf(d)
  <1>1. ASSUME NEW e \in Deliveries, StepOf(e), e # d
        PROVE  tasks'[d] = tasks[d]
    <2>1. PICK task : Become(e, task)
      BY <1>1, StepChanges
    <2>2. QED
      BY <1>1, <2>1 DEF Typed, Become
  <1>2. \/ \E e \in Deliveries : StepOf(e)
        \/ Tick \/ UNCHANGED vars
    BY DEF Next, StepOf
  <1>3. QED
    BY <1>1, <1>2 DEF Tick, vars

\* A price that is filled in is one that another result of the symbol had, or
\* that a provider gave for it within the last hour; a guess is used when no
\* provider answers, and never remembered (PriceHydrationService).
THEOREM FreshPricesAlways == Spec => FreshPrices
  <1>1. ASSUME Typed, Fresh, [Next]_vars, NEW d \in Deliveries
        PROVE  FreshFor(d)
    <2>1. CASE tasks'[d] = tasks[d]
      BY <2>1, FreshSame
    <2>2. CASE StepOf(d)
      <3>1. CASE Price(d) \/ Quote(d) \/ Guess(d)
        BY <1>1, <3>1, FreshPrice, FreshQuote
      <3>2. CASE ~(Price(d) \/ Quote(d) \/ Guess(d))
        <4>1. \/ tasks[d].step \in {"idle", "connect", "ask", "cached", "store"}
              \/ tasks[d].step = "price" /\ tasks[d].needing = {}
          BY <2>2, <3>2 DEF StepOf, TakeCached, Take, Connect, ConnectUnhealthy, ConnectFails,
                            Ask, Screen, Hydrate, Cache, AddResult
        <4>2. QED
          BY <4>1 DEF FreshFor
      <3>3. QED
        BY <3>1, <3>2
    <2>3. QED
      BY <1>1, <2>1, <2>2, StepsAre
  <1>2. Typed /\ Fresh /\ [Next]_vars =>
           \A d \in Deliveries :
              (tasks[d].step \in {"price", "quote"} /\ tasks[d].needing # {}) =>
                  \A i \in DOMAIN tasks[d].results :
                      \/ tasks'[d].results[i].price = tasks[d].results[i].price
                      \/ FreshlyPriced(d, i)
    BY <1>1 DEF FreshFor
  <1>3. QED
    BY <1>2, FreshAlways, PTL DEF Spec, FreshPrices

----------------------------------------------------------------------------
(* What is added to a job.                                                 *)

\* What every delivery has added of its results.
AddedOf(d) == {tasks[d].results[i] : i \in 1..tasks[d].added}

\* An entry of the hash is a result that a delivery of the job has added, and
\* what has been added has its field.
Listed ==
    /\ \A j \in Jobs : \A f \in DOMAIN hashes[j] :
          \E d \in Deliveries : of[d].job = j /\ hashes[j][f] \in AddedOf(d)
    /\ \A d \in Deliveries : \A r \in AddedOf(d) : DedupField(r) \in DOMAIN hashes[of[d].job]

LEMMA ListedInit == Init => Listed
  <1> SUFFICES ASSUME Init PROVE Listed
    OBVIOUS
  <1>1. DOMAIN <<>> = {}
    BY EmptyIsList
  <1>2. \A j \in Jobs : DOMAIN hashes[j] = {}
    BY <1>1 DEF Init
  <1>3. \A d \in Deliveries : tasks[d].added = 0
    BY DEF Init, Idle
  <1>4. 1..0 = {}
    OBVIOUS
  <1>5. \A d \in Deliveries : AddedOf(d) = {}
    BY <1>3, <1>4 DEF AddedOf
  <1>6. QED
    BY <1>2, <1>5 DEF Listed

LEMMA HydratingAdds ==
    ASSUME NEW task, DOMAIN task = TaskFields, NEW results
    PROVE  Hydrating(task, results).added = task.added
  <1> PICK peers, needing : peers = AlreadyPriced(results) /\ needing = Needing(results)
    OBVIOUS
  <1>1. Hydrating(task, results)
          = [task EXCEPT !.step = "price", !.results = results, !.peers = peers,
                         !.needing = needing]
    BY DEF Hydrating
  <1>2. QED
    BY <1>1 DEF TaskFields

LEMMA PriceNextAdds ==
    ASSUME NEW task, NEW unit, TaskTyped(task, unit), task.needing # {}, NEW price
    PROVE  PriceNext(task, price).added = task.added
  <1> PICK next, m : next = PriceNext(task, price) /\ m = Min(task.needing)
    OBVIOUS
  <1>1. \A f \in TaskFields \ {"step", "needing", "results"} : next[f] = task[f]
    BY PriceNextIs
  <1>2. QED
    BY <1>1 DEF TaskFields

\* Before its results are added, none has been.
LEMMA NoneAdded ==
    ASSUME Typed, NEW d \in Deliveries, StepOf(d), ~AddResult(d)
    PROVE  tasks[d].added = 0 /\ tasks'[d].added = 0 /\ hashes' = hashes
  <1> PICK u : u = UnitOf(d)
    OBVIOUS
  <1> PICK task : task = tasks[d]
    OBVIOUS
  <1>1. TaskTyped(task, u) /\ DOMAIN task = TaskFields
    BY DEF Typed, TaskTyped
  <1>2. task.step \notin {"cached", "store"} /\ hashes' = hashes
    BY DEF StepOf, TakeCached, Take, Connect, ConnectUnhealthy, ConnectFails, Ask, Screen,
           Hydrate, Price, Quote, Guess, Cache
  <1>3. task.added = 0
    BY <1>1, <1>2 DEF TaskTyped, AddedTyped
  <1>4. \E next : Become(d, next) /\ next.added = 0
    <2>1. CASE \E p \in Pipelines : TakeCached(d, p)
      <3>1. PICK p \in Pipelines : TakeCached(d, p)
        BY <2>1
      <3> PICK results, ops : /\ results = cached[u]
                              /\ ops = {<<results[i].protocol, TRUE>> : i \in DOMAIN results}
        OBVIOUS
      <3> PICK next : next = [Idle EXCEPT !.step = "cached", !.pipeline = p, !.results = results,
                                          !.ops = ops]
        OBVIOUS
      <3>2. Become(d, next)
        BY <3>1 DEF TakeCached
      <3>3. next.added = 0
        BY DEF Idle
      <3>4. QED
        BY <3>2, <3>3
    <2>2. CASE \E p \in Pipelines : Take(d, p)
      <3>1. PICK p \in Pipelines : Take(d, p)
        BY <2>2
      <3> PICK next : next = [Idle EXCEPT !.step = "connect", !.pipeline = p]
        OBVIOUS
      <3>2. Become(d, next)
        BY <3>1 DEF Take
      <3>3. next.added = 0
        BY DEF Idle
      <3>4. QED
        BY <3>2, <3>3
    <2>3. CASE \E results : Become(d, Hydrating(task, results))
      BY <1>1, <1>3, <2>3, HydratingAdds
    <2>4. CASE \E price : task.needing # {} /\ Become(d, PriceNext(task, price))
      BY <1>1, <1>3, <2>4, PriceNextAdds
    <2>5. ASSUME NEW next, Become(d, next), next.added = task.added
          PROVE  \E other : Become(d, other) /\ other.added = 0
      BY <1>3, <2>5
    <2>6. CASE Connect(d) \/ ConnectUnhealthy(d) \/ Hydrate(d)
      <3> PICK todo : todo = Sources(task.pipeline, u.chain)
        OBVIOUS
      <3> PICK next : next = [task EXCEPT !.step = "ask", !.todo = todo]
        OBVIOUS
      <3>1. \/ \E results : Become(d, Hydrating(task, results))
            \/ Become(d, next)
        BY <2>6 DEF Connect, ConnectUnhealthy, Hydrate
      <3>2. next.added = task.added
        BY <1>1 DEF TaskFields
      <3>3. QED
        BY <2>3, <2>5, <3>1, <3>2
    <2>7. CASE ConnectFails(d)
      <3> PICK again, failed : /\ again = [task EXCEPT !.attempt = @ + 1]
                               /\ failed = [task EXCEPT !.step = "failed"]
        OBVIOUS
      <3>1. Become(d, again) \/ Become(d, failed)
        BY <2>7 DEF ConnectFails
      <3>2. again.added = task.added /\ failed.added = task.added
        BY <1>1 DEF TaskFields
      <3>3. QED
        BY <2>5, <3>1, <3>2
    <2>8. CASE Ask(d)
      <3>1. PICK failing : Become(d, Asked(task, u, Head(task.todo), failing))
        BY <2>8, AskIs
      <3> PICK next : next = Asked(task, u, Head(task.todo), failing)
        OBVIOUS
      <3> PICK source : source = Head(task.todo)
        OBVIOUS
      <3> PICK reply : reply = Fetch(task.pipeline, source, u, Holdings[u], failing)
        OBVIOUS
      <3>2. next.added = task.added
        BY <1>1, AskedIs DEF Grown
      <3>3. QED
        BY <2>5, <3>1, <3>2
    <2>9. CASE Screen(d)
      <3>1. PICK failing : Become(d, ScreenedBy(task, u, failing))
        BY <2>9, ScreenIs
      <3> PICK next : next = ScreenedBy(task, u, failing)
        OBVIOUS
      <3>2. next.added = task.added
        BY <1>1, ScreenedByIs DEF TaskFields
      <3>3. QED
        BY <2>5, <3>1, <3>2
    <2>10. CASE Price(d) \/ Quote(d) \/ Guess(d)
      <3> PICK next : next = [task EXCEPT !.step = "quote"]
        OBVIOUS
      <3>1. task.needing # {}
        BY <1>1, <2>10 DEF Price, Quote, Guess, TaskTyped
      <3>2. (\E price : Become(d, PriceNext(task, price))) \/ Become(d, next)
        BY <2>10, PriceIs DEF Quote, Guess
      <3>3. next.added = task.added
        BY <1>1 DEF TaskFields
      <3>4. QED
        BY <2>4, <2>5, <3>1, <3>2, <3>3
    <2>11. CASE Cache(d)
      <3> PICK results : results = Kept(task.pipeline, task.results)
        OBVIOUS
      <3> PICK next : next = [task EXCEPT !.step = "store", !.results = results]
        OBVIOUS
      <3>1. Become(d, next)
        BY <2>11, CacheIs
      <3>2. next.added = task.added
        BY <1>1 DEF TaskFields
      <3>3. QED
        BY <2>5, <3>1, <3>2
    <2>12. QED
      BY <2>1, <2>2, <2>6, <2>7, <2>8, <2>9, <2>10, <2>11 DEF StepOf
  <1>5. tasks'[d].added = 0
    BY <1>4 DEF Typed, Become
  <1>6. QED
    BY <1>2, <1>3, <1>5

\* Every step adds a result of one delivery, or nothing.
NothingAdded == hashes' = hashes /\ \A d \in Deliveries : AddedOf(d)' = AddedOf(d)

OneResultAdded(d, r) ==
    /\ Adds(d, r)
    /\ AddedOf(d)' = AddedOf(d) \cup {r}
    /\ \A e \in Deliveries : e # d => AddedOf(e)' = AddedOf(e)

LEMMA AddedBy ==
    ASSUME Typed, NEW d \in Deliveries, AddResult(d), NEW r,
           r = tasks[d].results[tasks[d].added + 1]
    PROVE  OneResultAdded(d, r)
  <1>t. PICK task : task = tasks[d]
    OBVIOUS
  <1>n. PICK n : n = task.added + 1
    OBVIOUS
  <1>1. /\ task.added \in Nat /\ Adds(d, task.results[n]) /\ Become(d, OneAdded(task))
    BY <1>t, <1>n, AddResultIs
  <1>2. DOMAIN task = TaskFields
    BY <1>t DEF Typed, TaskTyped
  <1>3. OneAdded(task).added = n /\ OneAdded(task).results = task.results
    BY <1>2, <1>n, OneAddedIs DEF TaskFields
  <1>4. /\ tasks'[d].added = n /\ tasks'[d].results = task.results
        /\ \A e \in Deliveries : e # d => tasks'[e] = tasks[e]
    BY <1>1, <1>3 DEF Typed, Become
  <1>5. 1..n = (1..task.added) \cup {n}
    BY <1>1, <1>n
  <1>6. r = task.results[n]
    BY <1>t, <1>n
  <1>7. AddedOf(d)' = {task.results[i] : i \in 1..n} /\ AddedOf(d) = {task.results[i] : i \in 1..task.added}
    BY <1>4, <1>t DEF AddedOf
  <1>8. AddedOf(d)' = AddedOf(d) \cup {r}
    BY <1>5, <1>6, <1>7
  <1>9. \A e \in Deliveries : e # d => AddedOf(e)' = AddedOf(e)
    BY <1>4 DEF AddedOf
  <1>10. QED
    BY <1>1, <1>6, <1>8, <1>9 DEF OneResultAdded

LEMMA AddedStep ==
    ASSUME Typed, [Next]_vars
    PROVE  \/ NothingAdded
           \/ \E d \in Deliveries :
                 AddResult(d) /\ OneResultAdded(d, tasks[d].results[tasks[d].added + 1])
  <1>1. CASE \E d \in Deliveries : AddResult(d)
    BY <1>1, AddedBy
  <1>2. ASSUME NEW d \in Deliveries, StepOf(d), ~AddResult(d)
        PROVE  NothingAdded
    <2>1. tasks[d].added = 0 /\ tasks'[d].added = 0 /\ hashes' = hashes
      BY <1>2, NoneAdded
    <2>2. \A e \in Deliveries : e # d => tasks'[e] = tasks[e]
      <3>1. PICK task : Become(d, task)
        BY <1>2, StepChanges
      <3>2. QED
        BY <3>1 DEF Typed, Become
    <2>3. 1..0 = {}
      OBVIOUS
    <2>4. AddedOf(d)' = {} /\ AddedOf(d) = {}
      BY <2>1, <2>3 DEF AddedOf
    <2>5. \A e \in Deliveries : e # d => AddedOf(e)' = AddedOf(e)
      BY <2>2 DEF AddedOf
    <2>6. QED
      BY <2>1, <2>4, <2>5 DEF NothingAdded
  <1>3. CASE Tick \/ UNCHANGED vars
    BY <1>3 DEF Tick, vars, NothingAdded, AddedOf
  <1>4. \/ \E d \in Deliveries : StepOf(d)
        \/ Tick \/ UNCHANGED vars
    BY DEF Next, StepOf
  <1>5. QED
    BY <1>1, <1>2, <1>3, <1>4

LEMMA OfStays == ASSUME [Next]_vars PROVE of' = of
  BY DEF Next, vars, TakeCached, Take, Connect, ConnectUnhealthy, ConnectFails, Ask, Screen,
         Hydrate, Price, Quote, Guess, Cache, AddResult, Tick

LEMMA ListedStep == Typed /\ Listed /\ [Next]_vars => Listed'
  <1> SUFFICES ASSUME Typed, Listed, [Next]_vars PROVE Listed'
    OBVIOUS
  <1>1. of' = of
    BY OfStays
  <1>2. CASE NothingAdded
    BY <1>1, <1>2 DEF NothingAdded, Listed
  <1>3. ASSUME NEW d \in Deliveries, NEW r, OneResultAdded(d, r)
        PROVE  Listed'
    <2> PICK j : j = of[d].job
      OBVIOUS
    <2>f. PICK f : f = DedupField(r)
      OBVIOUS
    <2>0. /\ Adds(d, r)
          /\ AddedOf(d)' = AddedOf(d) \cup {r}
          /\ \A e \in Deliveries : e # d => AddedOf(e)' = AddedOf(e)
      BY <1>3 DEF OneResultAdded
    <2>1. /\ j \in Jobs /\ hashes'[j] = WithResult(hashes[j], r)
          /\ \A k \in Jobs : k # j => hashes'[k] = hashes[k]
      BY <2>0, AddsIs
    <2>2. /\ DOMAIN hashes'[j] = DOMAIN hashes[j] \cup {f} /\ hashes'[j][f] = r
          /\ \A g \in DOMAIN hashes[j] : g # f => hashes'[j][g] = hashes[j][g]
      BY <2>1, <2>f DEF WithResult
    <2>3. \A e \in Deliveries : AddedOf(e) \subseteq AddedOf(e)'
      BY <2>0
    <2>4. ASSUME NEW k \in Jobs, NEW g \in DOMAIN hashes'[k]
          PROVE  \E e \in Deliveries : of[e].job = k /\ hashes'[k][g] \in AddedOf(e)'
      <3>1. CASE k = j /\ g = f
        BY <2>0, <2>2, <3>1
      <3>2. CASE ~(k = j /\ g = f)
        <4>1. g \in DOMAIN hashes[k] /\ hashes'[k][g] = hashes[k][g]
          BY <2>1, <2>2, <2>4, <3>2
        <4>2. PICK e \in Deliveries : of[e].job = k /\ hashes[k][g] \in AddedOf(e)
          BY <4>1 DEF Listed
        <4>3. QED
          BY <2>3, <4>1, <4>2
      <3>3. QED
        BY <3>1, <3>2
    <2>5. ASSUME NEW e \in Deliveries, NEW a \in AddedOf(e)'
          PROVE  DedupField(a) \in DOMAIN hashes'[of[e].job]
      <3>1. CASE e = d /\ a = r
        BY <2>f, <2>2, <3>1
      <3>2. CASE ~(e = d /\ a = r)
        <4>1. a \in AddedOf(e)
          BY <2>0, <2>5, <3>2
        <4>2. DedupField(a) \in DOMAIN hashes[of[e].job] /\ of[e].job \in Jobs
          BY <4>1, UnitIs DEF Listed
        <4>3. QED
          BY <2>1, <2>2, <4>2
      <3>3. QED
        BY <3>1, <3>2
    <2>6. QED
      BY <1>1, <2>4, <2>5 DEF Listed
  <1>4. QED
    BY <1>2, <1>3, AddedStep

LEMMA ListedAlways == Spec => [](Typed /\ Listed)
  <1>1. Init => Typed /\ Listed
    BY TypedInit, ListedInit
  <1>2. Typed /\ Listed /\ [Next]_vars => (Typed /\ Listed)'
    BY TypedStep, ListedStep
  <1>3. QED
    BY <1>1, <1>2, PTL DEF Spec

----------------------------------------------------------------------------
(* What a poll shows.                                                      *)

\* Results of one holding are shown as one.
LEMMA SameHoldingShown ==
    ASSUME NEW a, NEW b, HoldingOf(a) = HoldingOf(b)
    PROVE  /\ GroupKey(a) = GroupKey(b) /\ Identity(a) = Identity(b)
           /\ DedupField(a) = DedupField(b)
  <1>1. /\ a.account = b.account /\ a.chain = b.chain /\ a.protocol = b.protocol
        /\ a.type = b.type /\ a.position = b.position /\ a.token = b.token /\ a.label = b.label
    BY DEF HoldingOf
  <1>2. GroupKey(a) = GroupKey(b)
    BY <1>1 DEF GroupKey
  <1>3. Identity(a) = Identity(b) /\ DedupField(a) = DedupField(b)
    BY <1>1 DEF Identity, DedupField
  <1>4. QED
    BY <1>2, <1>3

LEMMA SameFieldHolding ==
    ASSUME NEW a, NEW b, DedupField(a) = DedupField(b)
    PROVE  HoldingOf(a) = HoldingOf(b)
  <1>1. /\ a.account = b.account /\ a.chain = b.chain /\ a.protocol = b.protocol
        /\ a.type = b.type /\ a.position = b.position /\ a.token = b.token /\ a.label = b.label
    BY DEF DedupField
  <1>2. QED
    BY <1>1 DEF HoldingOf

\* Whatever is overwritten, it is by the same holding.
Overwrites(new, old) ==
    /\ IsFiniteSet(DOMAIN new)
    /\ \A f \in DOMAIN old : f \in DOMAIN new /\ HoldingOf(new[f]) = HoldingOf(old[f])

LEMMA HashOverwrites ==
    ASSUME Typed, [Next]_vars, NEW j \in Jobs
    PROVE  Overwrites(hashes'[j], hashes[j])
  <1> PICK old, new : old = hashes[j] /\ new = hashes'[j]
    OBVIOUS
  <1>1. Typed'
    BY TypedStep
  <1>2. /\ \A f \in DOMAIN old : f = DedupField(old[f])
        /\ \A f \in DOMAIN new : f = DedupField(new[f])
        /\ IsFiniteSet(DOMAIN new)
    <2>1. JobHash(old, j)
      BY DEF Typed
    <2>2. JobHash(hashes[j], j)'
      BY <1>1 DEF Typed
    <2>3. QED
      BY <2>1, <2>2 DEF JobHash
  <1>3. DOMAIN old \subseteq DOMAIN new
    <2>1. CASE NothingAdded
      BY <2>1 DEF NothingAdded
    <2>2. ASSUME NEW d \in Deliveries, NEW r, OneResultAdded(d, r)
          PROVE  DOMAIN old \subseteq DOMAIN new
      <3> PICK k : k = of[d].job
        OBVIOUS
      <3>1. /\ hashes'[k] = WithResult(hashes[k], r)
            /\ \A i \in Jobs : i # k => hashes'[i] = hashes[i]
        BY <2>2, AddsIs DEF OneResultAdded
      <3>2. DOMAIN hashes[k] \subseteq DOMAIN hashes'[k]
        BY <3>1 DEF WithResult
      <3>3. QED
        BY <3>1, <3>2
    <2>3. QED
      BY <2>1, <2>2, AddedStep
  <1>4. \A f \in DOMAIN old : HoldingOf(new[f]) = HoldingOf(old[f])
    <2>1. ASSUME NEW f \in DOMAIN old
          PROVE  HoldingOf(new[f]) = HoldingOf(old[f])
      <3>1. DedupField(new[f]) = DedupField(old[f])
        BY <1>2, <1>3
      <3>2. QED
        BY <3>1, SameFieldHolding
    <2>2. QED
      BY <2>1
  <1>5. QED
    BY <1>2, <1>3, <1>4 DEF Overwrites

\* The tokens of an item are those of the results that it is made of.
TokenOf(r) == <<r.token, TokenType(r)>>

LEMMA KeyHasType ==
    ASSUME NEW r
    PROVE  GroupKey(r)[3] = r.type
  BY DEF GroupKey

LEMMA SameToken ==
    ASSUME NEW a, NEW b, GroupKey(a) = GroupKey(b), Identity(a) = Identity(b)
    PROVE  TokenOf(a) = TokenOf(b)
  <1>1. a.type = b.type
    BY KeyHasType
  <1>2. a.token = b.token /\ a.label = b.label
    BY DEF Identity
  <1>3. QED
    BY <1>1, <1>2 DEF TokenOf, TokenType

LEMMA ShownIs ==
    ASSUME NEW group, NEW item \in ItemsOf(group)
    PROVE  \E kept \in Deduped(group) :
              /\ kept \subseteq DOMAIN group
              /\ Shown(item) = {TokenOf(group[f]) : f \in kept}
  <1>1. PICK kept \in Deduped(group) : \E first : item = ItemOf(Restrict(group, kept), first)
    BY DEF ItemsOf
  <1>2. PICK first : item = ItemOf(Restrict(group, kept), first)
    BY <1>1
  <1>3. kept \subseteq DOMAIN group
    BY DEF Deduped, kSubset
  <1> PICK part : part = Restrict(group, kept)
    OBVIOUS
  <1>4. DOMAIN part = kept /\ \A f \in kept : part[f] = group[f]
    BY DEF Restrict
  <1>5. item.tokens = [f \in DOMAIN part |-> ShownToken(part[f])]
    BY <1>2 DEF ItemOf
  <1> PICK tokens : tokens = item.tokens
    OBVIOUS
  <1>6. DOMAIN tokens = kept /\ \A f \in kept : tokens[f] = ShownToken(group[f])
    BY <1>4, <1>5
  <1>7. \A r : <<ShownToken(r).token, ShownToken(r).type>> = TokenOf(r)
    BY DEF ShownToken, TokenOf
  <1>8. \A f \in kept : <<tokens[f].token, tokens[f].type>> = TokenOf(group[f])
    BY <1>6, <1>7
  <1>9. Shown(item) = {<<tokens[f].token, tokens[f].type>> : f \in kept}
    BY <1>6 DEF Shown
  <1>10. Shown(item) = {TokenOf(group[f]) : f \in kept}
    BY <1>8, <1>9
  <1>11. QED
    BY <1>3, <1>10

\* Each result of a group is among those kept, or the same as one that is.
LEMMA KeptForEach ==
    ASSUME NEW group, NEW kept \in Deduped(group), NEW f \in DOMAIN group
    PROVE  \E g \in kept : g \in DOMAIN group /\ Identity(group[g]) = Identity(group[f])
  <1> PICK part : part = Restrict(group, kept)
    OBVIOUS
  <1>1. Identities(part) = Identities(group) /\ kept \subseteq DOMAIN group
    BY DEF Deduped, kSubset
  <1>2. DOMAIN part = kept /\ \A g \in kept : part[g] = group[g]
    BY DEF Restrict
  <1>3. Identity(group[f]) \in Identities(part)
    BY <1>1 DEF Identities
  <1>4. QED
    BY <1>1, <1>2, <1>3 DEF Identities

LEMMA ItemsStay ==
    ASSUME NEW old, NEW new, Overwrites(new, old), NEW key \in DOMAIN Items(old)
    PROVE  /\ key \in DOMAIN Items(new)
           /\ \A x \in Items(old)[key], y \in Items(new)[key] : Shown(x) \subseteq Shown(y)
  <1>g. PICK group : group = GroupOf(old, key)
    OBVIOUS
  <1>n. PICK grown : grown = GroupOf(new, key)
    OBVIOUS
  <1>1. /\ DOMAIN group = {f \in DOMAIN old : GroupKey(old[f]) = key}
        /\ \A f \in DOMAIN group : group[f] = old[f]
    BY ONLY <1>g DEF GroupOf, Restrict
  <1>2. /\ DOMAIN grown = {f \in DOMAIN new : GroupKey(new[f]) = key}
        /\ \A f \in DOMAIN grown : grown[f] = new[f]
    BY ONLY <1>n DEF GroupOf, Restrict
  <1>3. \A f \in DOMAIN old : /\ f \in DOMAIN new
                              /\ GroupKey(new[f]) = GroupKey(old[f])
                              /\ Identity(new[f]) = Identity(old[f])
    BY SameHoldingShown DEF Overwrites
  <1>4. key \in Keys(old) /\ key \in Keys(new)
    <2>1. key \in Keys(old)
      BY DEF Items
    <2>2. QED
      BY <1>3, <2>1 DEF Keys
  <1>5. Items(old)[key] = ItemsOf(group) /\ key \in DOMAIN Items(new)
        /\ Items(new)[key] = ItemsOf(grown)
    BY <1>4, <1>g, <1>n DEF Items
  <1>6. ASSUME NEW x \in ItemsOf(group), NEW y \in ItemsOf(grown)
        PROVE  Shown(x) \subseteq Shown(y)
    <2>1. PICK kept \in Deduped(group) :
             kept \subseteq DOMAIN group /\ Shown(x) = {TokenOf(group[f]) : f \in kept}
      BY <1>6, ShownIs
    <2>2. PICK left \in Deduped(grown) :
             left \subseteq DOMAIN grown /\ Shown(y) = {TokenOf(grown[f]) : f \in left}
      BY <1>6, ShownIs
    <2>3. ASSUME NEW f \in kept
          PROVE  TokenOf(group[f]) \in Shown(y)
      <3>1. /\ f \in DOMAIN group /\ f \in DOMAIN grown
            /\ Identity(grown[f]) = Identity(group[f])
        BY <1>1, <1>2, <1>3, <2>1
      <3>2. PICK g \in left : g \in DOMAIN grown /\ Identity(grown[g]) = Identity(grown[f])
        BY <3>1, KeptForEach
      <3>3. GroupKey(grown[g]) = key /\ GroupKey(group[f]) = key
        BY <1>1, <1>2, <3>1, <3>2
      <3>4. TokenOf(grown[g]) = TokenOf(group[f])
        <4> PICK a, b : a = grown[g] /\ b = group[f]
          OBVIOUS
        <4>1. GroupKey(a) = GroupKey(b) /\ Identity(a) = Identity(b)
          BY <3>1, <3>2, <3>3
        <4>2. TokenOf(a) = TokenOf(b)
          BY ONLY <4>1, SameToken
        <4>3. QED
          BY <4>2
      <3>5. QED
        BY <2>2, <3>4
    <2>4. QED
      BY <2>1, <2>3
  <1>7. QED
    BY <1>5, <1>6

\* What the counters count.
TokensOf(entries) == {<<GroupKey(entries[f]), Identity(entries[f])>> : f \in DOMAIN entries}

CounterOf(token) == SummaryCounter(token[1][1], token[1][3])

LEMMA SummaryIs ==
    ASSUME NEW entries, NEW counted, counted = Summary(entries)
    PROVE  /\ DOMAIN counted = {CounterOf(token) : token \in TokensOf(entries)} \ {None}
           /\ \A c \in DOMAIN counted :
                 counted[c] = Cardinality({token \in TokensOf(entries) : CounterOf(token) = c})
  BY DEF Summary, CounterOf, TokensOf

LEMMA SummaryStays ==
    ASSUME NEW old, NEW new, Overwrites(new, old), NEW c \in DOMAIN Summary(old)
    PROVE  Summary(old)[c] <= Summary(new)[c]
  <1>a. PICK counted : counted = Summary(old)
    OBVIOUS
  <1>b. PICK next : next = Summary(new)
    OBVIOUS
  <1>1. /\ DOMAIN counted = {CounterOf(token) : token \in TokensOf(old)} \ {None}
        /\ \A x \in DOMAIN counted :
              counted[x] = Cardinality({token \in TokensOf(old) : CounterOf(token) = x})
    BY ONLY <1>a, SummaryIs
  <1>2. /\ DOMAIN next = {CounterOf(token) : token \in TokensOf(new)} \ {None}
        /\ \A x \in DOMAIN next :
              next[x] = Cardinality({token \in TokensOf(new) : CounterOf(token) = x})
    BY ONLY <1>b, SummaryIs
  <1>3. TokensOf(old) \subseteq TokensOf(new)
    <2>1. ASSUME NEW f \in DOMAIN old
          PROVE  <<GroupKey(old[f]), Identity(old[f])>> \in TokensOf(new)
      <3>1. f \in DOMAIN new /\ HoldingOf(new[f]) = HoldingOf(old[f])
        BY DEF Overwrites
      <3>2. GroupKey(new[f]) = GroupKey(old[f]) /\ Identity(new[f]) = Identity(old[f])
        BY <3>1, SameHoldingShown
      <3>3. QED
        BY <3>1, <3>2 DEF TokensOf
    <2>2. QED
      BY <2>1 DEF TokensOf
  <1>4. c \in DOMAIN next
    BY <1>1, <1>2, <1>3, <1>a
  <1> PICK S : S = {token \in TokensOf(old) : CounterOf(token) = c}
    OBVIOUS
  <1> PICK T : T = {token \in TokensOf(new) : CounterOf(token) = c}
    OBVIOUS
  <1>5. counted[c] = Cardinality(S) /\ next[c] = Cardinality(T)
    BY <1>1, <1>2, <1>4, <1>a
  <1>6. IsFiniteSet(TokensOf(new))
    <2> DEFINE g == [f \in DOMAIN new |-> <<GroupKey(new[f]), Identity(new[f])>>]
    <2>1. g \in Surjection(DOMAIN new, TokensOf(new))
      BY DEF Surjection, TokensOf
    <2>2. IsFiniteSet(DOMAIN new)
      BY DEF Overwrites
    <2> HIDE DEF g
    <2>3. QED
      BY <2>1, <2>2, FS_Surjection
  <1>7. S \subseteq T /\ T \subseteq TokensOf(new)
    BY <1>3
  <1>8. IsFiniteSet(T)
    BY <1>6, <1>7, FS_Subset
  <1>9. Cardinality(S) <= Cardinality(T)
    <2>1. S \in SUBSET T
      BY <1>7
    <2>2. QED
      BY <1>8, <2>1, FS_Subset
  <1>10. QED
    BY <1>5, <1>9, <1>a, <1>b

LEMMA AddedInDomain ==
    ASSUME Typed, NEW d \in Deliveries, NEW i \in 1..tasks[d].added
    PROVE  i \in DOMAIN tasks[d].results
  <1>1. TaskTyped(tasks[d], UnitOf(d))
    BY DEF Typed
  <1>2. DOMAIN tasks[d].results = 1..Len(tasks[d].results) /\ Len(tasks[d].results) \in Nat
    BY <1>1, ListIs DEF TaskTyped, Owned
  <1>3. QED
    BY <1>1, <1>2 DEF TaskTyped, AddedTyped

\* What is overwritten has been found again.
LEMMA FoundAgain ==
    ASSUME Typed, Listed, [Next]_vars, NEW j \in Jobs, NEW f \in DOMAIN hashes[j],
           hashes'[j][f] # hashes[j][f]
    PROVE  ~FoundOnce(j, HoldingOf(hashes[j][f]))
  <1>1. PICK d \in Deliveries :
           AddResult(d) /\ OneResultAdded(d, tasks[d].results[tasks[d].added + 1])
    BY AddedStep DEF NothingAdded
  <1>n. PICK n : n = tasks[d].added + 1
    OBVIOUS
  <1>r. PICK r : r = tasks[d].results[n]
    OBVIOUS
  <1>2. /\ tasks[d].added \in Nat /\ n \in DOMAIN tasks[d].results /\ Adds(d, r)
    BY <1>1, <1>n, <1>r, AddResultIs
  <1>k. PICK k : k = of[d].job
    OBVIOUS
  <1>3. /\ hashes'[k] = WithResult(hashes[k], r)
        /\ \A i \in Jobs : i # k => hashes'[i] = hashes[i]
    BY <1>2, <1>k, AddsIs
  <1>4. k = j
    BY <1>3
  <1>5. f = DedupField(r)
    BY <1>3, <1>4 DEF WithResult
  <1>old. PICK old : old = hashes[j][f]
    OBVIOUS
  <1>6. f = DedupField(old)
    BY <1>old DEF Typed, JobHash
  <1>7. HoldingOf(r) = HoldingOf(old)
    BY <1>5, <1>6, SameFieldHolding
  <1>8. PICK e \in Deliveries : of[e].job = j /\ old \in AddedOf(e)
    BY <1>old DEF Listed
  <1>9. PICK i \in 1..tasks[e].added : old = tasks[e].results[i]
    BY <1>8 DEF AddedOf
  <1>10. i \in DOMAIN tasks[e].results
    BY AddedInDomain
  <1>11. ~(d = e /\ n = i)
    BY <1>2, <1>9, <1>n
  <1>h. PICK h : h = HoldingOf(old)
    OBVIOUS
  <1>12. <<d, n>> \in Finds(j, h) /\ <<e, i>> \in Finds(j, h)
    BY <1>2, <1>4, <1>7, <1>8, <1>9, <1>10, <1>k, <1>r, <1>h DEF Finds
  <1>13. <<d, n>> # <<e, i>>
    BY <1>11
  <1>14. ~FoundOnce(j, h)
    BY <1>12, <1>13 DEF FoundOnce
  <1>15. QED
    BY <1>14, <1>h, <1>old

\* What a poll has shown of a job stays while more results come in, also those
\* of a message that is delivered again: in whatever order the hash is listed,
\* no token of an item goes away, no counter of the summary goes down, and an
\* amount or a price is replaced only when the job has found the holding again
\* (add_result, dedupe_group_results, update_summary).
THEOREM ShownStaysShownAlways == Spec => ShownStaysShown
  <1>1. ASSUME Typed, Listed, [Next]_vars, NEW j \in Jobs
        PROVE  LET before == Items(hashes[j])
                   after == Items(hashes'[j])
                   counted == Summary(hashes[j])
                   next == Summary(hashes'[j])
               IN  /\ \A key \in DOMAIN before :
                         /\ key \in DOMAIN after
                         /\ \A x \in before[key], y \in after[key] : Shown(x) \subseteq Shown(y)
                   /\ \A c \in DOMAIN counted : counted[c] <= next[c]
                   /\ \A f \in DOMAIN hashes[j] :
                         \/ hashes'[j][f] = hashes[j][f]
                         \/ ~FoundOnce(j, HoldingOf(hashes[j][f]))
    <2> PICK old, new : old = hashes[j] /\ new = hashes'[j]
      OBVIOUS
    <2>1. Overwrites(new, old)
      BY <1>1, HashOverwrites
    <2>2. \A key \in DOMAIN Items(old) :
             /\ key \in DOMAIN Items(new)
             /\ \A x \in Items(old)[key], y \in Items(new)[key] : Shown(x) \subseteq Shown(y)
      BY <2>1, ItemsStay
    <2>3. \A c \in DOMAIN Summary(old) : Summary(old)[c] <= Summary(new)[c]
      BY <2>1, SummaryStays
    <2>4. \A f \in DOMAIN hashes[j] : hashes'[j][f] = hashes[j][f]
                                       \/ ~FoundOnce(j, HoldingOf(hashes[j][f]))
      BY <1>1, FoundAgain
    <2>5. QED
      BY <2>2, <2>3, <2>4
  <1>2. Typed /\ Listed /\ [Next]_vars =>
           \A j \in {k \in Jobs : hashes'[k] # hashes[k]} :
              LET before == Items(hashes[j])
                  after == Items(hashes'[j])
                  counted == Summary(hashes[j])
                  next == Summary(hashes'[j])
              IN  /\ \A key \in DOMAIN before :
                        /\ key \in DOMAIN after
                        /\ \A x \in before[key], y \in after[key] : Shown(x) \subseteq Shown(y)
                  /\ \A c \in DOMAIN counted : counted[c] <= next[c]
                  /\ \A f \in DOMAIN hashes[j] :
                        \/ hashes'[j][f] = hashes[j][f]
                        \/ ~FoundOnce(j, HoldingOf(hashes[j][f]))
    BY <1>1
  <1>3. QED
    BY <1>2, ListedAlways, PTL DEF Spec, ShownStaysShown

----------------------------------------------------------------------------
(* What fails of one source costs nothing of another.                      *)

Holds(list, whole) ==
    \A i \in DOMAIN whole : \E k \in DOMAIN list : SameHolding(list[k], whole[i])

UntouchedBy(task, unit, source) ==
    Calls(task.pipeline, source, unit.chain, Holdings[unit]) \cap task.lost = {}

Whole(task, unit, source) == Fetch(task.pipeline, source, unit, Holdings[unit], {}).results

\* A source that got every answer is a success, and a list has all it holds.
DoneIn(task, unit, source, list) ==
    UntouchedBy(task, unit, source) =>
        <<source, TRUE>> \in task.ops /\ Holds(list, Whole(task, unit, source))

FailuresOwn(task, unit) ==
    \A source : <<source, FALSE>> \in task.ops => ~UntouchedBy(task, unit, source)

Planned(task, unit) == Range(Sources(task.pipeline, unit.chain))

ScreenedFor(task, unit) ==
    Range(AfterScreening(unit.chain, Reply(Holdings[unit], "screen", task.lost)))

SourcesFrom(task, unit) ==
    IF "nfts" \in Planned(task, unit)
    THEN (Planned(task, unit) \ {"nfts"}) \cup ScreenedFor(task, unit)
    ELSE Planned(task, unit)

\* While sources are being asked: each one is still to come, or done.
ToCome(task, unit, source) == source \in Range(task.todo) \/ DoneIn(task, unit, source, task.results)

AskedSoFar(task, unit) ==
    /\ \A source \in Planned(task, unit) \ {"nfts"} : ToCome(task, unit, source)
    /\ "nfts" \in Range(task.todo) => <<"screen">> \notin task.lost
    /\ "nfts" \in Planned(task, unit) /\ "nfts" \notin Range(task.todo) =>
          \A source \in ScreenedFor(task, unit) : ToCome(task, unit, source)
    /\ FailuresOwn(task, unit)

Finished(task, unit, list) ==
    /\ \A source \in SourcesFrom(task, unit) : DoneIn(task, unit, source, list)
    /\ FailuresOwn(task, unit)

\* The invariant, of a task.
Contained(task, unit) ==
    /\ task.step = "connect" => task.ops = {} /\ task.lost = {}
    /\ task.step = "ask" => AskedSoFar(task, unit)
    /\ task.step \in {"price", "quote", "store"} /\ task.ops # {} =>
          Finished(task, unit, task.results)

LEMMA HoldsMore ==
    ASSUME NEW list, NEW more, NEW whole, Holds(list, whole),
           \A k \in DOMAIN list : \E n \in DOMAIN more : more[n] = list[k]
    PROVE  Holds(more, whole)
  BY DEF Holds

LEMMA SameIsSame == \A a : SameHolding(a, a)
  BY DEF SameHolding

\* A result that needs a price is the same holding with one.
LEMMA SamePriced ==
    ASSUME NEW r, DOMAIN r = ResultFields, r.price \in Int, r.price <= 0, NEW price, NEW b,
           SameHolding(r, b)
    PROVE  SameHolding(RePriced(r, price), b)
  <1>1. [RePriced(r, price) EXCEPT !.price = 0, !.value = 0] = [r EXCEPT !.price = 0, !.value = 0]
    BY DEF RePriced
  <1>2. ~(b.price > 0)
    <2>1. ASSUME b.price > 0 PROVE FALSE
      <3>1. r.price = b.price
        BY <2>1 DEF SameHolding
      <3>2. QED
        BY <2>1, <3>1
    <2>2. QED
      BY <2>1
  <1>3. QED
    BY <1>1, <1>2 DEF SameHolding

LEMMA HoldsPriced ==
    ASSUME NEW task, NEW unit, TaskTyped(task, unit), task.needing # {}, NEW price, NEW next,
           next = PriceNext(task, price), NEW whole, Holds(task.results, whole)
    PROVE  Holds(next.results, whole)
  <1>m. PICK m : m = Min(task.needing)
    OBVIOUS
  <1>1. /\ m \in task.needing /\ m \in DOMAIN task.results
        /\ IsList(next.results) /\ DOMAIN next.results = DOMAIN task.results
        /\ \A k \in DOMAIN task.results : k # m => next.results[k] = task.results[k]
        /\ next.results[m] = RePriced(task.results[m], price)
        /\ DOMAIN task.results[m] = ResultFields
    BY <1>m, PriceNextIs
  <1>2. task.results[m].price \in Int /\ task.results[m].price <= 0
    BY <1>1 DEF TaskTyped
  <1>r. PICK r : r = task.results[m]
    OBVIOUS
  <1>3. \A b : SameHolding(r, b) => SameHolding(RePriced(r, price), b)
    <2>1. DOMAIN r = ResultFields /\ r.price \in Int /\ r.price <= 0
      BY <1>1, <1>2, <1>r
    <2>2. QED
      BY ONLY <2>1, SamePriced
  <1>4. ASSUME NEW i \in DOMAIN whole
        PROVE  \E k \in DOMAIN next.results : SameHolding(next.results[k], whole[i])
    <2>1. PICK k \in DOMAIN task.results : SameHolding(task.results[k], whole[i])
      BY DEF Holds
    <2>2. CASE k = m
      <3>1. SameHolding(RePriced(r, price), whole[i])
        BY <1>3, <1>r, <2>1, <2>2
      <3>2. QED
        BY <1>1, <1>r, <3>1
    <2>3. CASE k # m
      <3>1. next.results[k] = task.results[k] /\ k \in DOMAIN next.results
        BY <1>1, <2>3
      <3>2. QED
        BY <2>1, <3>1
    <2>4. QED
      BY <2>2, <2>3
  <1>5. QED
    BY <1>4 DEF Holds

\* What is filtered out is nothing that a source gave.
LEMMA HoldsKept ==
    ASSUME NEW pipeline, NEW results, NEW unit, Owned(results, unit), NEW whole,
           AllFetched(whole, unit), Holds(results, whole)
    PROVE  Holds(Kept(pipeline, results), whole)
  <1>1. ASSUME NEW r, NEW b, IsFetched(b, unit), HasOwner(r, unit), SameHolding(r, b)
        PROVE  ~IsSpam(pipeline, r)
    <2>1. DOMAIN r = ResultFields /\ DOMAIN b = ResultFields /\ b.price \in Int
      BY <1>1 DEF IsFetched, HasOwner
    <2>2. r.protocol = b.protocol /\ r.chain = b.chain
      <3>1. [r EXCEPT !.price = 0, !.value = 0].protocol = [b EXCEPT !.price = 0, !.value = 0].protocol
            /\ [r EXCEPT !.price = 0, !.value = 0].chain = [b EXCEPT !.price = 0, !.value = 0].chain
        BY <1>1 DEF SameHolding
      <3>2. QED
        BY <2>1, <3>1 DEF ResultFields
    <2>3. CASE r.protocol = "wallet" /\ r.chain # "solana"
      <3>1. b.price > 0
        BY <1>1, <2>2, <2>3 DEF IsFetched
      <3>2. r.price = b.price
        BY <1>1, <3>1 DEF SameHolding
      <3>3. ~(r.price <= 0)
        BY <2>1, <3>1, <3>2
      <3>4. QED
        BY <3>3 DEF IsSpam
    <2>4. CASE ~(r.protocol = "wallet" /\ r.chain # "solana")
      BY <2>4 DEF IsSpam
    <2>5. QED
      BY <2>3, <2>4
  <1>k. PICK keep : keep = {i \in DOMAIN results : ~IsSpam(pipeline, results[i])}
    OBVIOUS
  <1>c. PICK c : c = Chosen(results, keep)
    OBVIOUS
  <1>2. IsList(results)
    BY DEF Owned
  <1>3. \A i \in DOMAIN results : i \in keep => \E k \in DOMAIN c : c[k] = results[i]
    BY ONLY <1>2, <1>c, ChosenIs
  <1>4. ASSUME NEW i \in DOMAIN whole
        PROVE  \E k \in DOMAIN c : SameHolding(c[k], whole[i])
    <2>1. PICK n \in DOMAIN results : SameHolding(results[n], whole[i])
      BY DEF Holds
    <2>2. IsFetched(whole[i], unit) /\ HasOwner(results[n], unit)
      BY DEF AllFetched, Owned
    <2>3. n \in keep
      BY <1>1, <1>k, <2>1, <2>2
    <2>4. PICK k \in DOMAIN c : c[k] = results[n]
      BY <1>3, <2>3
    <2>5. QED
      BY <2>1, <2>4
  <1>5. Kept(pipeline, results) = c
    BY <1>c, <1>k DEF Kept
  <1>6. QED
    BY <1>4, <1>5 DEF Holds

\* What is done stays done.
LEMMA DoneStays ==
    ASSUME NEW task, NEW next, NEW unit, NEW source, NEW list, NEW more,
           DoneIn(task, unit, source, list), next.pipeline = task.pipeline,
           task.ops \subseteq next.ops, task.lost \subseteq next.lost,
           \A whole : Holds(list, whole) => Holds(more, whole)
    PROVE  DoneIn(next, unit, source, more)
  <1>1. UntouchedBy(next, unit, source) => UntouchedBy(task, unit, source)
    BY DEF UntouchedBy
  <1>2. Whole(next, unit, source) = Whole(task, unit, source)
    BY DEF Whole
  <1>3. QED
    BY <1>1, <1>2 DEF DoneIn

\* The screening of NFTs is a call of no other source.
LEMMA ScreeningApart ==
    ASSUME NEW pipeline, NEW chain, NEW h, NEW source \in SourcesFor(chain)
    PROVE  <<"screen">> \notin Calls(pipeline, source, chain, h)
  <1>1. \A call, i : <<"screen">> # <<call, i>>
    OBVIOUS
  <1>2. \A i, k : <<"screen">> # <<"decimals", i, k>>
    OBVIOUS
  <1>3. CASE source \in {"native", "aave-v3", "uniswap-v3", "pendle", "pendle-ve"}
    <2>1. /\ source = "native" => Calls(pipeline, source, chain, h) = {<<"native">>, <<"gas">>}
          /\ source = "aave-v3" => Calls(pipeline, source, chain, h)
                                      = {<<"supplies">>, <<"borrows">>, <<"history">>}
          /\ source = "uniswap-v3" => Calls(pipeline, source, chain, h) = {<<"positions">>}
          /\ source = "pendle" => Calls(pipeline, source, chain, h)
                                     = {<<"pendle">>, <<"lock">>, <<"power">>}
          /\ source = "pendle-ve" => Calls(pipeline, source, chain, h) = {<<"lock">>, <<"power">>}
      BY DEF Calls
    <2>2. QED
      BY <1>3, <2>1
  <1>4. CASE source = "moralis"
    <2>1. Calls(pipeline, source, chain, h) \subseteq
             {<<"tokens">>} \cup {<<"quote", i>> : i \in DOMAIN h.tokens}
      BY <1>4 DEF Calls
    <2>2. QED
      BY <1>1, <2>1
  <1>5. CASE source = "kamino"
    <2>1. Calls(pipeline, source, chain, h)
             = {"obligations", "reserves", "snapshots"} \X (DOMAIN h.markets)
      BY <1>5 DEF Calls
    <2>2. QED
      BY <1>1, <2>1
  <1>6. CASE source = "raydium"
    <2>1. Calls(pipeline, source, chain, h)
             = {<<"mints">>} \cup ({"clmm", "prices", "created"} \X (DOMAIN h.nfts))
                             \cup ({"decimals"} \X (DOMAIN h.nfts) \X {1, 2})
      BY <1>6 DEF Calls
    <2>2. QED
      BY <1>1, <1>2, <2>1
  <1>7. QED
    BY <1>3, <1>4, <1>5, <1>6 DEF SourcesFor

\* What is so of a task when a source has been asked.
WithSource(task, next, unit, source) ==
    /\ DoneIn(next, unit, source, next.results)
    /\ <<source, FALSE>> \in next.ops =>
          <<source, FALSE>> \in task.ops \/ ~UntouchedBy(next, unit, source)
    /\ \A other : other # source =>
          (<<other, FALSE>> \in next.ops <=> <<other, FALSE>> \in task.ops)
    /\ \A whole : Holds(task.results, whole) => Holds(next.results, whole)

\* A source that has been asked is done, in that all it holds is added.
LEMMA AskedIsDone ==
    ASSUME NEW task, NEW unit \in Units, TaskTyped(task, unit), task.step = "ask",
           NEW source \in SourcesFor(unit.chain), NEW failing,
           failing \subseteq Calls(task.pipeline, source, unit.chain, Holdings[unit]),
           NEW next, next = Asked(task, unit, source, failing)
    PROVE  WithSource(task, next, unit, source)
  <1> PICK reply : reply = Fetch(task.pipeline, source, unit, Holdings[unit], failing)
    OBVIOUS
  <1>0. DOMAIN task = TaskFields /\ AllFetched(task.results, unit)
    BY DEF TaskTyped
  <1>1. /\ Grown(task, next, reply.results) /\ next.ops = task.ops \cup {<<source, reply.ok>>}
        /\ next.lost = task.lost \cup failing
    BY <1>0, AskedIs
  <1>2. next.pipeline = task.pipeline /\ Joins(next.results, task.results, reply.results)
    BY <1>1 DEF Grown
  <1>3. IsReply(reply, unit) /\ (failing = {} => reply.ok)
    BY FetchReplies
  <1>4. reply.ok \in BOOLEAN /\ AllFetched(reply.results, unit)
    BY <1>3 DEF IsReply
  <1>5. UntouchedBy(next, unit, source) => failing = {}
    BY <1>1, <1>2 DEF UntouchedBy
  <1> PICK old, added, new : old = task.results /\ added = reply.results /\ new = next.results
    OBVIOUS
  <1>6. /\ IsList(new)
        /\ \A i \in DOMAIN old : i \in DOMAIN new /\ new[i] = old[i]
        /\ \A i \in DOMAIN added : Len(old) + i \in DOMAIN new /\ new[Len(old) + i] = added[i]
    <2>1. IsList(old) /\ IsList(added) /\ Joins(new, old, added)
      BY <1>0, <1>2, <1>4 DEF AllFetched
    <2>2. QED
      BY <2>1, ConcatIs
  <1>7. Holds(new, added)
    BY <1>6, SameIsSame DEF Holds
  <1>8. ASSUME UntouchedBy(next, unit, source)
        PROVE  <<source, TRUE>> \in next.ops /\ Holds(next.results, Whole(next, unit, source))
    <2>1. failing = {} /\ reply.ok
      BY <1>3, <1>5, <1>8
    <2>2. reply.ok = TRUE
      BY <1>4, <2>1
    <2>3. Whole(next, unit, source) = added
      BY <1>2, <2>1 DEF Whole
    <2>4. QED
      BY <1>1, <1>7, <2>2, <2>3
  <1>9. DoneIn(next, unit, source, next.results)
    BY <1>8 DEF DoneIn
  <1>10. ~UntouchedBy(next, unit, source) \/ reply.ok = TRUE
    BY <1>3, <1>4, <1>5
  <1>11. ASSUME NEW whole, Holds(task.results, whole) PROVE Holds(next.results, whole)
    <2>1. \A k \in DOMAIN old : \E n \in DOMAIN new : new[n] = old[k]
      BY <1>6
    <2>2. Holds(old, whole)
      BY <1>11
    <2>3. QED
      BY <2>1, <2>2, HoldsMore
  <1>12. \A other : <<other, FALSE>> \in next.ops =>
            <<other, FALSE>> \in task.ops \/ (other = source /\ reply.ok = FALSE)
    BY <1>1
  <1>13. \A other : <<other, FALSE>> \in task.ops => <<other, FALSE>> \in next.ops
    BY <1>1
  <1>14. <<source, FALSE>> \in next.ops =>
            <<source, FALSE>> \in task.ops \/ ~UntouchedBy(next, unit, source)
    BY <1>10, <1>12
  <1>15. \A other : other # source =>
            (<<other, FALSE>> \in next.ops <=> <<other, FALSE>> \in task.ops)
    BY <1>12, <1>13
  <1>16. QED
    BY <1>9, <1>11, <1>14, <1>15 DEF WithSource

LEMMA AskKeeps ==
    ASSUME NEW task, NEW unit \in Units, TaskTyped(task, unit), task.step = "ask",
           task.todo # <<>>, Head(task.todo) # "nfts", AskedSoFar(task, unit), NEW failing,
           failing \subseteq Calls(task.pipeline, Head(task.todo), unit.chain, Holdings[unit]),
           NEW next, next = Asked(task, unit, Head(task.todo), failing)
    PROVE  AskedSoFar(next, unit)
  <1> PICK source : source = Head(task.todo)
    OBVIOUS
  <1>1. DOMAIN task = TaskFields /\ Plan(task.todo, unit.chain)
    BY DEF TaskTyped
  <1>2. source \in SourcesFor(unit.chain) /\ source # "nfts"
    BY <1>1, RestOfPlan
  <1>3. Range(task.todo) = {source} \cup Range(Tail(task.todo))
    BY <1>1, TailIs DEF Plan
  <1>4. /\ next.pipeline = task.pipeline /\ next.todo = Tail(task.todo)
        /\ task.ops \subseteq next.ops /\ next.lost = task.lost \cup failing
    <2> PICK reply : reply = Fetch(task.pipeline, source, unit, Holdings[unit], failing)
      OBVIOUS
    <2>1. /\ Grown(task, next, reply.results) /\ next.todo = Tail(task.todo)
          /\ next.ops = task.ops \cup {<<source, reply.ok>>}
          /\ next.lost = task.lost \cup failing
      BY <1>1, AskedIs
    <2>2. QED
      BY <2>1 DEF Grown
  <1>5. /\ DoneIn(next, unit, source, next.results)
        /\ <<source, FALSE>> \in next.ops =>
              <<source, FALSE>> \in task.ops \/ ~UntouchedBy(next, unit, source)
        /\ \A other : other # source => (<<other, FALSE>> \in next.ops <=> <<other, FALSE>> \in task.ops)
        /\ \A whole : Holds(task.results, whole) => Holds(next.results, whole)
    <2>1. WithSource(task, next, unit, source)
      BY <1>2, AskedIsDone
    <2>2. QED
      BY <2>1 DEF WithSource
  <1>6. \A other : DoneIn(task, unit, other, task.results) => DoneIn(next, unit, other, next.results)
    BY <1>4, <1>5, DoneStays
  <1>7. \A other : ToCome(task, unit, other) => ToCome(next, unit, other)
    BY <1>3, <1>4, <1>5, <1>6 DEF ToCome
  <1>8. <<"screen">> \notin failing
    BY <1>2, ScreeningApart
  <1>9. "nfts" \in Range(next.todo) <=> "nfts" \in Range(task.todo)
    BY <1>2, <1>3, <1>4
  <1>10. Planned(next, unit) = Planned(task, unit) /\ ScreenedFor(next, unit) = ScreenedFor(task, unit)
    BY <1>4, <1>8 DEF Planned, ScreenedFor, Reply
  <1>11. \A other : UntouchedBy(next, unit, other) => UntouchedBy(task, unit, other)
    BY <1>4 DEF UntouchedBy
  <1>12. FailuresOwn(next, unit)
    BY <1>5, <1>11 DEF FailuresOwn, AskedSoFar
  <1>13. QED
    BY <1>4, <1>7, <1>8, <1>9, <1>10, <1>12 DEF AskedSoFar

LEMMA ScreenKeeps ==
    ASSUME NEW task, NEW unit, TaskTyped(task, unit), task.step = "ask",
           task.todo # <<>>, Head(task.todo) = "nfts", AskedSoFar(task, unit), NEW failing,
           NEW next, next = ScreenedBy(task, unit, failing)
    PROVE  AskedSoFar(next, unit)
  <1>1. DOMAIN task = TaskFields /\ Plan(task.todo, unit.chain)
    BY DEF TaskTyped
  <1>2. IsEvm(unit.chain) /\ Tail(task.todo) = <<>>
    BY <1>1, RestOfPlan
  <1>3. Range(task.todo) = {"nfts"}
    <2>1. Range(task.todo) = {"nfts"} \cup Range(Tail(task.todo))
      BY <1>1, TailIs DEF Plan
    <2>2. Range(<<>>) = {}
      BY EmptyIsList DEF Range
    <2>3. QED
      BY <1>2, <2>1, <2>2
  <1> PICK todo : todo = AfterScreening(unit.chain, Reply(Holdings[unit], "screen", failing))
    OBVIOUS
  <1>4. /\ next.todo = todo /\ next.lost = task.lost \cup failing
        /\ next.pipeline = task.pipeline /\ next.results = task.results /\ next.ops = task.ops
    <2>1. /\ next.todo = todo /\ next.lost = task.lost \cup failing
          /\ \A f \in TaskFields \ {"todo", "lost"} : next[f] = task[f]
      BY <1>1, ScreenedByIs
    <2>2. QED
      BY <2>1 DEF TaskFields
  <1>5. <<"screen">> \notin task.lost
    BY <1>3 DEF AskedSoFar
  <1>6. ScreenedFor(next, unit) = Range(next.todo)
    BY <1>4, <1>5 DEF ScreenedFor, Reply
  <1>7. "nfts" \notin Range(next.todo)
    <2>1. KnownSources(todo, unit.chain)
      BY <1>2, ScreeningKnown
    <2>2. "nfts" \notin SourcesFor(unit.chain)
      BY DEF SourcesFor
    <2>3. QED
      BY <1>4, <2>1, <2>2 DEF KnownSources, Range
  <1>8. Planned(next, unit) = Planned(task, unit)
    BY <1>4 DEF Planned
  <1>9. \A source : UntouchedBy(next, unit, source) => UntouchedBy(task, unit, source)
    BY <1>4 DEF UntouchedBy
  <1>10. \A source : DoneIn(task, unit, source, task.results) => DoneIn(next, unit, source, next.results)
    BY <1>4, DoneStays
  <1>11. \A source \in Planned(task, unit) \ {"nfts"} : ToCome(next, unit, source)
    BY <1>3, <1>10 DEF AskedSoFar, ToCome
  <1>12. FailuresOwn(next, unit)
    BY <1>4, <1>9 DEF FailuresOwn, AskedSoFar
  <1>13. QED
    BY <1>6, <1>7, <1>8, <1>11, <1>12 DEF AskedSoFar, ToCome

\* When nothing is left to ask, everything is done.
LEMMA AskedAll ==
    ASSUME NEW task, NEW unit, task.todo = <<>>, AskedSoFar(task, unit)
    PROVE  Finished(task, unit, task.results)
  <1>1. Range(task.todo) = {}
    BY EmptyIsList DEF Range
  <1>2. \A source \in Planned(task, unit) \ {"nfts"} : DoneIn(task, unit, source, task.results)
    BY <1>1 DEF AskedSoFar, ToCome
  <1>3. "nfts" \in Planned(task, unit) =>
           \A source \in ScreenedFor(task, unit) : DoneIn(task, unit, source, task.results)
    BY <1>1 DEF AskedSoFar, ToCome
  <1>4. \A source \in SourcesFrom(task, unit) : DoneIn(task, unit, source, task.results)
    BY <1>2, <1>3 DEF SourcesFrom
  <1>5. FailuresOwn(task, unit)
    BY DEF AskedSoFar
  <1>6. QED
    BY <1>4, <1>5 DEF Finished

\* What is finished stays so while nothing more is asked.
LEMMA FinishedStays ==
    ASSUME NEW task, NEW next, NEW unit, NEW list, NEW more, Finished(task, unit, list),
           next.pipeline = task.pipeline, next.ops = task.ops, next.lost = task.lost,
           \A source \in SourcesFrom(task, unit) :
              Holds(list, Whole(task, unit, source)) => Holds(more, Whole(task, unit, source))
    PROVE  Finished(next, unit, more)
  <1>1. SourcesFrom(next, unit) = SourcesFrom(task, unit)
    BY DEF SourcesFrom, Planned, ScreenedFor
  <1>2. \A source : /\ UntouchedBy(next, unit, source) <=> UntouchedBy(task, unit, source)
                    /\ Whole(next, unit, source) = Whole(task, unit, source)
    BY DEF UntouchedBy, Whole
  <1>3. FailuresOwn(next, unit)
    BY <1>2 DEF FailuresOwn, Finished
  <1>4. \A source \in SourcesFrom(next, unit) : DoneIn(next, unit, source, more)
    BY <1>1, <1>2 DEF DoneIn, Finished
  <1>5. QED
    BY <1>3, <1>4 DEF Finished

LEMMA HydratingIs ==
    ASSUME NEW task, DOMAIN task = TaskFields, NEW results, NEW next,
           next = Hydrating(task, results)
    PROVE  /\ next.step = "price" /\ next.results = results /\ next.pipeline = task.pipeline
           /\ next.ops = task.ops /\ next.lost = task.lost
  <1> PICK peers : peers = AlreadyPriced(results)
    OBVIOUS
  <1> PICK needing : needing = Needing(results)
    OBVIOUS
  <1>1. next = [task EXCEPT !.step = "price", !.results = results, !.peers = peers,
                            !.needing = needing]
    BY DEF Hydrating
  <1>2. QED
    BY <1>1 DEF TaskFields

\* What a step makes of a task.
BecomesContained(d) == \E next : Become(d, next) /\ Contained(next, UnitOf(d))

LEMMA ContainedTaken ==
    ASSUME NEW d, NEW p, TakeCached(d, p) \/ Take(d, p)
    PROVE  BecomesContained(d)
  <1>1. CASE TakeCached(d, p)
    <2> PICK results : results = cached[UnitOf(d)]
      OBVIOUS
    <2> PICK ops : ops = {<<results[i].protocol, TRUE>> : i \in DOMAIN results}
      OBVIOUS
    <2> PICK next : next = [Idle EXCEPT !.step = "cached", !.pipeline = p, !.results = results,
                                        !.ops = ops]
      OBVIOUS
    <2>1. Become(d, next)
      BY <1>1 DEF TakeCached
    <2>2. next.step = "cached"
      BY DEF Idle
    <2>3. Contained(next, UnitOf(d))
      BY <2>2 DEF Contained
    <2>4. QED
      BY <2>1, <2>3 DEF BecomesContained
  <1>2. CASE Take(d, p)
    <2> PICK next : next = [Idle EXCEPT !.step = "connect", !.pipeline = p]
      OBVIOUS
    <2>1. Become(d, next)
      BY <1>2 DEF Take
    <2>2. next.step = "connect" /\ next.ops = {} /\ next.lost = {}
      BY DEF Idle
    <2>3. Contained(next, UnitOf(d))
      BY <2>2 DEF Contained
    <2>4. QED
      BY <2>1, <2>3 DEF BecomesContained
  <1>3. QED
    BY <1>1, <1>2

LEMMA ContainedConnect ==
    ASSUME Typed, NEW d \in Deliveries, Contained(tasks[d], UnitOf(d)),
           Connect(d)
    PROVE  BecomesContained(d)
  <1> PICK u : u = UnitOf(d)
    OBVIOUS
  <1> PICK task : task = tasks[d]
    OBVIOUS
  <1>1. task.step = "connect" /\ TaskTyped(task, u)
    BY DEF Connect, Typed
  <1>2. DOMAIN task = TaskFields /\ task.ops = {} /\ task.lost = {}
    BY <1>1 DEF TaskTyped, Contained
  <1>3. CASE u.chain \in NoNode
    <2> PICK made : made = WithoutNode(task.pipeline, u)
      OBVIOUS
    <2> PICK next : next = Hydrating(task, made)
      OBVIOUS
    <2>1. Become(d, next)
      BY <1>3 DEF Connect
    <2>2. next.step = "price" /\ next.ops = {}
      BY <1>2, HydratingIs
    <2>3. Contained(next, u)
      BY <2>2 DEF Contained
    <2>4. QED
      BY <2>1, <2>3 DEF BecomesContained
  <1>4. CASE u.chain \notin NoNode
    <2> PICK todo : todo = Sources(task.pipeline, u.chain)
      OBVIOUS
    <2> PICK next : next = [task EXCEPT !.step = "ask", !.todo = todo]
      OBVIOUS
    <2>1. Become(d, next)
      BY <1>4 DEF Connect
    <2>2. /\ next.step = "ask" /\ next.todo = todo /\ next.pipeline = task.pipeline
          /\ next.ops = {} /\ next.lost = {}
      BY <1>2 DEF TaskFields
    <2>3. Planned(next, u) = Range(next.todo)
      BY <2>2 DEF Planned
    <2>4. AskedSoFar(next, u)
      BY <2>2, <2>3 DEF AskedSoFar, ToCome, FailuresOwn
    <2>5. Contained(next, u)
      BY <2>2, <2>4 DEF Contained
    <2>6. QED
      BY <2>1, <2>5 DEF BecomesContained
  <1>5. QED
    BY <1>3, <1>4

LEMMA ContainedNoConnection ==
    ASSUME Typed, NEW d \in Deliveries, Contained(tasks[d], UnitOf(d)),
           ConnectUnhealthy(d) \/ ConnectFails(d)
    PROVE  BecomesContained(d)
  <1> PICK u : u = UnitOf(d)
    OBVIOUS
  <1> PICK task : task = tasks[d]
    OBVIOUS
  <1>1. task.step = "connect" /\ TaskTyped(task, u)
    BY DEF ConnectUnhealthy, ConnectFails, Typed
  <1>2. DOMAIN task = TaskFields /\ task.ops = {} /\ task.lost = {}
    BY <1>1 DEF TaskTyped, Contained
  <1>3. CASE ConnectUnhealthy(d)
    <2> PICK next : next = Hydrating(task, <<>>)
      OBVIOUS
    <2>1. Become(d, next)
      BY <1>3 DEF ConnectUnhealthy
    <2>2. next.step = "price" /\ next.ops = {}
      BY <1>2, HydratingIs
    <2>3. Contained(next, u)
      BY <2>2 DEF Contained
    <2>4. QED
      BY <2>1, <2>3 DEF BecomesContained
  <1>4. CASE ConnectFails(d) /\ AnotherAttempt(task.attempt)
    <2> PICK next : next = [task EXCEPT !.attempt = @ + 1]
      OBVIOUS
    <2>1. Become(d, next)
      BY <1>4 DEF ConnectFails
    <2>2. next.step = "connect" /\ next.ops = {} /\ next.lost = {}
      BY <1>1, <1>2 DEF TaskFields
    <2>3. Contained(next, u)
      BY <2>2 DEF Contained
    <2>4. QED
      BY <2>1, <2>3 DEF BecomesContained
  <1>5. CASE ConnectFails(d) /\ ~AnotherAttempt(task.attempt)
    <2> PICK next : next = [task EXCEPT !.step = "failed"]
      OBVIOUS
    <2>1. Become(d, next)
      BY <1>5 DEF ConnectFails
    <2>2. next.step = "failed"
      BY <1>2 DEF TaskFields
    <2>3. Contained(next, u)
      BY <2>2 DEF Contained
    <2>4. QED
      BY <2>1, <2>3 DEF BecomesContained
  <1>6. QED
    BY <1>3, <1>4, <1>5

LEMMA ContainedAsk ==
    ASSUME Typed, NEW d \in Deliveries, Contained(tasks[d], UnitOf(d)), Ask(d)
    PROVE  BecomesContained(d)
  <1> PICK u : u = UnitOf(d)
    OBVIOUS
  <1> PICK task : task = tasks[d]
    OBVIOUS
  <1> PICK calls : calls = Calls(task.pipeline, Head(task.todo), u.chain, Holdings[u])
    OBVIOUS
  <1>1. /\ task.step = "ask" /\ task.todo # <<>> /\ Head(task.todo) # "nfts"
        /\ \E failing \in Failures(calls) :
              Become(d, Asked(task, u, Head(task.todo), failing))
    BY AskIs
  <1>2. PICK failing \in Failures(calls) : Become(d, Asked(task, u, Head(task.todo), failing))
    BY <1>1
  <1> PICK source : source = Head(task.todo)
    OBVIOUS
  <1> PICK next : next = Asked(task, u, source, failing)
    OBVIOUS
  <1>3. TaskTyped(task, u) /\ u \in Units /\ failing \subseteq calls
    BY <1>2, FailureIs, UnitIs DEF Typed
  <1>4. AskedSoFar(task, u)
    BY <1>1 DEF Contained
  <1>5. AskedSoFar(next, u)
    BY <1>1, <1>3, <1>4, AskKeeps
  <1>6. next.step = "ask"
    <2> PICK reply : reply = Fetch(task.pipeline, source, u, Holdings[u], failing)
      OBVIOUS
    <2>1. DOMAIN task = TaskFields
      BY <1>3 DEF TaskTyped
    <2>2. Grown(task, next, reply.results)
      BY <2>1, AskedIs
    <2>3. QED
      BY <1>1, <2>2 DEF Grown
  <1>7. Contained(next, u)
    BY <1>5, <1>6 DEF Contained
  <1>8. QED
    BY <1>2, <1>7 DEF BecomesContained

LEMMA ContainedScreen ==
    ASSUME Typed, NEW d \in Deliveries, Contained(tasks[d], UnitOf(d)), Screen(d)
    PROVE  BecomesContained(d)
  <1> PICK u : u = UnitOf(d)
    OBVIOUS
  <1> PICK task : task = tasks[d]
    OBVIOUS
  <1>1. /\ task.step = "ask" /\ task.todo # <<>> /\ Head(task.todo) = "nfts"
        /\ \E failing \in Failures({<<"screen">>}) : Become(d, ScreenedBy(task, u, failing))
    BY ScreenIs
  <1>2. PICK failing \in Failures({<<"screen">>}) : Become(d, ScreenedBy(task, u, failing))
    BY <1>1
  <1> PICK next : next = ScreenedBy(task, u, failing)
    OBVIOUS
  <1>3. TaskTyped(task, u)
    BY DEF Typed
  <1>4. AskedSoFar(task, u)
    BY <1>1 DEF Contained
  <1>5. AskedSoFar(next, u)
    BY <1>1, <1>3, <1>4, ScreenKeeps
  <1>6. next.step = "ask"
    <2>1. DOMAIN task = TaskFields
      BY <1>3 DEF TaskTyped
    <2>2. \A f \in TaskFields \ {"todo", "lost"} : next[f] = task[f]
      BY <2>1, ScreenedByIs
    <2>3. QED
      BY <1>1, <2>2 DEF TaskFields
  <1>7. Contained(next, u)
    BY <1>5, <1>6 DEF Contained
  <1>8. QED
    BY <1>2, <1>7 DEF BecomesContained

LEMMA ContainedHydrate ==
    ASSUME Typed, NEW d \in Deliveries, Contained(tasks[d], UnitOf(d)), Hydrate(d)
    PROVE  BecomesContained(d)
  <1> PICK u : u = UnitOf(d)
    OBVIOUS
  <1> PICK task : task = tasks[d]
    OBVIOUS
  <1> PICK results : results = task.results
    OBVIOUS
  <1> PICK next : next = Hydrating(task, results)
    OBVIOUS
  <1>1. task.step = "ask" /\ task.todo = <<>> /\ Become(d, next) /\ TaskTyped(task, u)
    BY DEF Hydrate, Typed
  <1>2. DOMAIN task = TaskFields
    BY <1>1 DEF TaskTyped
  <1>3. /\ next.step = "price" /\ next.results = results /\ next.pipeline = task.pipeline
        /\ next.ops = task.ops /\ next.lost = task.lost
    BY <1>2, HydratingIs
  <1>4. Finished(task, u, task.results)
    BY <1>1, AskedAll DEF Contained
  <1>5. Finished(next, u, next.results)
    BY <1>3, <1>4, FinishedStays
  <1>6. Contained(next, u)
    BY <1>3, <1>5 DEF Contained
  <1>7. QED
    BY <1>1, <1>6 DEF BecomesContained

LEMMA ContainedPriced ==
    ASSUME Typed, NEW d \in Deliveries, Contained(tasks[d], UnitOf(d)),
           tasks[d].step \in {"price", "quote"}, tasks[d].needing # {}, NEW price,
           Become(d, PriceNext(tasks[d], price))
    PROVE  BecomesContained(d)
  <1> PICK u : u = UnitOf(d)
    OBVIOUS
  <1> PICK task : task = tasks[d]
    OBVIOUS
  <1> PICK next : next = PriceNext(task, price)
    OBVIOUS
  <1>1. TaskTyped(task, u) /\ task.needing # {}
    BY DEF Typed
  <1>2. next.step = "price" /\ next.pipeline = task.pipeline /\ next.ops = task.ops
        /\ next.lost = task.lost
    <2>1. next.step = "price"
          /\ \A f \in TaskFields \ {"step", "needing", "results"} : next[f] = task[f]
      BY <1>1, PriceNextIs
    <2>2. QED
      BY <2>1 DEF TaskFields
  <1>3. \A whole : Holds(task.results, whole) => Holds(next.results, whole)
    BY <1>1, HoldsPriced
  <1>4. task.ops # {} => Finished(task, u, task.results)
    BY DEF Contained
  <1>5. next.ops # {} => Finished(next, u, next.results)
    BY <1>2, <1>3, <1>4, FinishedStays
  <1>6. Contained(next, u)
    BY <1>2, <1>5 DEF Contained
  <1>7. QED
    BY <1>6 DEF BecomesContained

LEMMA ContainedPricing ==
    ASSUME Typed, NEW d \in Deliveries, Contained(tasks[d], UnitOf(d)),
           Price(d) \/ Quote(d) \/ Guess(d)
    PROVE  BecomesContained(d)
  <1> PICK u : u = UnitOf(d)
    OBVIOUS
  <1> PICK task : task = tasks[d]
    OBVIOUS
  <1>1. TaskTyped(task, u)
    BY DEF Typed
  <1>2. CASE \E price : /\ task.step \in {"price", "quote"} /\ task.needing # {}
                        /\ Become(d, PriceNext(task, price))
    BY <1>2, ContainedPriced
  <1>3. CASE task.step = "price" /\ Become(d, [task EXCEPT !.step = "quote"])
    <2> PICK next : next = [task EXCEPT !.step = "quote"]
      OBVIOUS
    <2>1. DOMAIN task = TaskFields
      BY <1>1 DEF TaskTyped
    <2>2. /\ next.step = "quote" /\ next.pipeline = task.pipeline /\ next.ops = task.ops
          /\ next.lost = task.lost /\ next.results = task.results
      BY <2>1 DEF TaskFields
    <2>3. task.ops # {} => Finished(task, u, task.results)
      BY <1>3 DEF Contained
    <2>4. next.ops # {} => Finished(next, u, next.results)
      BY <2>2, <2>3, FinishedStays
    <2>5. Contained(next, u)
      BY <2>2, <2>4 DEF Contained
    <2>6. QED
      BY <1>3, <2>5 DEF BecomesContained
  <1>4. CASE Price(d)
    <2> PICK key : key = KeyOf(task.results[Min(task.needing)])
      OBVIOUS
    <2> PICK hit : hit = CachedPrice(prices[task.pipeline], key, now)
      OBVIOUS
    <2>1. /\ task.step = "price" /\ task.needing # {}
          /\ \/ key \in DOMAIN task.peers /\ Become(d, PriceNext(task, task.peers[key]))
             \/ hit # None /\ Become(d, PriceNext(task, hit))
             \/ Become(d, [task EXCEPT !.step = "quote"])
      BY <1>4, PriceIs
    <2>2. QED
      BY <1>2, <1>3, <2>1
  <1>5. CASE Quote(d) \/ Guess(d)
    <2>1. task.step = "quote" /\ \E price : Become(d, PriceNext(task, price))
      BY <1>5 DEF Quote, Guess
    <2>2. task.needing # {}
      BY <1>1, <2>1 DEF TaskTyped
    <2>3. QED
      BY <1>2, <2>1, <2>2
  <1>6. QED
    BY <1>4, <1>5

\* The sources of a plan are those of the chain.
LEMMA SourcesFromKnown ==
    ASSUME NEW task, task.pipeline \in Pipelines, NEW unit
    PROVE  SourcesFrom(task, unit) \subseteq SourcesFor(unit.chain)
  <1> PICK todo : todo = Sources(task.pipeline, unit.chain)
    OBVIOUS
  <1> PICK nfts : nfts = Reply(Holdings[unit], "screen", task.lost)
    OBVIOUS
  <1>1. Plan(todo, unit.chain)
    BY SourcesPlan
  <1>2. \A source \in Range(todo) :
           \/ source \in SourcesFor(unit.chain)
           \/ source = "nfts" /\ IsEvm(unit.chain)
    BY <1>1 DEF Plan, Range
  <1>3. IsEvm(unit.chain) => Range(AfterScreening(unit.chain, nfts)) \subseteq SourcesFor(unit.chain)
    BY ScreeningKnown DEF KnownSources, Range
  <1>4. "nfts" \notin SourcesFor(unit.chain)
    BY DEF SourcesFor
  <1>5. /\ Planned(task, unit) = Range(todo)
        /\ ScreenedFor(task, unit) = Range(AfterScreening(unit.chain, nfts))
    BY DEF Planned, ScreenedFor
  <1>6. QED
    BY <1>2, <1>3, <1>4, <1>5 DEF SourcesFrom

LEMMA ContainedCache ==
    ASSUME Typed, NEW d \in Deliveries, Contained(tasks[d], UnitOf(d)), Cache(d)
    PROVE  BecomesContained(d)
  <1> PICK u : u = UnitOf(d)
    OBVIOUS
  <1> PICK task : task = tasks[d]
    OBVIOUS
  <1> PICK results : results = Kept(task.pipeline, task.results)
    OBVIOUS
  <1> PICK next : next = [task EXCEPT !.step = "store", !.results = results]
    OBVIOUS
  <1>1. task.step = "price" /\ Become(d, next)
    BY CacheIs
  <1>2. TaskTyped(task, u) /\ u \in Units
    BY UnitIs DEF Typed
  <1>3. DOMAIN task = TaskFields /\ task.pipeline \in Pipelines /\ Owned(task.results, u)
    BY <1>1, <1>2 DEF TaskTyped
  <1>4. /\ next.step = "store" /\ next.pipeline = task.pipeline /\ next.ops = task.ops
        /\ next.lost = task.lost /\ next.results = results
    BY <1>3 DEF TaskFields
  <1>5. ASSUME NEW source \in SourcesFrom(task, u),
               Holds(task.results, Whole(task, u, source))
        PROVE  Holds(results, Whole(task, u, source))
    <2>1. source \in SourcesFor(u.chain)
      BY <1>3, SourcesFromKnown
    <2> PICK whole : whole = Whole(task, u, source)
      OBVIOUS
    <2>2. AllFetched(whole, u)
      BY <1>2, <2>1, FetchReplies DEF Whole, IsReply
    <2>3. QED
      BY <1>3, <1>5, <2>2, HoldsKept
  <1>6. next.ops # {} => Finished(next, u, results)
    <2>1. SUFFICES ASSUME next.ops # {} PROVE Finished(next, u, results)
      OBVIOUS
    <2> PICK list : list = task.results
      OBVIOUS
    <2>2. Finished(task, u, list)
      BY <1>1, <1>4, <2>1 DEF Contained
    <2>3. \A source \in SourcesFrom(task, u) :
             Holds(list, Whole(task, u, source)) => Holds(results, Whole(task, u, source))
      BY <1>5
    <2>4. next.pipeline = task.pipeline /\ next.ops = task.ops /\ next.lost = task.lost
      BY <1>4
    <2>5. QED
      BY ONLY <2>2, <2>3, <2>4, FinishedStays
  <1>7. Contained(next, u)
    BY <1>4, <1>6 DEF Contained
  <1>8. QED
    BY <1>1, <1>7 DEF BecomesContained

LEMMA ContainedAddResult ==
    ASSUME Typed, NEW d \in Deliveries, Contained(tasks[d], UnitOf(d)), AddResult(d)
    PROVE  BecomesContained(d)
  <1> PICK u : u = UnitOf(d)
    OBVIOUS
  <1> PICK task : task = tasks[d]
    OBVIOUS
  <1> PICK n : n = task.added + 1
    OBVIOUS
  <1> PICK next : next = OneAdded(task)
    OBVIOUS
  <1>1. Become(d, next) /\ task.step \in {"cached", "store"}
    BY AddResultIs
  <1>2. DOMAIN task = TaskFields
    BY DEF Typed, TaskTyped
  <1>3. \A f \in TaskFields \ {"added"} : next[f] = task[f]
    BY <1>2, OneAddedIs
  <1>4. /\ next.step = task.step /\ next.pipeline = task.pipeline /\ next.ops = task.ops
        /\ next.lost = task.lost /\ next.results = task.results
    BY <1>3 DEF TaskFields
  <1>5. task.step = "store" /\ task.ops # {} => Finished(task, u, task.results)
    BY DEF Contained
  <1>6. task.step = "store" /\ next.ops # {} => Finished(next, u, next.results)
    BY <1>4, <1>5, FinishedStays
  <1>7. Contained(next, u)
    BY <1>1, <1>4, <1>6 DEF Contained
  <1>8. QED
    BY <1>1, <1>7 DEF BecomesContained

AllContained == \A d \in Deliveries : Contained(tasks[d], UnitOf(d))

LEMMA ContainedInit == Init => AllContained
  <1> SUFFICES ASSUME Init PROVE AllContained
    OBVIOUS
  <1>1. Idle.step = "idle"
    BY DEF Idle
  <1>2. \A d \in Deliveries : tasks[d].step = "idle"
    BY <1>1 DEF Init
  <1>3. QED
    BY <1>2 DEF AllContained, Contained

LEMMA ContainedOwnStep ==
    ASSUME Typed, NEW d \in Deliveries, StepOf(d), Contained(tasks[d], UnitOf(d))
    PROVE  Contained(tasks'[d], UnitOf(d))
  <1>1. BecomesContained(d)
    BY ContainedTaken, ContainedConnect, ContainedNoConnection, ContainedAsk,
       ContainedScreen, ContainedHydrate, ContainedPricing, ContainedCache,
       ContainedAddResult DEF StepOf
  <1>2. PICK next : Become(d, next) /\ Contained(next, UnitOf(d))
    BY <1>1 DEF BecomesContained
  <1>3. tasks'[d] = next
    BY <1>2 DEF Typed, Become
  <1>4. QED
    BY <1>2, <1>3

LEMMA ContainedStep == Typed /\ AllContained /\ [Next]_vars => AllContained'
  <1> SUFFICES ASSUME Typed, AllContained, [Next]_vars PROVE AllContained'
    OBVIOUS
  <1>1. of' = of
    BY OfStays
  <1>2. ASSUME NEW d \in Deliveries
        PROVE  Contained(tasks'[d], UnitOf(d))
    <2>1. Contained(tasks[d], UnitOf(d))
      BY DEF AllContained
    <2>2. CASE StepOf(d)
      BY <2>1, <2>2, ContainedOwnStep
    <2>3. CASE tasks'[d] = tasks[d]
      BY <2>1, <2>3
    <2>4. QED
      BY <2>2, <2>3, StepsAre
  <1>3. ASSUME NEW d \in Deliveries
        PROVE  Contained(tasks[d], UnitOf(d))'
    <2> PICK u : u = UnitOf(d)
      OBVIOUS
    <2>1. UnitOf(d)' = u
      BY <1>1 DEF UnitOf
    <2>2. Contained(tasks'[d], u)
      BY <1>2
    <2>3. Contained(tasks[d], u)'
      BY <2>2
    <2>4. QED
      BY <2>1, <2>3
  <1>4. QED
    BY <1>3 DEF AllContained

LEMMA ContainedAlways == Spec => [](Typed /\ Listed /\ AllContained)
  <1>1. Init => Typed /\ Listed /\ AllContained
    BY TypedInit, ListedInit, ContainedInit
  <1>2. Typed /\ Listed /\ AllContained /\ [Next]_vars => (Typed /\ Listed /\ AllContained)'
    BY TypedStep, ListedStep, ContainedStep
  <1>3. QED
    BY <1>1, <1>2, PTL DEF Spec

LEMMA SameHoldingIs ==
    ASSUME NEW a, NEW b, DOMAIN a = ResultFields, DOMAIN b = ResultFields, SameHolding(a, b)
    PROVE  HoldingOf(a) = HoldingOf(b)
  <1> PICK x, y : /\ x = [a EXCEPT !.price = 0, !.value = 0]
                  /\ y = [b EXCEPT !.price = 0, !.value = 0]
    OBVIOUS
  <1>1. x = y
    BY DEF SameHolding
  <1>2. \A f \in ResultFields \ {"price", "value"} : a[f] = x[f] /\ b[f] = y[f]
    OBVIOUS
  <1>3. \A f \in ResultFields \ {"price", "value"} : a[f] = b[f]
    BY <1>1, <1>2
  <1>4. /\ a.account = b.account /\ a.chain = b.chain /\ a.protocol = b.protocol
        /\ a.type = b.type /\ a.position = b.position /\ a.token = b.token /\ a.label = b.label
    BY <1>3 DEF ResultFields
  <1>5. QED
    BY <1>4 DEF HoldingOf

\* What a delivery has added of a source, the job has.
LEMMA AddedIsShared ==
    ASSUME Typed, Listed, NEW d \in Deliveries, Stored(d), NEW n \in DOMAIN tasks[d].results,
           NEW r, DOMAIN r = ResultFields, SameHolding(tasks[d].results[n], r)
    PROVE  Shared(of[d].job, r)
  <1>j. PICK j : j = of[d].job
    OBVIOUS
  <1>a. PICK a : a = tasks[d].results[n]
    OBVIOUS
  <1>0. TaskTyped(tasks[d], UnitOf(d))
    BY DEF Typed
  <1>1. /\ DOMAIN tasks[d].results = 1..Len(tasks[d].results)
        /\ DOMAIN a = ResultFields
    BY <1>0, <1>a, ListIs DEF TaskTyped, Owned, HasOwner
  <1>2. a \in AddedOf(d)
    BY <1>1, <1>a DEF AddedOf, Stored
  <1>f. PICK f : f = DedupField(a)
    OBVIOUS
  <1>3. f \in DOMAIN hashes[j] /\ j \in Jobs
    BY <1>2, <1>f, <1>j, UnitIs DEF Listed
  <1>e. PICK e : e = hashes[j][f]
    OBVIOUS
  <1>4. f = DedupField(e)
    BY <1>3, <1>e DEF Typed, JobHash
  <1>5. HoldingOf(e) = HoldingOf(a)
    BY <1>4, <1>f, SameFieldHolding
  <1>6. HoldingOf(a) = HoldingOf(r)
    BY <1>1, <1>a, SameHoldingIs
  <1>h. PICK h : h = HoldingOf(r)
    OBVIOUS
  <1>7. ASSUME FoundOnce(j, h)
        PROVE  SameHolding(e, r)
    <2>1. PICK c \in Deliveries : of[c].job = j /\ e \in AddedOf(c)
      BY <1>3, <1>e DEF Listed
    <2>2. PICK i \in 1..tasks[c].added : e = tasks[c].results[i]
      BY <2>1 DEF AddedOf
    <2>3. i \in DOMAIN tasks[c].results
      BY <2>2, AddedInDomain
    <2>4. <<c, i>> \in Finds(j, h) /\ <<d, n>> \in Finds(j, h)
      BY <1>5, <1>6, <1>a, <1>h, <1>j, <2>1, <2>2, <2>3 DEF Finds
    <2>5. <<c, i>> = <<d, n>>
      BY <1>7, <2>4 DEF FoundOnce
    <2>6. e = a
      BY <1>a, <2>2, <2>5
    <2>7. QED
      BY <1>a, <2>6
  <1>8. QED
    BY <1>3, <1>5, <1>6, <1>7, <1>e, <1>h, <1>j DEF Shared

LEMMA ContainedImplies == Typed /\ Listed /\ AllContained => FailuresContained
  <1> SUFFICES ASSUME Typed, Listed, AllContained, NEW d \in Deliveries, Stored(d),
                      tasks[d].ops # {}, NEW source \in SourcesOf(d)
               PROVE  /\ Untouched(d, source) =>
                            /\ <<source, TRUE>> \in tasks[d].ops
                            /\ \A i \in DOMAIN Whole(tasks[d], UnitOf(d), source) :
                                  Shared(of[d].job, Whole(tasks[d], UnitOf(d), source)[i])
                      /\ <<source, FALSE>> \in tasks[d].ops => ~Untouched(d, source)
    BY DEF FailuresContained, Whole
  <1> PICK u : u = UnitOf(d)
    OBVIOUS
  <1> PICK task : task = tasks[d]
    OBVIOUS
  <1>1. Finished(task, u, task.results)
    BY DEF AllContained, Contained, Stored
  <1>2. SourcesOf(d) = SourcesFrom(task, u)
    BY DEF SourcesOf, SourcesFrom, Planned, ScreenedFor, ToSet, Range
  <1>3. u.chain = of[d].chain
    BY DEF UnitOf
  <1>4. Untouched(d, source) <=> UntouchedBy(task, u, source)
    BY <1>3 DEF Untouched, UntouchedBy
  <1>5. DoneIn(task, u, source, task.results)
    BY <1>1, <1>2 DEF Finished
  <1>6. FailuresOwn(task, u)
    BY <1>1 DEF Finished
  <1>7. ASSUME Holds(task.results, Whole(task, u, source)),
               NEW i \in DOMAIN Whole(task, u, source)
        PROVE  Shared(of[d].job, Whole(task, u, source)[i])
    <2> PICK r : r = Whole(task, u, source)[i]
      OBVIOUS
    <2>1. task.pipeline \in Pipelines /\ u \in Units
      BY UnitIs DEF Typed, TaskTyped, Stored
    <2>2. source \in SourcesFor(u.chain)
      BY <1>2, <2>1, SourcesFromKnown
    <2>3. AllFetched(Whole(task, u, source), u)
      BY <2>1, <2>2, FetchReplies DEF Whole, IsReply
    <2>4. DOMAIN r = ResultFields
      BY <2>3 DEF AllFetched, IsFetched
    <2>5. PICK n \in DOMAIN task.results : SameHolding(task.results[n], r)
      BY <1>7 DEF Holds
    <2>6. QED
      BY <2>4, <2>5, AddedIsShared
  <1>8. QED
    BY <1>4, <1>5, <1>6, <1>7 DEF DoneIn, FailuresOwn

\* Whatever fails of one source costs nothing of another: a source that got
\* every answer is reported as a success, each thing it holds is among the
\* results of the job, as it was found unless the job has found it again, and
\* a source is reported as failed only if a call of its own has failed
\* (fetch_evm_positions, fetch_solana_positions, hydrate_prices, the filter
\* of unpriced tokens, add_result).
THEOREM FailuresContainedAlways == Spec => []FailuresContained
  BY ContainedAlways, ContainedImplies, PTL
=============================================================================
