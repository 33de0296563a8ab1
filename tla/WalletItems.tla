----------------------------- MODULE WalletItems -----------------------------
(***************************************************************************)
(* The answer to a poll: transform_results_to_items groups the results of  *)
(* a job, the entries of its hash, into items.  HVALS lists the entries in *)
(* no order, so there are several items that a group may be shown as.  The *)
(* order of the items themselves, borrowing last, is left out, and with it *)
(* every name and logo.                                                    *)
(***************************************************************************)
EXTENDS Positions

Lending == {"aave-v3", "kamino"}

Pools == {"uniswap-v3", "raydium"}

Wallets == {"native", "wallet", "moralis"}

\* The account is not part of the key.
GroupKey(r) ==
    CASE r.protocol \in Lending -> <<r.protocol, r.chain, r.type, r.token>>
      [] r.protocol \in Pools -> <<r.protocol, r.chain, r.type, r.position>>
      [] OTHER -> <<r.protocol, r.chain, r.type>>

\* The results of an item, by their fields in the hash of the job.
GroupOf(entries, key) ==
    Restrict(entries, {f \in DOMAIN entries : GroupKey(entries[f]) = key})

\* Nor is it part of what makes two results of a group the same.
Identity(r) == <<r.token, r.label>>

Identities(group) == {Identity(group[f]) : f \in DOMAIN group}

\* dedupe_group_results keeps the first of the same results: one of each.
Deduped(group) ==
    {kept \in kSubset(Cardinality(Identities(group)), DOMAIN group) :
        Identities(Restrict(group, kept)) = Identities(group)}

----------------------------------------------------------------------------
(* The item of a group                                                     *)

ItemType(r) ==
    CASE r.protocol \in Wallets -> "Wallet"
      [] r.protocol \in Lending -> "LendingAndBorrowing"
      [] r.protocol \in Pools -> "LiquidityPool"
      [] r.protocol = "pendle" -> IF r.type = "locking" THEN "Locking" ELSE "Depositing"
      [] r.type \in {"lending", "borrowing"} -> "LendingAndBorrowing"
      [] OTHER -> "Other"

\* The label of the result, or what the type of its position says.
TokenType(r) ==
    IF r.label # None THEN r.label
    ELSE IF r.type = "lending" THEN "Supplied"
    ELSE IF r.type = "borrowing" THEN "Borrowed"
    ELSE None

\* The total is computed again, from the amount and the price.
ShownToken(r) ==
    [token |-> r.token, symbol |-> r.symbol, type |-> TokenType(r), balance |-> r.balance,
     price |-> IF r.price > 0 THEN r.price ELSE None,
     total |-> IF r.price > 0 THEN r.balance * r.price ELSE None]

ValueOf(group, labels) ==
    MapThenSumSet(LAMBDA i : group[i].value, {i \in DOMAIN group : group[i].label \in labels})

\* compute_apy_projection
ApyProjected(group, first) ==
    IF first.rate # None /\ MapThenSumSet(LAMBDA i : group[i].value, DOMAIN group) > 0
    THEN {"apy"} ELSE {}

\* Raydium's value of a position, here the sum of its tokens, stands in for
\* a supply worth nothing.
PoolValue(group, first) ==
    LET supplied == ValueOf(group, {"Supplied"})
    IN  IF supplied > 0 \/ first.protocol # "raydium" THEN supplied
        ELSE ValueOf(group, {group[i].label : i \in DOMAIN group})

\* compute_fee_projections: what the fees so far make in a year needs the
\* age of the position, what the protocol promises its rate.
FeesProjected(group, first) ==
    LET value == PoolValue(group, first)
        fees == ValueOf(group, {"LiquidityUncollectedFee", "LiquidityCollectedFee"})
        historical == first.age # None /\ fees > 0 /\ value > 0
        promised == IF first.rate = None THEN FALSE ELSE first.rate > 0 /\ value > 0
    IN  {kind \in {"historical", "protocol"} :
            IF kind = "historical" THEN historical ELSE promised}

\* Only Raydium's own projection is there to fall back on.
PoolProjections(group, first) ==
    IF FeesProjected(group, first) # {} THEN FeesProjected(group, first)
    ELSE IF first.protocol = "raydium" THEN {"own"} ELSE {}

\* What goes with an item is read from its first result.
AdditionalData(group, first) ==
    CASE first.protocol \in Lending ->
            [health |-> first.health, rate |-> first.rate,
             projections |-> ApyProjected(group, first), history |-> first.history]
      [] first.protocol \in Pools ->
            [position |-> first.position, value |-> PoolValue(group, first),
             projections |-> PoolProjections(group, first), age |-> first.age]
      [] OTHER -> None

ItemOf(group, first) ==
    [type |-> ItemType(first), tokens |-> [f \in DOMAIN group |-> ShownToken(group[f])],
     additional |-> AdditionalData(group, first)]

\* What an item takes from its first result.
About(r) ==
    [protocol |-> r.protocol, type |-> r.type, position |-> r.position, rate |-> r.rate,
     health |-> r.health, age |-> r.age, history |-> r.history]

\* Any order of the entries: any of those kept may be the first.
ItemsOf(group) ==
    UNION {{ItemOf(Restrict(group, kept), first) : first \in {About(group[f]) : f \in kept}}
           : kept \in Deduped(group)}

Keys(entries) == {GroupKey(entries[f]) : f \in DOMAIN entries}

Items(entries) == [key \in Keys(entries) |-> ItemsOf(GroupOf(entries, key))]

\* update_summary: every token counts, also where positions are meant.
SummaryCounter(protocol, type) ==
    CASE protocol \in Wallets -> "tokens"
      [] protocol = "aave-v3" -> IF type = "lending" THEN "supplies" ELSE "borrows"
      [] protocol = "pendle" -> IF type = "locking" THEN "locks" ELSE "deposits"
      [] protocol \in Pools \cup {"kamino"} -> protocol
      [] OTHER -> None

\* Each result that is kept counts once.  Its key starts with protocol, chain
\* and type.
Summary(entries) ==
    LET kept == {<<GroupKey(entries[f]), Identity(entries[f])>> : f \in DOMAIN entries}
        counter(token) == SummaryCounter(token[1][1], token[1][3])
    IN  [c \in {counter(token) : token \in kept} \ {None} |->
            Cardinality({token \in kept : counter(token) = c})]

=============================================================================
