------------------------------ MODULE Positions ------------------------------
(***************************************************************************)
(* What the protocol services return and how it becomes results:           *)
(* protocols/src/types.rs and ProtocolRegistry.                            *)
(*                                                                         *)
(* A unit is [account, chain].  A position is [type, id, rate, health,     *)
(* age, tokens], with its age in days where a pool tells it, and a token   *)
(* of it is [address, symbol, label, balance, price, value], where label   *)
(* is its token_type.  Amounts are integers.  The reply of a call is None  *)
(* when the call has failed, with all of its attempts.                     *)
(***************************************************************************)
EXTENDS Options, Integers, SequencesExt, FiniteSetsExt

\* What a source ends with.
Failed == [ok |-> FALSE, results |-> <<>>]

Answered(results) == [ok |-> TRUE, results |-> results]

Token(address, symbol, label, balance, price, value) ==
    [address |-> address, symbol |-> symbol, label |-> label,
     balance |-> balance, price |-> price, value |-> value]

Position(type, id, rate, health, tokens) ==
    [type |-> type, id |-> id, rate |-> rate, health |-> health, age |-> None,
     tokens |-> tokens]

\* The price of one of an amount, or zero of nothing.
PriceOf(value, amount) == IF amount > 0 THEN value \div amount ELSE 0

\* Deposits times an assumed threshold of 0.8 over the debt, as a fraction;
\* null without debt.
HealthFactor(deposited, borrowed) ==
    IF borrowed > 0 THEN [num |-> 8 * deposited, den |-> 10 * borrowed] ELSE None

\* An AggregationResult.
ResultOf(protocol, unit, position, token) ==
    [account |-> unit.account, chain |-> unit.chain, protocol |-> protocol,
     type |-> position.type, position |-> position.id, rate |-> position.rate,
     health |-> position.health, age |-> position.age, token |-> token.address, symbol |-> token.symbol,
     label |-> token.label, balance |-> token.balance, price |-> token.price,
     value |-> token.value, history |-> {}]

IsList(s) == s \in Seq(Range(s))

\* The elements of a sequence at the places in keep, in their order.
Chosen(s, keep) == FlattenSeq([i \in DOMAIN s |-> IF i \in keep THEN <<s[i]>> ELSE <<>>])

\* The tests of the callers: any token; "positive" amounts only; "shown" ones,
\* as in positions_to_results, where what was supplied stays at zero; or
\* "valued" ones, where a value will do as well.
Passes(token, test) ==
    \/ test = "any" \/ token.balance > 0
    \/ test \in {"shown", "valued"} /\ token.label = "Supplied"
    \/ test = "valued" /\ token.value > 0

\* The results of the tokens of each position that pass the test.
Flattened(protocol, unit, positions, test) ==
    FlattenSeq([i \in DOMAIN positions |->
        LET held == positions[i].tokens
            tokens == Chosen(held, {j \in DOMAIN held : Passes(held[j], test)})
        IN  [j \in DOMAIN tokens |-> ResultOf(protocol, unit, positions[i], tokens[j])]])

----------------------------------------------------------------------------
(* The adapters, in the order they are registered.                         *)

Adapters == <<"aave-v3", "uniswap-v3", "kamino", "raydium", "pendle">>

SupportedChains(adapter) ==
    IF adapter \in {"kamino", "raydium"} THEN {"solana"}
    ELSE {"ethereum", "base", "arbitrum"}

\* get_for_chain keeps the order.
AdaptersFor(chain) ==
    Chosen(Adapters, {i \in DOMAIN Adapters : chain \in SupportedChains(Adapters[i])})

=============================================================================
