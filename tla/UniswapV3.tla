------------------------------ MODULE UniswapV3 ------------------------------
(***************************************************************************)
(* UniswapV3Service and UniswapAdapter: the positions of an account as the *)
(* subgraph of a chain lists them, the first hundred with liquidity.       *)
(*                                                                         *)
(* An entry is [id, well, age, tokens]; well tells whether its numbers can *)
(* be read, and each of the two tokens is [token, symbol, deposited,       *)
(* withdrawn, fees, collected].  How fees is computed is in PoolFees.      *)
(***************************************************************************)
EXTENDS Positions

\* What was put in and not taken out, whatever the price has done since.
Supplied(t) == IF t.deposited > t.withdrawn THEN t.deposited - t.withdrawn ELSE 0

\* The tokens are priced later; the third label is for fees that have left
\* the pool.
PoolToken(t, label) ==
    Token(t.token, t.symbol, label,
          CASE label = "Supplied" -> Supplied(t)
            [] label = "LiquidityUncollectedFee" -> t.fees
            [] label = "LiquidityCollectedFee" -> t.collected, 0, 0)

Labels == <<"Supplied", "LiquidityUncollectedFee", "LiquidityCollectedFee">>

PoolPosition(entry) ==
    [Position("liquiditypool", entry.id, None, None,
              [k \in 1..6 |-> PoolToken(entry.tokens[((k - 1) % 2) + 1],
                                        Labels[((k - 1) \div 2) + 1])])
        EXCEPT !.age = entry.age]

\* An entry that cannot be read fails the whole; every token makes a result.
FetchUniswap(unit, entries) ==
    IF entries = None THEN Failed
    ELSE IF \E i \in DOMAIN entries : ~entries[i].well THEN Failed
    ELSE Answered(Flattened("uniswap-v3", unit,
                            [i \in DOMAIN entries |-> PoolPosition(entries[i])], "any"))

\* What there is to answer: entries that can be read.
UniswapAnswers(entries) ==
    entries # None /\ IsList(entries) /\ \A i \in DOMAIN entries : entries[i].well

=============================================================================
