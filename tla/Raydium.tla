------------------------------- MODULE Raydium -------------------------------
(***************************************************************************)
(* RaydiumService: every NFT of an account may stand for a position in a   *)
(* concentrated liquidity pool, which is read account by account.          *)
(*                                                                         *)
(* An entry is what the chain holds for one NFT: [id, liquid, region,      *)
(* tokens, age]; region is where the price is, below, within or above the  *)
(* range, and each of the two tokens is [token, symbol, decimals, amount,  *)
(* fees, collected, price], with raw amounts of the first two kinds.       *)
(* How fees and collected come about is in PoolFees.  failing is the set   *)
(* of calls <<name, entry>> that fail.                                     *)
(***************************************************************************)
EXTENDS Positions

\* calculate_amounts: below its range a position is all of the first token,
\* above it all of the second.
AmountIn(entry, k) ==
    IF \/ k = 1 /\ entry.region = "above"
       \/ k = 2 /\ entry.region = "below"
    THEN 0 ELSE entry.tokens[k].amount

\* What is taken for the decimals of a mint that cannot be read.
DefaultDecimals == <<9, 6>>

DecimalsOf(entry, k, unread) ==
    IF unread THEN DefaultDecimals[k] ELSE entry.tokens[k].decimals

Scaled(raw, decimals) == raw \div (10 ^ decimals)

\* Without an answer both prices are zero.
PriceRead(entry, k, unpriced) == IF unpriced THEN 0 ELSE entry.tokens[k].price

HistoricalApr(fees, principal, days) ==
    IF principal <= 0 \/ days <= 0 THEN 0
    ELSE (fees * 365 * 100) \div (principal * days)

\* The amounts supplied, uncollected and collected of a token.
AmountsOf(entry, k, unread) ==
    LET decimals == DecimalsOf(entry, k, unread)
    IN  << [label |-> "Supplied", of |-> Scaled(AmountIn(entry, k), decimals)],
           [label |-> "LiquidityUncollectedFee", of |-> Scaled(entry.tokens[k].fees, decimals)],
           [label |-> "LiquidityCollectedFee", of |-> entry.tokens[k].collected] >>

\* fetch_and_parse_position: fees are tokens of the position when there are
\* any; the creation of the NFT gives its age, thirty days without an answer.
ClmmPosition(entry, i, failing) ==
    LET unread(k) == <<"decimals", i, k>> \in failing
        price(k) == PriceRead(entry, k, <<"prices", i>> \in failing)
        amount(k, n) == AmountsOf(entry, k, unread(k))[n]
        raw(k, n) == n = 2 /\ entry.tokens[k].fees > 0
        token(k, n) == Token(entry.tokens[k].token, entry.tokens[k].symbol,
                             amount(k, n).label, amount(k, n).of, price(k),
                             amount(k, n).of * price(k))
        listed == << <<1, 1>>, <<2, 1>>, <<1, 2>>, <<2, 2>>, <<1, 3>>, <<2, 3>> >>
        kept == Chosen(listed, {j \in DOMAIN listed :
                    LET p == listed[j]
                    IN  p[2] = 1 \/ raw(p[1], p[2]) \/ amount(p[1], p[2]).of > 0})
        worth(n) == token(1, n).value + token(2, n).value
        created == IF <<"created", i>> \in failing THEN None ELSE entry.age
        days == IF created = None THEN 30 ELSE created
    IN  [Position("liquiditypool", entry.id,
                  HistoricalApr(worth(2) + worth(3), worth(1), days), None,
                  [j \in DOMAIN kept |-> token(kept[j][1], kept[j][2])])
            EXCEPT !.age = created]

\* An account that cannot be read, or without liquidity, is skipped; a node
\* that refuses the call looks like an account that is not there.
Readable(entries, failing) ==
    Chosen([i \in DOMAIN entries |-> i],
           {i \in DOMAIN entries : entries[i].liquid /\ <<"clmm", i>> \notin failing})

\* Only the list of the NFTs can fail the whole.
FetchRaydium(unit, entries, failing, test) ==
    IF <<"mints">> \in failing THEN Failed
    ELSE LET read == Readable(entries, failing)
         IN  Answered(Flattened("raydium", unit,
                [j \in DOMAIN read |-> ClmmPosition(entries[read[j]], read[j], failing)], test))

\* What there is to read.
RaydiumAnswers(entries) ==
    /\ IsList(entries)
    /\ \A i \in DOMAIN entries, k \in 1..2 : entries[i].tokens[k].price \in Int

=============================================================================
