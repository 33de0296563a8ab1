----------------------------- MODULE MCCollect -----------------------------
(***************************************************************************)
(* Instances of Collect for TLC: what the services know of a few accounts. *)
(***************************************************************************)
EXTENDS Collect

CONSTANTS d1, d2

NoHistory == [supplies |-> {}, borrows |-> {}, repays |-> {}]

Unheld == [native |-> 0, gas |-> 7, tokens |-> <<>>, screen |-> <<>>, supplies |-> <<>>,
           borrows |-> <<>>, history |-> NoHistory, positions |-> <<>>, pendle |-> <<>>,
           lock |-> [amount |-> 0, expiry |-> 0], power |-> 0]

EvmToken(token, balance, price) ==
    [token |-> token, symbol |-> token, balance |-> balance, price |-> price,
     value |-> balance * price, spam |-> FALSE, protocol |-> FALSE]

Usdc(amount) == [token |-> "USDC", symbol |-> "USDC", amount |-> amount, usd |-> amount,
                 rate |-> 3, collateral |-> TRUE]

PoolEntry == [id |-> "nft1", well |-> TRUE, age |-> 10, tokens |->
    << [token |-> "WETH", symbol |-> "WETH", deposited |-> 3, withdrawn |-> 1, fees |-> 1,
        collected |-> 0],
       [token |-> "XYZ", symbol |-> "XYZ", deposited |-> 2, withdrawn |-> 2, fees |-> 0,
        collected |-> 1] >>]

\* Coins, a token, a loan, a pool, and PENDLE that is locked.
Rich == [Unheld EXCEPT
    !.native = 2, !.tokens = <<EvmToken("USDC", 5, 1), EvmToken("JUNK", 9, 0)>>,
    !.screen = <<[contract |-> "positionManager", spam |-> FALSE]>>,
    !.supplies = <<Usdc(4)>>, !.borrows = <<Usdc(1)>>,
    !.history = [NoHistory EXCEPT !.supplies = {"USDC"}],
    !.positions = <<PoolEntry>>, !.lock = [amount |-> 2, expiry |-> 1], !.power = 1]

\* A loan, and PENDLE that is locked.
Locker == [Unheld EXCEPT !.supplies = <<Usdc(4)>>, !.lock = [amount |-> 2, expiry |-> 1],
                         !.power = 1]

\* Only a loan in the same token.
Lender == [Unheld EXCEPT !.supplies = <<Usdc(6)>>]

Obligation == [deposits |-> <<[reserve |-> "rSOL", share |-> 2, amount |-> 2]>>,
               borrows |-> <<[reserve |-> "rUSDC", share |-> 0, amount |-> 0]>>,
               deposited |-> 6, borrowed |-> 2,
               snapshots |-> << [at |-> 2, deposits |-> [SOL |-> 2], borrows |-> <<>>],
                                [at |-> 1, deposits |-> [SOL |-> 1], borrows |-> <<>>] >>]

Reserve(mint, price) == [mint |-> mint, symbol |-> mint, price |-> price, supplyRate |-> 1,
                         borrowRate |-> 2]

Market == [obligations |-> <<Obligation>>,
           reserves |-> [rSOL |-> Reserve("SOL", 3), rUSDC |-> Reserve("USDC", 1)]]

\* Another market in which SOL is lent.
OtherMarket == [obligations |-> <<[Obligation EXCEPT !.deposits[1].amount = 1, !.borrows = <<>>,
                                      !.deposited = 3, !.borrowed = 0, !.snapshots = <<>>]>>,
                reserves |-> [rSOL |-> Reserve("SOL", 3)]]

ClmmEntry == [id |-> "nft2", liquid |-> TRUE, region |-> "above", age |-> 5, tokens |->
    << [token |-> "SOL", symbol |-> "SOL", decimals |-> 0, amount |-> 2, fees |-> 1,
        collected |-> 0, price |-> 3],
       [token |-> "RAY", symbol |-> "RAY", decimals |-> 0, amount |-> 4, fees |-> 0,
        collected |-> 1, price |-> 2] >>]

Solana == [tokens |-> <<[token |-> "BONK", symbol |-> "BONK", balance |-> 3, price |-> 0,
                         value |-> 0, quote |-> 2]>>,
           markets |-> <<Market, OtherMarket>>, nfts |-> <<ClmmEntry>>]

To(job, account, chain) == [job |-> job, account |-> account, chain |-> chain]

MCHoldings == [u \in Units |->
    IF u.chain = "solana" THEN Solana
    ELSE CASE u.account = "a1" -> Rich [] u.account = "a2" -> Lender [] OTHER -> Locker]

\* One account twice, in one job or in two; an account on two chains; a chain
\* without a node.
MCScenarios == {
    (d1 :> To("j1", "a3", "ethereum")) @@ (d2 :> To("j1", "a3", "ethereum")),
    (d1 :> To("j1", "a3", "ethereum")) @@ (d2 :> To("j2", "a3", "ethereum")),
    (d1 :> To("j1", "a2", "base")) @@ (d2 :> To("j1", "s1", "solana")),
    (d1 :> To("j1", "a1", "ethereum")) @@ (d2 :> To("j1", "a1", "bnb")) }

\* Two accounts of a group.
TwoAccounts ==
    {(d1 :> To("j1", "a1", "ethereum")) @@ (d2 :> To("j1", "a2", "ethereum"))}

MCBasePrice == [s \in {"WETH", "PENDLE", "BONK"} |-> 100]

\* Only the API's process asks Moralis.
MCQuoted == [worker |-> {"WETH", "PENDLE"}, api |-> {"WETH", "PENDLE", "BONK"}]

MCStems == [vePENDLE |-> <<{"PENDLE"}>>, WETH |-> <<{"ETH"}>>]

=============================================================================
