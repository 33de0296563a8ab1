----------------------------- MODULE Processors -----------------------------
(***************************************************************************)
(* What the two AggregationProcessors ask for: the one of the worker, with *)
(* the adapters of its registry, and the one that the API starts in its    *)
(* own process ("api"), with code of its own.  Both consume the same       *)
(* queue.                                                                  *)
(*                                                                         *)
(* h is what the services would answer about a unit, by call; failing is   *)
(* the set of the calls, as tuples, that fail this time.                   *)
(***************************************************************************)
EXTENDS AaveV3, Pendle, UniswapV3, Raydium, Kamino, WalletTokens

IsEvm(chain) == chain # "solana"

WorkerSources(chain) ==
    (IF IsEvm(chain) THEN <<"native">> ELSE <<>>) \o AdaptersFor(chain)

\* The NFTs decide what follows them.
ApiSources(chain) ==
    IF IsEvm(chain) THEN <<"native", "moralis", "nfts">>
    ELSE <<"moralis", "kamino", "raydium">>

Sources(pipeline, chain) ==
    IF pipeline = "worker" THEN WorkerSources(chain) ELSE ApiSources(chain)

AfterScreening(chain, nfts) ==
    LET contracts == Screened(nfts)
        when(condition, source) == IF condition THEN <<source>> ELSE <<>>
    IN  <<"aave-v3">>
        \o when(HasUniswapNft(contracts, chain), "uniswap-v3")
        \o when(HasPendleNft(contracts, chain), "pendle")
        \o when(chain = "ethereum", "pendle-ve")

Reply(h, call, failing) == IF <<call>> \in failing THEN None ELSE h[call]

----------------------------------------------------------------------------
(* The worker: its adapters                                                *)

AaveAdapter(unit, h, failing) ==
    FetchAave(unit, Reply(h, "supplies", failing), Reply(h, "borrows", failing),
              Reply(h, "history", failing), "shown")

UniswapAdapter(unit, h, failing) == FetchUniswap(unit, Reply(h, "positions", failing))

KaminoAdapter(unit, h, failing) == FetchKamino(unit, h.markets, failing, "shown")

RaydiumAdapter(unit, h, failing) == FetchRaydium(unit, h.nfts, failing, "shown")

PendleAdapter(unit, h, failing) ==
    FetchPendle(unit, Reply(h, "pendle", failing), Reply(h, "lock", failing),
                Reply(h, "power", failing))

----------------------------------------------------------------------------
(* The API's processor                                                     *)

ApiAave(unit, h, failing) ==
    FetchAave(unit, Reply(h, "supplies", failing), Reply(h, "borrows", failing),
              Reply(h, "history", failing), "positive")

ApiUniswap(unit, h, failing) == FetchUniswap(unit, Reply(h, "positions", failing))

ApiKamino(unit, h, failing) == FetchKamino(unit, h.markets, failing, "positive")

ApiRaydium(unit, h, failing) == FetchRaydium(unit, h.nfts, failing, "valued")

ApiPendleVe(unit, h, failing) ==
    FetchVe(unit, Reply(h, "lock", failing), Reply(h, "power", failing))

ApiTokens(unit, h, failing) ==
    IF IsEvm(unit.chain) THEN FetchEvmTokens(unit, Reply(h, "tokens", failing))
    ELSE FetchSolanaTokens(unit, Reply(h, "tokens", failing), failing)

\* Without a node for the chain the API makes two positions up.
MockData(unit) ==
    << ResultOf("aave", unit, Position("lending", None, None, None, <<>>),
                Token("", "USDC", None, 1000, 1, 1000)),
       ResultOf("uniswap", unit, Position("liquidity", None, None, None, <<>>),
                Token("", "ETH-USDC", None, 500, 1, 500)) >>

----------------------------------------------------------------------------

Fetch(pipeline, source, unit, h, failing) ==
    CASE source = "native" ->
            FetchNative(unit, Reply(h, "native", failing), Reply(h, "gas", failing))
      [] source = "moralis" -> ApiTokens(unit, h, failing)
      [] source = "aave-v3" -> IF pipeline = "api" THEN ApiAave(unit, h, failing)
                               ELSE AaveAdapter(unit, h, failing)
      [] source = "uniswap-v3" -> IF pipeline = "api" THEN ApiUniswap(unit, h, failing)
                                  ELSE UniswapAdapter(unit, h, failing)
      [] source = "kamino" -> IF pipeline = "api" THEN ApiKamino(unit, h, failing)
                              ELSE KaminoAdapter(unit, h, failing)
      [] source = "raydium" -> IF pipeline = "api" THEN ApiRaydium(unit, h, failing)
                               ELSE RaydiumAdapter(unit, h, failing)
      [] source = "pendle" -> PendleAdapter(unit, h, failing)
      [] source = "pendle-ve" -> ApiPendleVe(unit, h, failing)

\* The calls each source makes, those of which the failure makes a difference.
Calls(pipeline, source, chain, h) ==
    CASE source = "native" -> {<<"native">>, <<"gas">>}
      [] source = "moralis" -> {<<"tokens">>} \cup
            (IF IsEvm(chain) THEN {} ELSE {<<"quote", i>> : i \in DOMAIN h.tokens})
      [] source = "nfts" -> {<<"screen">>}
      [] source = "aave-v3" -> {<<"supplies">>, <<"borrows">>, <<"history">>}
      [] source = "uniswap-v3" -> {<<"positions">>}
      [] source = "kamino" -> {"obligations", "reserves", "snapshots"} \X (DOMAIN h.markets)
      [] source = "raydium" -> {<<"mints">>} \cup ({"clmm", "prices", "created"} \X (DOMAIN h.nfts))
                               \cup ({"decimals"} \X (DOMAIN h.nfts) \X {1, 2})
      [] source = "pendle" -> {<<"pendle">>, <<"lock">>, <<"power">>}
      [] source = "pendle-ve" -> {<<"lock">>, <<"power">>}

\* What the services would answer: an answer, and numbers for amounts and prices.
Answers(chain, h) ==
    IF IsEvm(chain)
    THEN /\ EvmWalletAnswers(h.native, h.gas, h.tokens, h.screen)
         /\ AaveAnswers(h.supplies, h.borrows)
         /\ UniswapAnswers(h.positions)
         /\ PendleAnswers(h.pendle, h.lock, h.power)
    ELSE /\ SolanaWalletAnswers(h.tokens)
         /\ KaminoAnswers(h.markets)
         /\ RaydiumAnswers(h.nfts)

=============================================================================
