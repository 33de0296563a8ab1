---------------------------- MODULE WalletTokens ----------------------------
(***************************************************************************)
(* What an account holds outside of the protocols: its native coin, read   *)
(* from a node, and the tokens and NFTs that Moralis lists.                *)
(*                                                                         *)
(* A token is [token, symbol, balance, price, value], on an EVM chain with *)
(* the flags spam and protocol (a token that stands for a position), on    *)
(* Solana with quote, the price Moralis gives when asked for that token.   *)
(* An NFT is [contract, spam].                                             *)
(***************************************************************************)
EXTENDS Positions

InWallet(type) == Position(type, None, None, None, <<>>)

NativeSymbol(chain) == IF chain = "bnb" THEN "BNB" ELSE "ETH"

\* What a coin is taken to cost when nobody says.
FallbackPrice(chain) == IF chain = "bnb" THEN 600 ELSE 3000

\* fetch_native_balance
FetchNative(unit, amount, quoted) ==
    IF amount = None THEN Failed
    ELSE LET price == IF quoted = None THEN FallbackPrice(unit.chain) ELSE quoted
             coin == Token("native", NativeSymbol(unit.chain), None, amount, price,
                           amount * price)
         IN  Answered(IF amount = 0 THEN <<>>
                      ELSE <<ResultOf("native", unit, InWallet("wallet"), coin)>>)

TokenResult(unit, t, price, value) ==
    ResultOf("wallet", unit, InWallet("token"),
             Token(t.token, t.symbol, None, t.balance, price, value))

\* fetch_moralis_evm_tokens: spam, tokens of protocols and whatever has no
\* balance or no price is left out.
FetchEvmTokens(unit, tokens) ==
    IF tokens = None THEN Failed
    ELSE LET kept == Chosen(tokens, {i \in DOMAIN tokens :
                        /\ ~tokens[i].spam /\ ~tokens[i].protocol
                        /\ tokens[i].balance > 0 /\ tokens[i].price > 0})
         IN  Answered([i \in DOMAIN kept |->
                         TokenResult(unit, kept[i], kept[i].price, kept[i].value)])

\* fetch_moralis_solana_tokens: a token without a price is asked for, and
\* kept without one if there is no answer.
SolanaToken(unit, t, asked) ==
    LET price == IF t.price # 0 THEN t.price ELSE IF asked = None THEN 0 ELSE asked
        value == IF t.value = 0 \/ t.price = 0 THEN t.balance * price ELSE t.value
    IN  TokenResult(unit, t, price, value)

FetchSolanaTokens(unit, tokens, failing) ==
    IF tokens = None THEN Failed
    ELSE LET held == Chosen([i \in DOMAIN tokens |-> i],
                            {i \in DOMAIN tokens : tokens[i].balance > 0})
             asked(i) == IF <<"quote", i>> \in failing THEN None ELSE tokens[i].quote
         IN  Answered([k \in DOMAIN held |->
                         SolanaToken(unit, tokens[held[k]], asked(held[k]))])

\* screen_moralis_evm_nfts: without an answer there are no contracts.
Screened(nfts) ==
    IF nfts = None THEN {}
    ELSE {nfts[i].contract : i \in {k \in DOMAIN nfts : ~nfts[k].spam}}

\* has_uniswap_v3_nft
HasUniswapNft(contracts, chain) ==
    chain \in {"ethereum", "base", "arbitrum"} /\ "positionManager" \in contracts

\* has_pendle_nft: a placeholder.
HasPendleNft(contracts, chain) == FALSE

\* What there is to answer.
EvmWalletAnswers(native, gas, tokens, nfts) ==
    /\ native # None /\ gas \in Int /\ tokens # None /\ nfts # None /\ IsList(tokens)
    /\ \A i \in DOMAIN tokens : tokens[i].price \in Int

SolanaWalletAnswers(tokens) ==
    /\ tokens # None /\ IsList(tokens)
    /\ \A i \in DOMAIN tokens : tokens[i].price \in Int /\ tokens[i].quote \in Int

=============================================================================
