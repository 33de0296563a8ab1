------------------------------- MODULE Pendle -------------------------------
(***************************************************************************)
(* PendleService: the positions that Pendle's API returns, and on Ethereum *)
(* the PENDLE an account has locked in the contract vePENDLE.              *)
(*                                                                         *)
(* markets is a sequence of [market, amount, usd], empty when the API      *)
(* knows nothing of the account (404); lock is [amount, expiry], power the *)
(* voting power that goes with it.                                         *)
(***************************************************************************)
EXTENDS Positions

\* One token stands for a position, with half of its value and the price 1.
MarketPosition(entry) ==
    Position("yield", None, None, None,
             <<Token(entry.market, "PT", "Supplied", entry.amount, 1, entry.usd \div 2)>>)

\* The results of the markets lose their label.
FetchMarkets(unit, markets, test) ==
    IF markets = None THEN Failed
    ELSE LET positions == [i \in DOMAIN markets |-> MarketPosition(markets[i])]
             results == Flattened("pendle", unit, positions, test)
         IN  Answered([i \in DOMAIN results |-> [results[i] EXCEPT !.label = None]])

Locked(lock) == lock.amount # 0 /\ lock.expiry # 0

\* The voting power is a second token of the lock; neither is priced here.
VePosition(lock, power) ==
    Position("locking", None, None, None,
             << Token("PENDLE", "PENDLE", "Supplied", lock.amount, 0, 0),
                Token("", "vePENDLE", "GovernancePower", power, 0, 0) >>)

\* The voting power is asked for only when there is a lock.
FetchVe(unit, lock, power) ==
    IF lock = None THEN Failed
    ELSE IF ~Locked(lock) THEN Answered(<<>>)
    ELSE IF power = None THEN Failed
    ELSE Answered(Flattened("pendle", unit, <<VePosition(lock, power)>>, "positive"))

\* PendleAdapter: without an answer about the lock it is dropped with a
\* warning, and the adapter succeeds.
FetchPendle(unit, markets, lock, power) ==
    LET regular == FetchMarkets(unit, markets, "shown")
        ve == IF unit.chain = "ethereum" THEN FetchVe(unit, lock, power) ELSE Answered(<<>>)
    IN  IF ~regular.ok THEN Failed ELSE Answered(regular.results \o ve.results)

\* What there is to answer.
PendleAnswers(markets, lock, power) ==
    markets # None /\ IsList(markets) /\ lock # None /\ power # None

=============================================================================
