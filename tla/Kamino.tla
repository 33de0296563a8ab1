------------------------------- MODULE Kamino -------------------------------
(***************************************************************************)
(* KaminoService: the obligations of an account in each known market, with *)
(* the reserves of the market, and the events that the history of each     *)
(* obligation lets infer.                                                  *)
(*                                                                         *)
(* A market is [obligations, reserves].  An obligation is [deposits,       *)
(* borrows, deposited, borrowed, snapshots]: its entries are [reserve,     *)
(* share, amount], deposited and borrowed its totals in USD.  reserves     *)
(* maps some reserves to [mint, symbol, price, supplyRate, borrowRate].  A *)
(* snapshot is [at, deposits, borrows], each a function from mints to      *)
(* amounts.  failing is the set of calls <<name, market, ...>> that fail.  *)
(***************************************************************************)
EXTENDS Positions

ShareSum(entries) == SumFunction([i \in DOMAIN entries |-> entries[i].share])

\* calculate_proportional_value
Proportional(share, total, usd) ==
    IF total <= 0 \/ usd <= 0 \/ share <= 0 THEN 0 ELSE (share * usd) \div total

\* A debt without a share gets an equal part of the total.
BorrowedValue(obligation, entry) ==
    LET total == ShareSum(obligation.borrows)
    IN  IF total > 0 /\ entry.share > 0
        THEN (entry.share * obligation.borrowed) \div total
        ELSE obligation.borrowed \div Len(obligation.borrows)

\* A reserve that the market does not list has no name, price or rate, and
\* stands for its mint.
ReserveOf(market, reserve) ==
    IF reserve \in DOMAIN market.reserves THEN market.reserves[reserve]
    ELSE [mint |-> reserve, symbol |-> "Unknown", price |-> 0, supplyRate |-> 0,
          borrowRate |-> 0]

UnitPrice(price, value, amount) == IF price > 0 THEN price ELSE PriceOf(value, amount)

DepositPosition(market, obligation, entry, health) ==
    LET reserve == ReserveOf(market, entry.reserve)
        value == Proportional(entry.share, ShareSum(obligation.deposits), obligation.deposited)
    IN  Position("lending", None, reserve.supplyRate, health,
                 << Token(reserve.mint, reserve.symbol, "Supplied", entry.amount,
                          UnitPrice(reserve.price, value, entry.amount), value) >>)

\* The amount of a debt may be missing: its value and the price give it.
BorrowedAmount(entry, value, price) ==
    IF entry.amount # 0 THEN entry.amount ELSE IF price > 0 THEN value \div price ELSE 0

DebtPosition(market, obligation, entry, health) ==
    LET reserve == ReserveOf(market, entry.reserve)
        value == BorrowedValue(obligation, entry)
        amount == BorrowedAmount(entry, value, reserve.price)
    IN  Position("borrowing", None, -reserve.borrowRate, health,
                 << Token(reserve.mint, reserve.symbol, "Borrowed", amount,
                          UnitPrice(reserve.price, value, amount), value) >>)

\* Entries worth less than a cent are left out.
ObligationPositions(market, obligation) ==
    LET health == HealthFactor(obligation.deposited, obligation.borrowed)
        deposits == [i \in DOMAIN obligation.deposits |->
                        DepositPosition(market, obligation, obligation.deposits[i], health)]
        debts == [i \in DOMAIN obligation.borrows |->
                        DebtPosition(market, obligation, obligation.borrows[i], health)]
        all == deposits \o debts
    IN  Chosen(all, {i \in DOMAIN all : all[i].tokens[1].value > 0})

\* A market is skipped when the account has no obligation in it, or when
\* its obligations or its reserves cannot be had: no error is reported.
Markets(markets, failing) ==
    Chosen([m \in DOMAIN markets |-> m],
           {m \in DOMAIN markets :
               /\ markets[m].obligations # <<>>
               /\ {<<"obligations", m>>, <<"reserves", m>>} \cap failing = {}})

\* The obligations of those markets, each with its market.
Obligations(markets, failing) ==
    LET listed == Markets(markets, failing)
    IN  FlattenSeq([k \in DOMAIN listed |->
            [i \in DOMAIN markets[listed[k]].obligations |->
                [market |-> markets[listed[k]], of |-> listed[k],
                 obligation |-> markets[listed[k]].obligations[i]]]])

KaminoPositions(obligations) ==
    FlattenSeq([k \in DOMAIN obligations |->
        ObligationPositions(obligations[k].market, obligations[k].obligation)])

----------------------------------------------------------------------------
(* The history                                                             *)

AmountAt(amounts, mint) == IF mint \in DOMAIN amounts THEN amounts[mint] ELSE 0

\* infer_transaction_events: the mints of which a snapshot holds more than
\* the one before it.
Increased(snapshots, side) ==
    LET sorted == SortSeq(snapshots, LAMBDA a, b : a.at < b.at)
    IN  UNION {{mint \in DOMAIN sorted[k + 1][side] :
                    sorted[k + 1][side][mint] > AmountAt(sorted[k][side], mint)}
               : k \in 1..(Len(sorted) - 1)}

\* Histories that cannot be read or have fewer than two snapshots say nothing.
EventMints(obligations, side, failing) ==
    UNION {Increased(obligations[k].obligation.snapshots, side)
           : k \in {j \in DOMAIN obligations :
                        <<"snapshots", obligations[j].of>> \notin failing}}

\* attach_transaction_history: deposits go to a lending result of the mint,
\* debts to a borrowing one, to the first of them.
AttachHistory(results, mints, type) ==
    [i \in DOMAIN results |->
        IF /\ results[i].type = type /\ results[i].token \in mints
           /\ \A j \in 1..(i - 1) : ~(results[j].type = type
                                      /\ results[j].token = results[i].token)
        THEN [results[i] EXCEPT !.history = @ \cup {type}] ELSE results[i]]

FetchKamino(unit, markets, failing, test) ==
    LET obligations == Obligations(markets, failing)
        results == Flattened("kamino", unit, KaminoPositions(obligations), test)
        lent == AttachHistory(results, EventMints(obligations, "deposits", failing), "lending")
    IN  Answered(AttachHistory(lent, EventMints(obligations, "borrows", failing), "borrowing"))

\* What there is to answer.
ObligationOK(obligation) ==
    /\ obligation.deposited \in Int /\ obligation.borrowed \in Int
    /\ \A entries \in {obligation.deposits, obligation.borrows} :
          /\ IsList(entries)
          /\ \A i \in DOMAIN entries : entries[i].share \in Int /\ entries[i].amount \in Int

KaminoAnswers(markets) ==
    /\ IsList(markets)
    /\ \A m \in DOMAIN markets :
          /\ IsList(markets[m].obligations)
          /\ \A i \in DOMAIN markets[m].obligations : ObligationOK(markets[m].obligations[i])
          /\ \A r \in DOMAIN markets[m].reserves : markets[m].reserves[r].price \in Int

=============================================================================
