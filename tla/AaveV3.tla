------------------------------- MODULE AaveV3 -------------------------------
(***************************************************************************)
(* AaveV3Service.  Aave's API is asked for the supplies and then for the   *)
(* borrows of an account, a subgraph for its history.                      *)
(*                                                                         *)
(* supplies and borrows are sequences of [token, symbol, amount, usd,      *)
(* rate], and a supply has the flag collateral; a history gives for each   *)
(* kind of event the set of tokens it was about.                           *)
(***************************************************************************)
EXTENDS Positions

UsdOf(entries, places) == MapThenSumSet(LAMBDA i : entries[i].usd, places)

Collateral(supplies) == {i \in DOMAIN supplies : supplies[i].collateral}

\* Entries worth nothing are left out of the positions, not of the factor.
Worth(entries) == Chosen(entries, {i \in DOMAIN entries : entries[i].usd > 0})

Held(entry, label) ==
    Token(entry.token, entry.symbol, label, entry.amount,
          PriceOf(entry.usd, entry.amount), entry.usd)

SupplyPosition(supply, health) ==
    Position("lending", None, supply.rate, health, <<Held(supply, "Supplied")>>)

\* A debt has a negative rate.
BorrowPosition(borrow, health) ==
    Position("borrowing", None, -borrow.rate, health, <<Held(borrow, "Borrowed")>>)

AavePositions(supplies, borrows) ==
    LET health == HealthFactor(UsdOf(supplies, Collateral(supplies)),
                                 UsdOf(borrows, DOMAIN borrows))
        supplied == Worth(supplies)
        borrowed == Worth(borrows)
    IN  [i \in DOMAIN supplied |-> SupplyPosition(supplied[i], health)]
        \o [i \in DOMAIN borrowed |-> BorrowPosition(borrowed[i], health)]

\* Without a key or a subgraph, and on any failure, there is no history.
TransactionHistory(reply) ==
    IF reply = None THEN [supplies |-> {}, borrows |-> {}, repays |-> {}] ELSE reply

\* The events of a token go to the first result in that token, be it the
\* supply or the debt.
WithTransactions(results, history) ==
    LET about(r, kind) == r.token \in history[kind]
        first(i) == \A j \in 1..(i - 1) : results[j].token # results[i].token
    IN  [i \in DOMAIN results |->
            [results[i] EXCEPT
                !.history = {k \in DOMAIN history : first(i) /\ about(results[i], k)}]]

\* One failed list fails the whole; the test is that of the caller.
FetchAave(unit, supplies, borrows, history, test) ==
    IF None \in {supplies, borrows} THEN Failed
    ELSE Answered(WithTransactions(
            Flattened("aave-v3", unit, AavePositions(supplies, borrows), test),
            TransactionHistory(history)))

\* What there is to answer.
AaveAnswers(supplies, borrows) ==
    /\ None \notin {supplies, borrows}
    /\ \A entries \in {supplies, borrows} :
          /\ IsList(entries)
          /\ \A i \in DOMAIN entries : entries[i].amount \in Int /\ entries[i].usd \in Int

=============================================================================
