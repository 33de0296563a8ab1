--------------------------- MODULE PriceHydration ---------------------------
(***************************************************************************)
(* PriceHydrationService: results that came without a price get that of    *)
(* another result, of the cache, of a provider, or a guess.                *)
(***************************************************************************)
EXTENDS Positions

CONSTANTS
    Quoted,       \* symbols for which some provider has a price
    Stems,        \* per symbol, for each prefix such as "ve" that it starts
                  \* with, the symbols that start with the rest of it
    Stablecoins,  \* symbols with the name of a stablecoin in them
    TicksPerHour  \* of the clock

ASSUME HydrationAssumption ==
    /\ TicksPerHour \in Nat \ {0}
    /\ \A s \in DOMAIN Stems : IsFiniteSet(DOMAIN Stems[s])

TtlHours == 1

\* Prices are kept by symbol and chain, not by token.
KeyOf(result) == <<result.symbol, result.chain>>

PricedOf(results) == {i \in DOMAIN results : results[i].price > 0}

\* already_priced: the last result of a symbol counts.  It is not added to.
AlreadyPriced(results) ==
    [key \in {KeyOf(results[i]) : i \in PricedOf(results)} |->
        results[Max({i \in PricedOf(results) : KeyOf(results[i]) = key})].price]

\* symbols_needing_price, as places in the results: they are priced in order.
Needing(results) ==
    {i \in DOMAIN results : results[i].price <= 0 /\ results[i].balance > 0}

Priced(results, i, price) ==
    [results EXCEPT ![i].price = price, ![i].value = results[i].balance * price]

\* Faulty variant: an entry is used for the hour after its last one.
ExpiredLate(entry, now) == (now - entry.at) \div TicksPerHour > TtlHours

\* is_expired counts whole hours.
Expired(entry, now) == (now - entry.at) \div TicksPerHour >= TtlHours

CachedPrice(cache, key, now) ==
    IF key \notin DOMAIN cache THEN None
    ELSE IF Expired(cache[key], now) THEN None ELSE cache[key].price

CachePrice(cache, key, price, now) ==
    [k \in DOMAIN cache \cup {key} |->
        IF k = key THEN [price |-> price, at |-> now] ELSE cache[k]]

\* try_fallback_price: the price of any key that starts like the symbol
\* without its prefix, on whatever chain; the map has no order.
FallbackPrices(symbol, priced) ==
    LET stems == IF symbol \in DOMAIN Stems THEN Stems[symbol] ELSE <<>>
        of(n) == {priced[key] : key \in {k \in DOMAIN priced : k[1] \in stems[n]}}
        found == {n \in DOMAIN stems : of(n) # {}}
    IN  IF found # {} THEN of(Min(found))
        ELSE IF symbol \in Stablecoins THEN {1} ELSE {0}

=============================================================================
