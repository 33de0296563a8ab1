\* Two accounts of a wallet group that lend the same token; nothing fails.
CONSTANTS
    None = None
    d1 = d1
    d2 = d2
    Deliveries = {d1, d2}
    Scenarios <- TwoAccounts
    Holdings <- MCHoldings
    NoNode = {"bnb"}
    BasePrice <- MCBasePrice
    Quoted <- MCQuoted
    Stems <- MCStems
    Stablecoins = {"USDC"}
    TicksPerHour = 1
    Attempts = 2
    MaxFaults = 0
    MaxTicks = 0
SPECIFICATION Spec
INVARIANTS
    OnlyDuplicatesDropped
CHECK_DEADLOCK FALSE
