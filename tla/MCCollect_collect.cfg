\* Two messages, taken by either process; one call that fails, an hour.
CONSTANTS
    None = None
    d1 = d1
    d2 = d2
    Deliveries = {d1, d2}
    Scenarios <- MCScenarios
    Holdings <- MCHoldings
    NoNode = {"bnb"}
    BasePrice <- MCBasePrice
    Quoted <- MCQuoted
    Stems <- MCStems
    Stablecoins = {"USDC"}
    TicksPerHour = 1
    Attempts = 2
    MaxFaults = 1
    MaxTicks = 1
SPECIFICATION Spec
INVARIANTS
    TypeOK
    FailuresContained
PROPERTIES
    FreshPrices
    ShownStaysShown
CHECK_DEADLOCK FALSE
