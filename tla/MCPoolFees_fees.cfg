\* Two readers of a position, three moves of its pool, one call that fails.
CONSTANTS
    None = None
    r1 = r1
    r2 = r2
    Protocols = {"uniswap", "raydium"}
    Readers = {r1, r2}
    InitialPools <- OldPools
    Liquidity = 2
    Growths = {4}
    Modulus = 32
    Scale = 4
    Small = 1
    Large = 3
    Limit = 2
    MaxFees = 6
    MaxMoves = 3
    MaxReads = 3
    MaxFaults = 1
SYMMETRY ReaderSymmetry
SPECIFICATION Spec
INVARIANTS
    TypeOK
    FeesExact
    CollectedOnce
CHECK_DEADLOCK FALSE
