------------------------------ MODULE FeeGrowth ------------------------------
(***************************************************************************)
(* The fees that a concentrated liquidity position has earned and not yet  *)
(* collected, as UniswapV3Service and RaydiumService compute them from the *)
(* fee growth counters of the pool and of the two ticks that bound the     *)
(* position.  The counters wrap around.                                    *)
(***************************************************************************)
EXTENDS Integers

CONSTANTS
    Modulus,  \* 2^256 for Uniswap, 2^128 for Raydium
    Scale     \* the fixed point of the counters: 2^128, 2^64

ASSUME FeeGrowthAssumption ==
    /\ Modulus \in Nat /\ Scale \in Nat \ {0}
    /\ Modulus > Scale

\* Faulty variant: a difference below zero is taken for nothing.
SubtractSaturating(a, b) == IF a >= b THEN a - b ELSE 0

\* subtract_uint256, subtract_u128: the difference of two counters, the
\* second of which may be ahead of the first.
Subtract(a, b) == IF a >= b THEN a - b ELSE (Modulus - 1) - b + a + 1

\* calculate_fee_growth_inside
GrowthInside(tick, lower, upper, global, outsideLower, outsideUpper) ==
    LET below == IF tick >= lower THEN outsideLower ELSE Subtract(global, outsideLower)
        above == IF tick < upper THEN outsideUpper ELSE Subtract(global, outsideUpper)
    IN  Subtract(Subtract(global, below), above)

\* calculate_uncollected_fees, in numbers of any size.
UniswapFees(liquidity, inside, last) == (liquidity * Subtract(inside, last)) \div Scale

\* calculate_fees_from_ticks, in 128 bits; owed is what the position was
\* credited with before.
RaydiumFees(liquidity, inside, last, owed) ==
    owed + ((liquidity * Subtract(inside, last)) % Modulus) \div Scale

=============================================================================
