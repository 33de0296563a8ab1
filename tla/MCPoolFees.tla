----------------------------- MODULE MCPoolFees -----------------------------
(***************************************************************************)
(* Instances of PoolFees for TLC.                                          *)
(***************************************************************************)
EXTENDS PoolFees

CONSTANTS r1, r2

\* A pool that has lived for long: its counter is about to wrap, and each
\* tick was last crossed at some time.
OldPool(tick, lower, upper) ==
    LET p == [tick |-> tick, global |-> Modulus - 2,
              outside |-> [lower |-> lower, upper |-> upper],
              last |-> 0, owed |-> 0, grown |-> 0, paid |-> <<>>]
    IN  [p EXCEPT !.last = InsideOf(p)]

ReaderSymmetry == Permutations(Readers)

OldPools == {OldPool(1, 3, Modulus - 3), OldPool(0, Modulus - 3, 5)}

=============================================================================
