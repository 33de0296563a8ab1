---------------------------- MODULE MCJobPolling ----------------------------
(***************************************************************************)
(* Instances of JobPolling for TLC: a wallet and a wallet group.           *)
(***************************************************************************)
EXTENDS JobPolling, TLC

CONSTANTS wallet, group, a1, a2, b1

\* The wallet may get a second job when its first has ended.
TwoJobsAndOne == (wallet :> {a1, a2}) @@ (group :> {b1})

=============================================================================
