------------------------------- MODULE Options -------------------------------
(***************************************************************************)
(* None stands for an Option that holds nothing.                           *)
(***************************************************************************)
CONSTANT None

=============================================================================
