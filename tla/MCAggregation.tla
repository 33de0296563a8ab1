--------------------------- MODULE MCAggregation ---------------------------
(***************************************************************************)
(* Instances of Aggregation for TLC: addresses, chains and requests.       *)
(***************************************************************************)
EXTENDS Aggregation

CONSTANTS r1, r2, r3, g1, w1, w2

evmAccount    == [kind |-> "evm", body |-> 1, upper |-> FALSE]
evmUpperCase  == [evmAccount EXCEPT !.upper = TRUE]
solanaAccount == [kind |-> "solana", body |-> 2, upper |-> TRUE]
ethereum      == [kind |-> "evm", name |-> "ethereum"]
solana        == [kind |-> "solana", name |-> "solana"]

\* One account on one chain: one message per job.
OneAccount    == [r \in Requests |-> <<evmAccount>>]
OneChain      == [r \in Requests |-> <<ethereum>>]

\* One account in two spellings: two messages, one unit.
TwoSpellings  == [r \in Requests |-> <<evmAccount, evmUpperCase>>]

\* Two accounts on two chains, of which two pairs are compatible.
TwoAccounts   == [r \in Requests |-> <<evmAccount, solanaAccount>>]
MixedChains   == [r \in Requests |-> <<ethereum, solana>>]

\* The third request asks for a chain that its account is not on: its job has
\* no message.
TwoServed     == [r \in Requests |-> IF r = r3 THEN <<solana>> ELSE <<ethereum>>]

InGroup       == [r \in Requests |-> g1]
OneOutside    == [r \in Requests |-> IF r = r2 THEN NoGroup ELSE g1]
Ungrouped     == [r \in Requests |-> NoGroup]

=============================================================================
