----------------------------- MODULE Addresses -----------------------------
(***************************************************************************)
(* Account addresses and chains as the aggregation code tells them apart.  *)
(*                                                                         *)
(* An address is a record: `kind` is the family its text has the shape of  *)
(* ("evm": 0x and 42 characters, "solana": base58 of 32 to 44 characters,  *)
(* "other": neither), `body` identifies it up to letter case and `upper`   *)
(* says whether its first letter is written in upper case.  A chain is a   *)
(* record whose `kind` is "solana", "evm" (one of the seven EVM names the  *)
(* code lists) or "other" (any other name).                                *)
(***************************************************************************)
EXTENDS Integers, Sequences, TLC

AddressKinds == {"evm", "solana", "other"}

Address == [kind : AddressKinds, body : Nat, upper : BOOLEAN]
Chain   == [kind : AddressKinds, name : STRING]

\* is_chain_compatible: a chain of a known family takes the addresses of
\* that family, a chain the code does not know takes every address.
IsChainCompatible(account, chain) ==
    chain.kind \in {"evm", "solana"} => account.kind = chain.kind

\* str::to_lowercase on an address.
ToLower(account) == [account EXCEPT !.upper = FALSE]

\* Byte order of two addresses: every upper case letter sorts before every
\* lower case one.
ByteLess(a, b) ==
    \/ a.upper /\ ~b.upper
    \/ a.upper = b.upper /\ a.body < b.body

\* The comparison of find_active_job: both lists are sorted first and
\* lowered afterwards.
SortedLower(accounts) ==
    LET sorted == SortSeq(accounts, ByteLess)
    IN  [i \in DOMAIN sorted |-> ToLower(sorted[i])]

SameAccounts(stored, requested) == SortedLower(stored) = SortedLower(requested)

=============================================================================
