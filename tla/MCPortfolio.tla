---------------------------- MODULE MCPortfolio ----------------------------
(***************************************************************************)
(* Instances of Portfolio for TLC.                                         *)
(***************************************************************************)
EXTENDS Portfolio

CONSTANTS g1, w1

evm      == [kind |-> "evm", body |-> 1, upper |-> TRUE]
ethereum == [kind |-> "evm", name |-> "ethereum"]

Position(type, value) ==
    [protocol |-> IF type = "lending" THEN "aave-v3" ELSE type, chain |-> ethereum,
     type |-> type, token |-> "USDC", value |-> value, rate |-> None]

supplied == <<Position("lending", 2)>>
indebted == <<Position("lending", 2), Position("borrowing", 1)>>

MCAccounts == {evm}
MCChains == {ethereum}

SomeResults == {supplied, indebted}

\* Processing the one account finds its supply.
OnlySupplied == [p \in Pair |-> {supplied}]

Tracked == [deleted |-> FALSE, wallets |-> {evm}, updatedAt |-> 0, syncedAt |-> None]

\* The group is there, or has been deleted while its job was running.
MCInitialGroups == {[g \in Groups |-> [Tracked EXCEPT !.deleted = d]] : d \in BOOLEAN}

=============================================================================
