---------------------------- MODULE WalletGroups ----------------------------
(***************************************************************************)
(* The wallet groups in MongoDB and the operations of                      *)
(* WalletGroupRepository that the workers and the snapshot job use.  A     *)
(* time is the number of a tick of the clock.                              *)
(***************************************************************************)
EXTENDS Options, Integers, FiniteSets, Sequences

CONSTANTS
    Groups,        \* wallet group ids
    Accounts,      \* account addresses
    InitialGroups, \* the collections to begin with
    MaxFaults      \* bound: operations that fail

VARIABLES
    now,      \* the clock
    groups,   \* the collection wallet_groups
    faults    \* failed operations so far, at most MaxFaults

\* The fields that the saves and the sweep look at.
Document ==
    [deleted : BOOLEAN, wallets : SUBSET Accounts, updatedAt : Nat,
     syncedAt : Nat \cup {None}]

ASSUME WalletGroupsAssumption ==
    /\ None \notin Nat /\ IsFiniteSet(Accounts)
    /\ InitialGroups \subseteq [Groups -> Document]
    /\ MaxFaults \in Nat

GroupsTypeOK ==
    /\ now \in Nat
    /\ groups \in [Groups -> Document]
    /\ faults \in 0..MaxFaults

GroupsInit ==
    /\ now = 0
    /\ groups \in InitialGroups
    /\ faults = 0

----------------------------------------------------------------------------
(* WalletGroupRepository                                                   *)

Fault ==
    /\ faults < MaxFaults
    /\ faults' = faults + 1

\* The filter of every operation.
Stored(g) == ~groups[g].deleted

\* list, for the snapshot job: of every user.
ListGroups == {g \in Groups : Stored(g)}

\* update_last_synced_at
Synced(g) == IF Stored(g) THEN [groups EXCEPT ![g].syncedAt = now] ELSE groups

\* backfill_last_synced_at: the cursor over the groups without lastSyncedAt,
\* and one update by id for each, whatever has become of it since.
Lacking ==
    LET lacking == {g \in Groups : Stored(g) /\ groups[g].syncedAt = None}
    IN  [g \in lacking |-> groups[g].updatedAt]

Backfilled(g, at) == [groups EXCEPT ![g].syncedAt = at]

=============================================================================
