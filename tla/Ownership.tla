----------------------------- MODULE Ownership -----------------------------
(***************************************************************************)
(* What the code promises of an owned thing, an event or a merchandise     *)
(* group: from its creation to its end it has one owner at a time, the     *)
(* owner alone holds the creator role in it, and both change in one step.  *)
(***************************************************************************)
CONSTANTS
    People,
    Nobody     \* no owner: a row older than the ownership column

VARIABLES
    owner,     \* Unborn, OwnedBy(u) or Dead
    holders    \* who holds the creator role

vars == <<owner, holders>>

Unborn == <<"unborn">>
Dead == <<"dead">>
OwnedBy(u) == <<"owned", u>>
Owned == owner \in {OwnedBy(u) : u \in People \cup {Nobody}}

Init ==
    \/ owner = Unborn /\ holders = {}
    \/ \E u \in People \cup {Nobody} : owner = OwnedBy(u) /\ holders = {u} \ {Nobody}

Create(u) ==
    /\ owner = Unborn
    /\ owner' = OwnedBy(u)
    /\ holders' = {u}

Transfer(u) ==
    /\ Owned
    /\ owner # OwnedBy(u)
    /\ owner' = OwnedBy(u)
    /\ holders' = {u}

\* The role may outlive the thing, and nothing changes any more.
End ==
    /\ Owned
    /\ owner' = Dead
    /\ holders' \in {holders, {}}

Next == End \/ \E u \in People : Create(u) \/ Transfer(u)

Spec == Init /\ [][Next]_vars

=============================================================================
