----------------------------- MODULE MatchRules -----------------------------
(***************************************************************************)
(* The vocabulary of a trade and its pure rules: what a match is keyed by, *)
(* what a proposal may contain, when two users can trade at all, and what  *)
(* applying a completed trade does to one user's inventory.  Nothing here  *)
(* has state: every operator reads the tables it is given, so that a       *)
(* transaction can evaluate it over the committed rows together with its   *)
(* own uncommitted writes.                                                 *)
(***************************************************************************)
EXTENDS Integers, Functions, FiniteSets

CONSTANTS
    Users,      \* users.id
    Merch,      \* merchandise.id
    Groups,     \* merchandise groups, the pairs (event_id, group_name)
    NoGroup,    \* a NULL or empty group_name
    NoUser,     \* a NULL offered_by
    MaxQty      \* bound: the largest quantity a request carries

ASSUME GroupAssumption == NoGroup \notin Groups
ASSUME UserAssumption == NoUser \notin Users
ASSUME QtyAssumption == MaxQty \in Nat \ {0}
\* Tables have finitely many rows.
ASSUME TablesAssumption == IsFiniteSet(Users) /\ IsFiniteSet(Merch) /\ IsFiniteSet(Groups)

(***************************************************************************)
(* Inventory rows are keyed by (user, merch, status); a missing row and a  *)
(* row of quantity 0 are the same to every query.                          *)
(***************************************************************************)
Kinds == {"HAVE", "WANT", "TRADE"}
Rows == Users \X Merch \X Kinds

(***************************************************************************)
(* One match per unordered pair of users and group (the unique index       *)
(* idx_matches_unique_pair_group), so that key stands for the match id.    *)
(***************************************************************************)
Pairs == {p \in SUBSET Users : \E u, v \in Users : u # v /\ p = {u, v}}
Keys == Pairs \X Groups
Participants(k) == k[1]
GroupOf(k) == k[2]
OtherParticipant(k, u) == CHOOSE v \in Participants(k) : v # u

(***************************************************************************)
(* A leg is (giver, merch); match_items holds at most one row per leg, and *)
(* quantity 0 stands for no row.  The items of a request give quantities   *)
(* to some of the legs.                                                    *)
(***************************************************************************)
Legs == Users \X Merch
NoLegs == [l \in Legs |-> 0]
Items == UNION {[D -> 0..MaxQty] : D \in SUBSET Legs}

Active == {"PENDING", "OFFERED", "ACCEPTED"}
Terminal == {"REJECTED", "CANCELLED"}
Statuses == Active \cup Terminal \cup {"NONE", "COMPLETED"}

Least(a, b) == IF a < b THEN a ELSE b
AtLeastZero(n) == IF n < 0 THEN 0 ELSE n

-----------------------------------------------------------------------------
(***************************************************************************)
(* What giver could hand to receiver inside group g: over the live merch   *)
(* of the group, the smaller of the giver's TRADE and the receiver's WANT. *)
(* The code makes an i32 of this sum, and of the totals of IsBalanced:     *)
(* they are taken to stay below 2^31 (bound).                              *)
(***************************************************************************)
MutualCapacity(iv, grp, lv, giver, receiver, g) ==
    SumFunction([m \in Merch |->
        IF /\ iv[<<giver, m, "TRADE">>] > 0
           /\ iv[<<receiver, m, "WANT">>] > 0
           /\ grp[m] = g
           /\ m \in lv
        THEN Least(iv[<<giver, m, "TRADE">>], iv[<<receiver, m, "WANT">>])
        ELSE 0])

RequiresCancel(iv, grp, lv, k) ==
    \E u \in Participants(k) :
        MutualCapacity(iv, grp, lv, u, OtherParticipant(k, u), GroupOf(k)) <= 0

(***************************************************************************)
(* A positive leg must be covered by its receiver's WANT and by its        *)
(* giver's TRADE; both participants' maps are read, HAVE is no gate.       *)
(***************************************************************************)
LegsWithinCapacity(iv, k, items) ==
    \A l \in DOMAIN items :
        /\ l[1] \in Participants(k)
        /\ items[l] > 0 =>
             /\ items[l] <= iv[OtherParticipant(k, l[1]), l[2], "WANT"]
             /\ items[l] <= iv[l[1], l[2], "TRADE"]

PresentLegs(lg) == [l \in {x \in Legs : lg[x] > 0} |-> lg[l]]

\* Mutant: ON CONFLICT adds to the quantity of the leg.
UpsertAddsUp(lg, items) ==
    [l \in Legs |-> IF l \in DOMAIN items THEN lg[l] + items[l] ELSE lg[l]]

UpsertLegs(lg, items) ==
    [l \in Legs |-> IF l \in DOMAIN items THEN items[l] ELSE lg[l]]

TotalGiven(lg, u) == SumFunction([m \in Merch |-> lg[<<u, m>>]])

IsBalanced(lg, k) ==
    \A u, v \in Participants(k) :
        TotalGiven(lg, u) = TotalGiven(lg, v) /\ TotalGiven(lg, u) > 0

(***************************************************************************)
(* The inventory after user u has applied a trade of legs lg with peer:    *)
(* TRADE falls by what u gives (the caller gates it), WANT falls by what u *)
(* receives and HAVE by what u gives, both clamped at 0, and HAVE rises by *)
(* what u receives.  Legs are applied giver by giver, so when u gives and  *)
(* receives the same merch the clamp depends on whose legs come first.     *)
(***************************************************************************)
AppliedInventory(iv, lg, u, peer, skipHave, receivedFirst) ==
    [r \in Rows |->
        LET m == r[2]
            given == IF skipHave THEN 0 ELSE lg[<<u, m>>]
            received == lg[<<peer, m>>]
        IN  IF r[1] # u THEN iv[r]
            ELSE IF r[3] = "TRADE" THEN iv[r] - lg[<<u, m>>]
            ELSE IF r[3] = "WANT"
                 THEN IF received > 0 THEN AtLeastZero(iv[r] - received) ELSE iv[r]
            ELSE IF given = 0 THEN iv[r] + received
            ELSE IF receivedFirst THEN AtLeastZero(iv[r] + received - given)
            ELSE AtLeastZero(iv[r] - given) + received]

\* The inventory rows an application of legs lg by u writes, and so locks.
AppliedRows(lg, u, peer, skipHave) ==
    {r \in Rows :
        /\ r[1] = u
        /\ \/ r[3] = "TRADE" /\ lg[<<u, r[2]>>] > 0
           \/ r[3] = "HAVE" /\ lg[<<u, r[2]>>] > 0 /\ ~skipHave
           \/ r[3] \in {"HAVE", "WANT"} /\ lg[<<peer, r[2]>>] > 0}

\* Mutant: TRADE is no gate, as HAVE.
TradeUngated(iv, lg, u) == lg \in [Legs -> 0..MaxQty]

TradeCovers(iv, lg, u) ==
    \A m \in Merch : lg[<<u, m>>] > 0 => iv[<<u, m, "TRADE">>] >= lg[<<u, m>>]

=============================================================================
