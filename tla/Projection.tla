----------------------------- MODULE Projection -----------------------------
(***************************************************************************)
(* The inventory a user is shown: the quantities as they are, and what     *)
(* would be left of them once every trade under way has settled (#427).    *)
(* The rows and the legs are read by two statements, and the trades and    *)
(* the stock move on in between.                                           *)
(*                                                                         *)
(* How trades move is the business of TradeLifecycle; here they take the   *)
(* same steps, on whatever legs, and an application may cancel others.     *)
(***************************************************************************)
EXTENDS Parties, Integers, Functions, FiniteSetsExt

CONSTANTS
    Merch,      \* merchandise.id
    MaxQty,     \* bound: the largest quantity of a request
    Trades,     \* matches.id
    Partners,   \* per match: user1 and user2
    Proposals,  \* per match: the legs that are offered
    Stocks,     \* the inventories to begin with
    Edits       \* the rows users set meanwhile, and to what: any i32

Rules == INSTANCE MatchRules WITH Groups <- {}, NoGroup <- NoUser

\* The tables are finite, and the legs of a match are given by its two users.
ASSUME TradeAssumption ==
    /\ IsFiniteSet(Users) /\ IsFiniteSet(Trades) /\ MaxQty \in Nat
    /\ \A d \in Trades : Partners[d] \in Users \X Users /\ Partners[d][1] # Partners[d][2]
    /\ \A d \in Trades : \A legs \in Proposals[d] :
        /\ legs \in [Rules!Legs -> 0..MaxQty]
        /\ \A l \in Rules!Legs : legs[l] > 0 => l[1] \in {Partners[d][1], Partners[d][2]}
    /\ Stocks \subseteq [Rules!Rows -> Int]
    /\ Edits \subseteq Rules!Rows \X Int

VARIABLES
    stock,   \* inventory
    trades,  \* matches and match_items
    view     \* the list a user has asked for: lists only read, so one is enough

projectionVars == <<stock, trades, view>>

Parts(d) == {Partners[d][1], Partners[d][2]}
Peer(d, u) == CHOOSE v \in Parts(d) : v # u
Shelf == Merch \X Rules!Kinds
Open == {"PENDING", "OFFERED", "ACCEPTED"}
TradeRows == [status: Open \cup {"COMPLETED", "REJECTED", "CANCELLED"},
              legs: [Rules!Legs -> Nat], completed: SUBSET Users, applied: SUBSET Users]
Views == {Idle}
         \cup [op: {"legs"}, user: Users, items: [Shelf -> Int], quiet: BOOLEAN]
         \cup [op: {"shown"}, user: Users, projected: [Shelf -> Int]]

ProjectionTypeOK ==
    /\ stock \in [Rules!Rows -> Int]
    /\ trades \in [Trades -> TradeRows]
    /\ view \in Views

ProjectionInit ==
    /\ stock \in Stocks
    /\ trades = [d \in Trades |-> [status |-> "PENDING", legs |-> Rules!NoLegs,
                                   completed |-> {}, applied |-> {}]]
    /\ view = Idle

-----------------------------------------------------------------------------
(***************************************************************************)
(* The projection                                                          *)
(***************************************************************************)
\* Mutant: the first to apply ends it for both.
ContributesOnce(d, u) ==
    /\ u \in Parts(d)
    /\ \/ trades[d].status \in {"OFFERED", "ACCEPTED"}
       \/ trades[d].status = "COMPLETED" /\ trades[d].applied = {}

\* The legs of list_inventory_projection_legs: offered, agreed, or completed
\* and not yet applied by this user.
Contributes(d, u) ==
    /\ u \in Parts(d)
    /\ \/ trades[d].status \in {"OFFERED", "ACCEPTED"}
       \/ trades[d].status = "COMPLETED" /\ u \notin trades[d].applied

\* What one leg of qty does to one kind of row of user u.
projection_leg_delta(u, giver, qty, kind) ==
    CASE kind = "HAVE" -> IF giver = u THEN -qty ELSE qty
      [] kind = "TRADE" -> IF giver = u THEN -qty ELSE 0
      [] kind = "WANT" -> IF giver = u THEN 0 ELSE -qty

\* What each leg, a trade and its giver, does to a row of u.
leg_deltas(u, row) ==
    [leg \in {d \in Trades : Contributes(d, u)} \X Users |->
        projection_leg_delta(u, leg[2], trades[leg[1]].legs[<<leg[2], row[1]>>], row[2])]

accumulate_projection_deltas(u) == [row \in Shelf |-> SumFunction(leg_deltas(u, row))]

\* Rows without stock are shown with the delta alone; nothing is clamped.
attach_projected_quantities(items, deltas) ==
    [row \in Shelf |-> items[row] + deltas[row]]

ListItems(u) ==
    /\ view.op # "legs"
    /\ view' = [op |-> "legs", user |-> u, quiet |-> TRUE,
                items |-> [r \in Shelf |-> stock[<<u, r[1], r[2]>>]]]
    /\ UNCHANGED <<stock, trades>>

ListLegs ==
    /\ view.op = "legs"
    /\ view' = [op |-> "shown", user |-> view.user,
                projected |-> attach_projected_quantities(view.items,
                                  accumulate_projection_deltas(view.user))]
    /\ UNCHANGED <<stock, trades>>

-----------------------------------------------------------------------------
(***************************************************************************)
(* What happens to trades and stock meanwhile                              *)
(***************************************************************************)
Disturb == view' = IF view.op = "legs" THEN [view EXCEPT !.quiet = FALSE] ELSE view

Moves(d, row) == trades' = [trades EXCEPT ![d] = row] /\ UNCHANGED stock /\ Disturb

ProposeTrade(d) ==
    /\ trades[d].status \in {"PENDING", "OFFERED"}
    /\ \E legs \in Proposals[d] :
        Moves(d, [trades[d] EXCEPT !.status = "OFFERED", !.legs = legs])

AgreeTrade(d) ==
    /\ trades[d].status = "OFFERED"
    /\ Moves(d, [trades[d] EXCEPT !.status = "ACCEPTED"])

\* A rejected match loses its legs; those of a cancelled one count for nothing.
DropTrade(d) ==
    /\ trades[d].status \in Open
    /\ \E st \in {"REJECTED", "CANCELLED"} :
        Moves(d, [trades[d] EXCEPT !.status = st, !.legs = Rules!NoLegs])

CompleteTrade(d, u) ==
    /\ u \in Parts(d) \ trades[d].completed
    /\ trades[d].status \in {"ACCEPTED", "COMPLETED"}
    /\ Moves(d, [trades[d] EXCEPT !.status = "COMPLETED", !.completed = @ \cup {u}])

Settled(st, d, u) ==
    Rules!AppliedInventory(st, trades[d].legs, u, Peer(d, u), FALSE, FALSE)

apply_inventory(d, u) ==
    /\ trades[d].status = "COMPLETED"
    /\ u \in trades[d].completed \ trades[d].applied
    /\ Rules!TradeCovers(stock, trades[d].legs, u)
    /\ \E skipHave, receivedFirst \in BOOLEAN :
        stock' = Rules!AppliedInventory(stock, trades[d].legs, u, Peer(d, u),
                                        skipHave, receivedFirst)
    /\ \E cancelled \in SUBSET {x \in Trades : trades[x].status \in Open} :
        trades' = [x \in Trades |->
            IF x = d THEN [trades[x] EXCEPT !.applied = @ \cup {u}]
            ELSE IF x \in cancelled
                 THEN [trades[x] EXCEPT !.status = "CANCELLED", !.legs = Rules!NoLegs]
                 ELSE trades[x]]
    /\ Disturb

EditStock(edit) ==
    /\ stock' = [stock EXCEPT ![edit[1]] = edit[2]]
    /\ UNCHANGED trades /\ Disturb

ProjectionNext ==
    \/ ListLegs \/ \E u \in Users : ListItems(u)
    \/ \E d \in Trades :
        \/ ProposeTrade(d) \/ AgreeTrade(d) \/ DropTrade(d)
        \/ \E u \in Users : CompleteTrade(d, u) \/ apply_inventory(d, u)
    \/ \E edit \in Edits : EditStock(edit)

ProjectionSpec == ProjectionInit /\ [][ProjectionNext]_projectionVars

-----------------------------------------------------------------------------
(***************************************************************************)
(* What the projection promises                                            *)
(***************************************************************************)
\* The inventory once u has applied all the trades of ds, one by one.
AllSettled(u, ds) == FoldSet(LAMBDA d, st : Settled(st, d, u), stock, ds)

Asked(u, row) ==
    SumFunction([leg \in DOMAIN leg_deltas(u, row) |->
                    Rules!AtLeastZero(-leg_deltas(u, row)[leg])])

\* When nothing moves between the two reads, the projected quantity is the one
\* left after u has completed and applied every trade under way, wherever the
\* stock covers what is asked of it; elsewhere it tells a shortage and is less.
Foretells(u, answer) ==
    LET after == AllSettled(u, {d \in Trades :
                    /\ u \in Parts(d)
                    /\ u \notin trades[d].applied
                    /\ trades[d].status \notin {"PENDING", "REJECTED", "CANCELLED"}})
    IN  \A row \in Shelf :
            IF Asked(u, row) <= stock[<<u, row[1], row[2]>>]
            THEN answer[row] = after[<<u, row[1], row[2]>>]
            ELSE answer[row] <= after[<<u, row[1], row[2]>>]

ProjectionIsTheOutcome ==
    [][view.op = "legs" /\ view'.op = "shown" /\ view.quiet
        => Foretells(view.user, view'.projected)]_projectionVars
=============================================================================
