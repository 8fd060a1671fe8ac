--------------------------- MODULE TradeLifecycle ---------------------------
(***************************************************************************)
(* The match lifecycle over PostgreSQL at READ COMMITTED: the service's    *)
(* transactions, the inventory and merchandise writes that cancel matches, *)
(* and the periodic matcher that creates and reopens them.                 *)
(*                                                                         *)
(* A request is served by a session.  A transaction whose decision depends *)
(* on rows it does not lock is split where that matters: its first step    *)
(* takes the row locks, reads the committed tables (and its own writes)    *)
(* and decides; its last step makes the writes visible.  Other sessions    *)
(* run in between.  A transaction that only depends on the match row it    *)
(* holds FOR UPDATE is one step.  A step that would wait for a row lock is *)
(* not enabled while another session holds the lock.                       *)
(***************************************************************************)
EXTENDS MatchRules, Sequences, FiniteSets

CONSTANTS
    Sessions,     \* concurrent database sessions serving requests
    EditRows,     \* inventory rows that users edit, a subset of Rows
    MovableMerch, \* merch that its editor moves to another group
    DeletableMerch, \* merch that its creator or an admin deletes
    BannableUsers,  \* users an admin bans and unbans
    HomeGroup,    \* the group each merch is created in
    Stocks,       \* the inventories users may have entered before the run starts
    Entries,      \* the quantities users enter: update_inventory takes any i32
    MaxItems,     \* bound: the items of one offer
    MaxRematch    \* bound: the times one match is reopened

ASSUME EditAssumption == EditRows \subseteq Rows
ASSUME MerchAssumption ==
    MovableMerch \subseteq Merch /\ DeletableMerch \subseteq Merch
ASSUME BanAssumption == BannableUsers \subseteq Users
ASSUME HomeAssumption == HomeGroup \in [Merch -> Groups]
\* Neither the handler nor the table refuses a negative quantity.
ASSUME StockAssumption == Stocks \subseteq [Rows -> Int]
ASSUME EntryAssumption == Entries \subseteq Int
ASSUME BoundAssumption == MaxItems \in Nat /\ MaxRematch \in Nat

VARIABLES
    inv,      \* committed inventory: quantity of each row
    group,    \* merchandise.group_name
    live,     \* merch with is_deleted = false and trade_enabled = true
    banned,   \* users with is_banned = true
    matches,  \* the matches table with its match_items and SYSTEM messages
    tx,       \* what the transaction of each session has read and decided
    pass      \* the matcher's loop variables

tables == <<inv, group, live, banned, matches>>
vars == <<inv, group, live, banned, matches, tx, pass>>

-----------------------------------------------------------------------------
(***************************************************************************)
(* Types                                                                   *)
(***************************************************************************)
CancelReasons == {"INVENTORY_CAPACITY", "MERCH_DELETED"}
RematchReasons == {"REMATCH_AFTER_REJECTED", "REMATCH_AFTER_CANCELLED"}

MatchRow == [status: Statuses,
             offeredBy: Users \cup {NoUser},
             legs: [Legs -> 0..MaxQty],
             completed: SUBSET Users,   \* user{1,2}_completed_at is set
             applied: SUBSET Users,     \* user{1,2}_inventory_applied_at is set
             notices: Seq(CancelReasons \cup RematchReasons)]

NoMatch == [status |-> "NONE", offeredBy |-> NoUser, legs |-> NoLegs,
            completed |-> {}, applied |-> {}, notices |-> <<>>]

Idle == [op |-> "idle"]
OfferTx == [op: {"offer"}, user: Users, key: Keys, items: Items]
AcceptTx == [op: {"accept"}, user: Users, key: Keys]
GateTx == [op: {"gate"}, user: Users, key: Keys, skipHave: BOOLEAN]
ApplyTx == [op: {"apply"}, user: Users, key: Keys, skipHave: BOOLEAN,
            cancels: SUBSET Keys]
EditTx == [op: {"edit"}, row: Rows, qty: Int, cancels: SUBSET Keys]
DeleteTx == [op: {"delete"}, merch: Merch, cancels: SUBSET Keys]
Transactions == {Idle} \cup OfferTx \cup AcceptTx \cup GateTx \cup ApplyTx
                  \cup EditTx \cup DeleteTx

\* A matchable WANT row: who wants what, in which group.
Want == Users \X Merch \X Groups
IdlePass == [pc |-> "idle"]
Passes ==
    {IdlePass}
      \cup [pc: {"wants"}, wants: SUBSET Want]
      \cup [pc: {"partners"}, wants: SUBSET Want, want: Want, partners: SUBSET Users]
      \cup [pc: {"trades"}, wants: SUBSET Want, want: Want, partners: SUBSET Users,
            partner: Users, trades: SUBSET Merch]
      \cup [pc: {"ensure"}, wants: SUBSET Want, want: Want, partners: SUBSET Users,
            partner: Users]

(***************************************************************************)
(* Every table, transaction and loop variable keeps its type.              *)
(***************************************************************************)
TypeOK ==
    /\ inv \in [Rows -> Int]
    /\ group \in [Merch -> Groups \cup {NoGroup}]
    /\ live \in SUBSET Merch
    /\ banned \in SUBSET Users
    /\ matches \in [Keys -> MatchRow]
    /\ tx \in [Sessions -> Transactions]
    /\ pass \in Passes

Init ==
    /\ inv \in Stocks
    /\ group = HomeGroup
    /\ live = Merch
    /\ banned = {}
    /\ matches = [k \in Keys |-> NoMatch]
    /\ tx = [s \in Sessions |-> Idle]
    /\ pass = IdlePass

-----------------------------------------------------------------------------
(***************************************************************************)
(* Row locks: held by a transaction, and awaited by its next step.  A      *)
(* transaction that holds nothing yet waits with the ...Free guards.       *)
(***************************************************************************)
HoldsMatch(t, k) == tx[t].op \in {"offer", "accept", "gate", "apply"} /\ tx[t].key = k
\* Mutant: the match row is read without FOR UPDATE.
MatchFreeUnlocked(s, k) == k \in Keys
MatchFree(s, k) == \A t \in Sessions \ {s} : ~HoldsMatch(t, k)

HeldRows(t) ==
    IF tx[t].op = "edit" THEN {tx[t].row}
    ELSE IF tx[t].op = "apply"
         THEN LET u == tx[t].user
                  k == tx[t].key
              IN  AppliedRows(matches[k].legs, u, OtherParticipant(k, u), tx[t].skipHave)
         ELSE {}
RowsFree(s, rs) == \A t \in Sessions \ {s} : HeldRows(t) \cap rs = {}

HoldsMerch(t, m) == tx[t].op = "delete" /\ tx[t].merch = m
MerchFree(s, m) == \A t \in Sessions \ {s} : ~HoldsMerch(t, m)

AwaitedMatches(s) == IF tx[s].op \in {"apply", "edit", "delete"} THEN tx[s].cancels ELSE {}

AwaitedRows(s) ==
    IF tx[s].op = "gate"
    THEN LET u == tx[s].user
             k == tx[s].key
         IN  AppliedRows(matches[k].legs, u, OtherParticipant(k, u), tx[s].skipHave)
    ELSE {}

\* A new leg references its merch: the foreign key check waits for a delete.
AwaitedMerch(s) ==
    IF tx[s].op = "offer"
    THEN {l[2] : l \in {x \in DOMAIN tx[s].items :
                          tx[s].items[x] > 0 /\ matches[tx[s].key].legs[x] = 0}}
    ELSE {}

WaitsFor(s, t) ==
    /\ t # s
    /\ \/ \E k \in AwaitedMatches(s) : HoldsMatch(t, k)
       \/ AwaitedRows(s) \cap HeldRows(t) # {}
       \/ \E m \in AwaitedMerch(s) : HoldsMerch(t, m)

Granted(s) == \A t \in Sessions : ~WaitsFor(s, t)

-----------------------------------------------------------------------------
(***************************************************************************)
(* System cancel: which active matches a write condemns, evaluated on the  *)
(* tables given, and the conditional UPDATE that cancels them.             *)
(***************************************************************************)
ActiveKeys == {k \in Keys : matches[k].status \in Active}

\* Mutant: an agreed match is thought safe from a loss of capacity.
ZeroCapacityButAccepted(iv, u) ==
    {k \in ActiveKeys : /\ u \in Participants(k)
                        /\ matches[k].status # "ACCEPTED"
                        /\ RequiresCancel(iv, group, live, k)}
\* Mutant: every match of the user is cancelled, whatever capacity is left.
AnyMatchOfUser(iv, u) == {k \in ActiveKeys : u \in Participants(k)}

ZeroCapacityOfUser(iv, u) ==
    {k \in ActiveKeys : u \in Participants(k) /\ RequiresCancel(iv, group, live, k)}

\* Mutant: a match is spared while the rest of the group keeps its capacity.
CondemnedByCapacityOnly(m) ==
    {k \in ActiveKeys : GroupOf(k) = group[m] /\ RequiresCancel(inv, group, live \ {m}, k)}

CondemnedByDelete(m) ==
    {k \in ActiveKeys :
        \/ \E u \in Users : matches[k].legs[<<u, m>>] > 0
        \/ GroupOf(k) = group[m] /\ RequiresCancel(inv, group, live \ {m}, k)}

\* Mutant: the UPDATE does not test the status again.
CancelUnconditionally(ks, reason) ==
    [k \in Keys |->
        IF k \in ks
        THEN [matches[k] EXCEPT !.status = "CANCELLED",
                                !.notices = Append(@, reason)]
        ELSE matches[k]]

SystemCancelMatches(ks, reason) ==
    [k \in Keys |->
        IF k \in ks /\ matches[k].status \in Active
        THEN [matches[k] EXCEPT !.status = "CANCELLED",
                                !.notices = Append(@, reason)]
        ELSE matches[k]]

-----------------------------------------------------------------------------
(***************************************************************************)
(* Offer and counter-offer                                                 *)
(***************************************************************************)
MayPropose(row, u) ==
    \/ row.status = "PENDING"
    \/ row.status = "OFFERED" /\ row.offeredBy # u

\* What a request to offer may carry: between one and MaxItems legs.
OfferInputs(k) ==
    UNION {[D -> 0..MaxQty] :
        D \in {L \in SUBSET (Participants(k) \X Merch) :
                 L # {} /\ Cardinality(L) <= MaxItems}}

OfferBegin(s, k, u, items) ==
    /\ tx[s] = Idle
    /\ MatchFree(s, k)
    /\ u \in Participants(k)
    /\ MayPropose(matches[k], u)
    /\ \A l \in DOMAIN items : group[l[2]] = GroupOf(k) /\ l[2] \in live
    /\ LegsWithinCapacity(inv, k, items)
    /\ tx' = [tx EXCEPT ![s] = [op |-> "offer", user |-> u, key |-> k, items |-> items]]
    /\ UNCHANGED <<tables, pass>>

OfferCommit(s) ==
    /\ tx[s].op = "offer"
    /\ Granted(s)
    /\ LET k == tx[s].key
       IN  matches' = [matches EXCEPT
                ![k].status = "OFFERED",
                ![k].offeredBy = tx[s].user,
                ![k].legs = UpsertLegs(@, tx[s].items)]
    /\ tx' = [tx EXCEPT ![s] = Idle]
    /\ UNCHANGED <<inv, group, live, banned, pass>>

(***************************************************************************)
(* Accept, reject and complete (change_status)                             *)
(***************************************************************************)
AcceptBegin(s, k, u) ==
    /\ tx[s] = Idle
    /\ MatchFree(s, k)
    /\ u \in Participants(k)
    /\ matches[k].status = "OFFERED"
    /\ u # matches[k].offeredBy
    /\ IsBalanced(matches[k].legs, k)
    /\ LegsWithinCapacity(inv, k, PresentLegs(matches[k].legs))
    /\ tx' = [tx EXCEPT ![s] = [op |-> "accept", user |-> u, key |-> k]]
    /\ UNCHANGED <<tables, pass>>

AcceptCommit(s) ==
    /\ tx[s].op = "accept"
    /\ matches' = [matches EXCEPT ![tx[s].key].status = "ACCEPTED"]
    /\ tx' = [tx EXCEPT ![s] = Idle]
    /\ UNCHANGED <<inv, group, live, banned, pass>>

Reject(s, k, u) ==
    /\ tx[s] = Idle
    /\ MatchFree(s, k)
    /\ u \in Participants(k)
    /\ matches[k].status \in {"PENDING", "OFFERED"}
    /\ matches' = [matches EXCEPT ![k].status = "REJECTED", ![k].legs = NoLegs]
    /\ UNCHANGED <<inv, group, live, banned, tx, pass>>

Complete(s, k, u) ==
    /\ tx[s] = Idle
    /\ MatchFree(s, k)
    /\ u \in Participants(k)
    /\ \/ matches[k].status = "ACCEPTED"
       \/ matches[k].status = "COMPLETED" /\ u \notin matches[k].completed
    /\ matches' = [matches EXCEPT ![k].status = "COMPLETED",
                                  ![k].completed = @ \cup {u}]
    /\ UNCHANGED <<inv, group, live, banned, tx, pass>>

(***************************************************************************)
(* Apply inventory.  The TRADE gate is read in the snapshot of the         *)
(* statement that then waits for the inventory rows; the rows are written  *)
(* as they are when the wait is over.                                      *)
(***************************************************************************)
\* Mutant: a user who has applied may apply again.
ApplyAgain(s, k, u, skipHave) ==
    /\ tx[s] = Idle
    /\ MatchFree(s, k)
    /\ u \in Participants(k)
    /\ matches[k].status = "COMPLETED"
    /\ u \in matches[k].completed
    /\ TradeCovers(inv, matches[k].legs, u)
    /\ tx' = [tx EXCEPT ![s] =
                [op |-> "gate", user |-> u, key |-> k, skipHave |-> skipHave]]
    /\ UNCHANGED <<tables, pass>>

ApplyGate(s, k, u, skipHave) ==
    /\ tx[s] = Idle
    /\ MatchFree(s, k)
    /\ u \in Participants(k)
    /\ matches[k].status = "COMPLETED"
    /\ u \in matches[k].completed
    /\ u \notin matches[k].applied
    /\ TradeCovers(inv, matches[k].legs, u)
    /\ tx' = [tx EXCEPT ![s] =
                [op |-> "gate", user |-> u, key |-> k, skipHave |-> skipHave]]
    /\ UNCHANGED <<tables, pass>>

\* Whether u's legs move TRADE or WANT, so that other matches may lose capacity.
CapacityChanged(k) == \E l \in Legs : matches[k].legs[l] > 0

ApplyWrite(s) ==
    /\ tx[s].op = "gate"
    /\ Granted(s)
    /\ LET k == tx[s].key
           u == tx[s].user
           after == AppliedInventory(inv, matches[k].legs, u, OtherParticipant(k, u),
                                     tx[s].skipHave, FALSE)
       IN  tx' = [tx EXCEPT ![s] =
                [op |-> "apply", user |-> u, key |-> k, skipHave |-> tx[s].skipHave,
                 cancels |-> IF CapacityChanged(k) THEN ZeroCapacityOfUser(after, u)
                             ELSE {}]]
    /\ UNCHANGED <<tables, pass>>

ApplyCommit(s) ==
    /\ tx[s].op = "apply"
    /\ Granted(s)
    /\ LET k == tx[s].key
           u == tx[s].user
       IN  /\ \E receivedFirst \in BOOLEAN :
                inv' = AppliedInventory(inv, matches[k].legs, u, OtherParticipant(k, u),
                                        tx[s].skipHave, receivedFirst)
           /\ matches' = [SystemCancelMatches(tx[s].cancels, "INVENTORY_CAPACITY")
                            EXCEPT ![k].applied = @ \cup {u}]
    /\ tx' = [tx EXCEPT ![s] = Idle]
    /\ UNCHANGED <<group, live, banned, pass>>

(***************************************************************************)
(* A user sets one inventory row                                           *)
(***************************************************************************)
EditBegin(s, r, q) ==
    /\ tx[s] = Idle
    /\ RowsFree(s, {r})
    /\ tx' = [tx EXCEPT ![s] =
                [op |-> "edit", row |-> r, qty |-> q,
                 cancels |-> IF r[3] \in {"WANT", "TRADE"}
                             THEN ZeroCapacityOfUser([inv EXCEPT ![r] = q], r[1])
                             ELSE {}]]
    /\ UNCHANGED <<tables, pass>>

EditCommit(s) ==
    /\ tx[s].op = "edit"
    /\ Granted(s)
    /\ inv' = [inv EXCEPT ![tx[s].row] = tx[s].qty]
    /\ matches' = SystemCancelMatches(tx[s].cancels, "INVENTORY_CAPACITY")
    /\ tx' = [tx EXCEPT ![s] = Idle]
    /\ UNCHANGED <<group, live, banned, pass>>

(***************************************************************************)
(* Merch soft-delete and group move                                        *)
(***************************************************************************)
DeleteBegin(s, m) ==
    /\ tx[s] = Idle
    /\ MerchFree(s, m)
    /\ tx' = [tx EXCEPT ![s] =
                [op |-> "delete", merch |-> m, cancels |-> CondemnedByDelete(m)]]
    /\ UNCHANGED <<tables, pass>>

\* Mutant: the merch row is removed and its legs go with it.
DeleteCascades(s) ==
    /\ tx[s].op = "delete"
    /\ Granted(s)
    /\ live' = live \ {tx[s].merch}
    /\ LET after == SystemCancelMatches(tx[s].cancels, "MERCH_DELETED")
       IN  matches' = [k \in Keys |->
              [after[k] EXCEPT !.legs =
                 [l \in Legs |-> IF l[2] = tx[s].merch THEN 0 ELSE @[l]]]]
    /\ tx' = [tx EXCEPT ![s] = Idle]
    /\ UNCHANGED <<inv, group, banned, pass>>

DeleteCommit(s) ==
    /\ tx[s].op = "delete"
    /\ Granted(s)
    /\ live' = live \ {tx[s].merch}
    /\ matches' = SystemCancelMatches(tx[s].cancels, "MERCH_DELETED")
    /\ tx' = [tx EXCEPT ![s] = Idle]
    /\ UNCHANGED <<inv, group, banned, pass>>

\* The new leg's key share lock does not conflict with this update's lock.
MoveMerch(s, m, g) ==
    /\ tx[s] = Idle
    /\ MerchFree(s, m)
    /\ m \in live
    /\ group' = [group EXCEPT ![m] = g]
    /\ UNCHANGED <<inv, live, banned, matches, tx, pass>>

SetBanned(u) ==
    /\ \/ banned' = banned \cup {u}
       \/ banned' = banned \ {u}
    /\ UNCHANGED <<inv, group, live, matches, tx, pass>>

\* A statement fails, the connection drops, or the database picks a deadlock
\* victim: the transaction leaves nothing behind.
Rollback(s) ==
    /\ tx[s] # Idle
    /\ tx' = [tx EXCEPT ![s] = Idle]
    /\ UNCHANGED <<tables, pass>>

-----------------------------------------------------------------------------
(***************************************************************************)
(* The periodic matcher: one query per step, on the tables of that moment  *)
(***************************************************************************)
\* m is on the table of a match that u is negotiating.
LockedFor(u, m) ==
    \E k \in Keys :
        /\ u \in Participants(k)
        /\ matches[k].status \in {"OFFERED", "ACCEPTED"}
        /\ \E giver \in Users : matches[k].legs[<<giver, m>>] > 0

MatchableWants ==
    {w \in Want :
        /\ inv[<<w[1], w[2], "WANT">>] > 0
        /\ w[2] \in live
        /\ group[w[2]] = w[3]
        /\ w[1] \notin banned
        /\ ~LockedFor(w[1], w[2])}

\* Mutant: partners are not tested for a ban.
AnyoneTradingMerch(m, exclude) ==
    {u \in Users \ {exclude} :
        inv[<<u, m, "TRADE">>] > 0 /\ m \in live /\ ~LockedFor(u, m)}

UsersTradingMerch(m, exclude) ==
    {u \in Users \ {exclude} :
        inv[<<u, m, "TRADE">>] > 0 /\ m \in live /\ u \notin banned /\ ~LockedFor(u, m)}

TradeMerchInGroup(u, g) ==
    {m \in Merch : inv[<<u, m, "TRADE">>] > 0 /\ group[m] = g /\ m \in live}

WantsLiveMerch(u, m) == inv[<<u, m, "WANT">>] > 0 /\ m \in live

\* The loops that are left once the current partner is done with.
NextPartner(p) ==
    IF p.partners # {}
    THEN [pc |-> "partners", wants |-> p.wants, want |-> p.want, partners |-> p.partners]
    ELSE IF p.wants # {} THEN [pc |-> "wants", wants |-> p.wants]
    ELSE IdlePass

StartPass ==
    /\ pass = IdlePass
    /\ MatchableWants # {}
    /\ pass' = [pc |-> "wants", wants |-> MatchableWants]
    /\ UNCHANGED <<tables, tx>>

ListPartners(w) ==
    /\ pass.pc = "wants"
    /\ w \in pass.wants
    /\ pass' = NextPartner([wants |-> pass.wants \ {w}, want |-> w,
                            partners |-> UsersTradingMerch(w[2], w[1])])
    /\ UNCHANGED <<tables, tx>>

ListTrades(v) ==
    /\ pass.pc = "partners"
    /\ v \in pass.partners
    /\ LET trades == TradeMerchInGroup(pass.want[1], pass.want[3])
           rest == [wants |-> pass.wants, want |-> pass.want,
                    partners |-> pass.partners \ {v}]
       IN  pass' = IF trades = {} THEN NextPartner(rest)
                   ELSE [pc |-> "trades", wants |-> rest.wants, want |-> rest.want,
                         partners |-> rest.partners, partner |-> v, trades |-> trades]
    /\ UNCHANGED <<tables, tx>>

CheckTrade(m) ==
    /\ pass.pc = "trades"
    /\ m \in pass.trades
    /\ pass' = IF WantsLiveMerch(pass.partner, m)
               THEN [pc |-> "ensure", wants |-> pass.wants, want |-> pass.want,
                     partners |-> pass.partners, partner |-> pass.partner]
               ELSE IF pass.trades = {m} THEN NextPartner(pass)
               ELSE [pass EXCEPT !.trades = @ \ {m}]
    /\ UNCHANGED <<tables, tx>>

RematchCount(row) ==
    Cardinality({i \in DOMAIN row.notices : row.notices[i] \in RematchReasons})

\* Mutant: the legs of the finished negotiation stay.
EnsuredWithOldLegs(row) ==
    IF row.status = "NONE" THEN [NoMatch EXCEPT !.status = "PENDING"]
    ELSE IF row.status \in Terminal /\ RematchCount(row) < MaxRematch
    THEN [row EXCEPT
            !.status = "PENDING", !.offeredBy = NoUser,
            !.notices = Append(@, IF row.status = "REJECTED"
                                  THEN "REMATCH_AFTER_REJECTED"
                                  ELSE "REMATCH_AFTER_CANCELLED")]
    ELSE row
\* Mutant: only a missing match is created, as before rematches.
EnsuredOnce(row) ==
    IF row.status = "NONE" THEN [NoMatch EXCEPT !.status = "PENDING"] ELSE row

\* insert_pending, reopen_terminal, or leave the existing row alone.
Ensured(row) ==
    IF row.status = "NONE" THEN [NoMatch EXCEPT !.status = "PENDING"]
    ELSE IF row.status \in Terminal /\ RematchCount(row) < MaxRematch
    THEN [row EXCEPT
            !.status = "PENDING", !.offeredBy = NoUser, !.legs = NoLegs,
            !.notices = Append(@, IF row.status = "REJECTED"
                                  THEN "REMATCH_AFTER_REJECTED"
                                  ELSE "REMATCH_AFTER_CANCELLED")]
    ELSE row

EnsureMatch ==
    /\ pass.pc = "ensure"
    /\ LET k == <<{pass.want[1], pass.partner}, pass.want[3]>>
       IN  matches' = [matches EXCEPT ![k] = Ensured(@)]
    /\ pass' = NextPartner(pass)
    /\ UNCHANGED <<inv, group, live, banned, tx>>

\* Any query of the pass fails: the rest of the pass is skipped.
PassFails ==
    /\ pass # IdlePass
    /\ pass' = IdlePass
    /\ UNCHANGED <<tables, tx>>

MatcherStep ==
    \/ StartPass
    \/ \E w \in Want : ListPartners(w)
    \/ \E v \in Users : ListTrades(v)
    \/ \E m \in Merch : CheckTrade(m)
    \/ EnsureMatch

-----------------------------------------------------------------------------
(***************************************************************************)
(* PostgreSQL rolls back one of a set of transactions that wait for each   *)
(* other.                                                                  *)
(***************************************************************************)
Deadlocked(D) == D # {} /\ \A s \in D : \E t \in D : WaitsFor(s, t)

\* Mutant: deadlocks are not detected.
NoVictim == Deadlocked({})

DeadlockVictim ==
    \E D \in SUBSET Sessions : Deadlocked(D) /\ \E s \in D : Rollback(s)

SessionBegins(s) ==
    \/ \E k \in Keys : \E u \in Users :
        \/ \E items \in OfferInputs(k) : OfferBegin(s, k, u, items)
        \/ AcceptBegin(s, k, u)
        \/ Reject(s, k, u)
        \/ Complete(s, k, u)
        \/ \E skipHave \in BOOLEAN : ApplyGate(s, k, u, skipHave)
    \/ \E r \in EditRows : \E q \in Entries : EditBegin(s, r, q)
    \/ \E m \in DeletableMerch : DeleteBegin(s, m)
    \/ \E m \in MovableMerch : \E g \in Groups \cup {NoGroup} : MoveMerch(s, m, g)

SessionProceeds(s) ==
    \/ OfferCommit(s)
    \/ AcceptCommit(s)
    \/ ApplyWrite(s)
    \/ ApplyCommit(s)
    \/ EditCommit(s)
    \/ DeleteCommit(s)

\* Every step but a failing query of the matcher.
ReliableNext ==
    \/ \E s \in Sessions : SessionBegins(s) \/ SessionProceeds(s) \/ Rollback(s)
    \/ \E u \in BannableUsers : SetBanned(u)
    \/ MatcherStep

Next == ReliableNext \/ PassFails

Spec == Init /\ [][Next]_vars

(***************************************************************************)
(* main.rs runs the matcher forever, one pass after another; passes may    *)
(* fail, wherever they are, but not for ever.  Nothing is assumed of the   *)
(* users.  A transaction that got its locks goes on, the lock queues are   *)
(* first come first served, and deadlocks are detected.                    *)
(***************************************************************************)
FairSpec ==
    /\ Spec
    /\ <>[][PassFails => MatcherStep]_vars
    /\ WF_vars(MatcherStep)
    /\ \A s \in Sessions : SF_vars(SessionProceeds(s))
    /\ SF_vars(DeadlockVictim)

(***************************************************************************)
(* Requests and matcher passes that never overlap: whoever is in flight    *)
(* takes the next step.                                                    *)
(***************************************************************************)
Alone ==
    /\ \A s \in Sessions : tx[s] # Idle => tx'[s] # tx[s]
    /\ pass # IdlePass => pass' # pass
SerialSpec == Init /\ [][Next /\ Alone]_vars

=============================================================================
