-------------------------- MODULE TradeSerialProofs --------------------------
(***************************************************************************)
(* What the lifecycle promises of requests and matcher passes that do not  *)
(* overlap (SerialSpec).  While one is in flight nobody else moves, so     *)
(* that what it read is still true when it writes: that, the capacity of   *)
(* every open match and live legs are one inductive invariant.             *)
(***************************************************************************)
EXTENDS TradeHistoryProofs

\* Capacity looks at what the giver trades and the receiver wants, and at the
\* live merch of the group, and at nothing else.
LEMMA CapacityDependsOn ==
    ASSUME NEW iv \in [Rows -> Int], NEW jv, NEW grp, NEW lv, NEW lw,
           NEW giver \in Users, NEW receiver \in Users, NEW g,
           \A m \in Merch : /\ iv[<<giver, m, "TRADE">>] = jv[<<giver, m, "TRADE">>]
                            /\ iv[<<receiver, m, "WANT">>] = jv[<<receiver, m, "WANT">>]
                            /\ grp[m] = g => (m \in lv <=> m \in lw)
    PROVE  MutualCapacity(iv, grp, lv, giver, receiver, g) =
           MutualCapacity(jv, grp, lw, giver, receiver, g)
<1> DEFINE f == [m \in Merch |->
               IF /\ iv[<<giver, m, "TRADE">>] > 0 /\ iv[<<receiver, m, "WANT">>] > 0
                  /\ grp[m] = g /\ m \in lv
               THEN Least(iv[<<giver, m, "TRADE">>], iv[<<receiver, m, "WANT">>]) ELSE 0]
           h == [m \in Merch |->
               IF /\ jv[<<giver, m, "TRADE">>] > 0 /\ jv[<<receiver, m, "WANT">>] > 0
                  /\ grp[m] = g /\ m \in lw
               THEN Least(jv[<<giver, m, "TRADE">>], jv[<<receiver, m, "WANT">>]) ELSE 0]
<1>1. /\ MutualCapacity(iv, grp, lv, giver, receiver, g) = SumFunctionOnSet(f, Merch)
      /\ MutualCapacity(jv, grp, lw, giver, receiver, g) = SumFunctionOnSet(h, Merch)
  BY DEF MutualCapacity, SumFunction
<1>2. \A m \in Merch : f[m] \in Int /\ f[m] = h[m]
  <2>1. \A m \in Merch : iv[<<giver, m, "TRADE">>] \in Int /\ iv[<<receiver, m, "WANT">>] \in Int
    BY DEF Rows, Kinds
  <2> QED BY <2>1 DEF Least
<1> HIDE DEF f, h
<1> QED BY <1>1, <1>2, TablesAssumption, SumOfSame

\* Merch that the giver trades, the receiver wants, and the group has live is
\* capacity.
LEMMA EvidenceIsCapacity ==
    ASSUME NEW iv \in [Rows -> Int], NEW grp, NEW lv, NEW giver \in Users,
           NEW receiver \in Users, NEW g, NEW x \in Merch,
           iv[<<giver, x, "TRADE">>] > 0, iv[<<receiver, x, "WANT">>] > 0,
           grp[x] = g, x \in lv
    PROVE  ~(MutualCapacity(iv, grp, lv, giver, receiver, g) <= 0)
<1> DEFINE f == [m \in Merch |->
               IF /\ iv[<<giver, m, "TRADE">>] > 0 /\ iv[<<receiver, m, "WANT">>] > 0
                  /\ grp[m] = g /\ m \in lv
               THEN Least(iv[<<giver, m, "TRADE">>], iv[<<receiver, m, "WANT">>]) ELSE 0]
<1>1. MutualCapacity(iv, grp, lv, giver, receiver, g) = SumFunctionOnSet(f, Merch)
  BY DEF MutualCapacity, SumFunction
<1>2. \A m \in Merch : iv[<<giver, m, "TRADE">>] \in Int /\ iv[<<receiver, m, "WANT">>] \in Int
  BY DEF Rows, Kinds
<1>3. \A m \in Merch : f[m] \in Nat
  BY <1>2 DEF Least
<1>4. f[x] > 0
  BY <1>2 DEF Least
<1> HIDE DEF f
<1>5. f[x] <= SumFunctionOnSet(f, Merch)
  BY <1>3, TablesAssumption, SumCoversSummand
<1>6. SumFunctionOnSet(f, Merch) \in Nat
  BY <1>3, TablesAssumption, SumOfNats
<1> QED BY <1>1, <1>3, <1>4, <1>5, <1>6

\* Whether a match has to be cancelled depends on the TRADE and WANT rows of
\* its two participants and on which merch of its group is live.
LEMMA CancelDependsOn ==
    ASSUME NEW iv \in [Rows -> Int], NEW jv, NEW grp, NEW lv, NEW lw, NEW k \in Keys,
           \A u \in Participants(k) : \A m \in Merch :
               /\ iv[<<u, m, "TRADE">>] = jv[<<u, m, "TRADE">>]
               /\ iv[<<u, m, "WANT">>] = jv[<<u, m, "WANT">>],
           \A m \in Merch : grp[m] = GroupOf(k) => (m \in lv <=> m \in lw)
    PROVE  RequiresCancel(iv, grp, lv, k) <=> RequiresCancel(jv, grp, lw, k)
<1>1. ASSUME NEW u \in Participants(k)
      PROVE  MutualCapacity(iv, grp, lv, u, OtherParticipant(k, u), GroupOf(k)) =
             MutualCapacity(jv, grp, lw, u, OtherParticipant(k, u), GroupOf(k))
  <2> DEFINE v == OtherParticipant(k, u)
             g == GroupOf(k)
  <2>1. v \in Participants(k) /\ u \in Users /\ v \in Users
    BY ParticipantsOfKey
  <2>2. \A m \in Merch : /\ iv[<<u, m, "TRADE">>] = jv[<<u, m, "TRADE">>]
                         /\ iv[<<v, m, "WANT">>] = jv[<<v, m, "WANT">>]
                         /\ grp[m] = g => (m \in lv <=> m \in lw)
    BY <2>1
  <2> HIDE DEF v, g
  <2>3. MutualCapacity(iv, grp, lv, u, v, g) = MutualCapacity(jv, grp, lw, u, v, g)
    BY <2>1, <2>2, CapacityDependsOn
  <2> QED BY <2>3 DEF v, g
<1> QED BY <1>1 DEF RequiresCancel

\* A trade that covers its TRADE rows takes no quantity below zero, or further
\* below: what falls is gated or clamped.
LEMMA AppliedStopsAtZero ==
    ASSUME NEW iv \in [Rows -> Int], NEW lg \in [Legs -> 0..MaxQty], NEW u \in Users,
           NEW peer \in Users, NEW skipHave \in BOOLEAN, NEW receivedFirst \in BOOLEAN,
           TradeCovers(iv, lg, u), NEW r \in Rows
    PROVE  LET after == AppliedInventory(iv, lg, u, peer, skipHave, receivedFirst)[r]
           IN  after >= 0 \/ after >= iv[r]
<1> DEFINE given == IF skipHave THEN 0 ELSE lg[<<u, r[2]>>]
           received == lg[<<peer, r[2]>>]
           given0 == lg[<<u, r[2]>>]
<1>1. given0 \in Nat /\ received \in Nat /\ given \in Nat /\ r[2] \in Merch
  BY QtyAssumption DEF Legs, Rows
<1>2. iv[r] \in Int
  OBVIOUS
<1>3. \A n \in Int : AtLeastZero(n) \in Int /\ AtLeastZero(n) >= 0
  BY DEF AtLeastZero
<1>4. AppliedInventory(iv, lg, u, peer, skipHave, receivedFirst)[r] =
        IF r[1] # u THEN iv[r]
        ELSE IF r[3] = "TRADE" THEN iv[r] - given0
        ELSE IF r[3] = "WANT"
             THEN IF received > 0 THEN AtLeastZero(iv[r] - received) ELSE iv[r]
        ELSE IF given = 0 THEN iv[r] + received
        ELSE IF receivedFirst THEN AtLeastZero(iv[r] + received - given)
        ELSE AtLeastZero(iv[r] - given) + received
  BY DEF AppliedInventory
<1>5. r[1] = u /\ r[3] = "TRADE" => given0 = 0 \/ iv[r] >= given0
  <2> SUFFICES ASSUME r[1] = u, r[3] = "TRADE"
               PROVE  given0 = 0 \/ iv[r] >= given0
    OBVIOUS
  <2>1. r = <<u, r[2], "TRADE">>
    BY DEF Rows
  <2>2. given0 > 0 => iv[<<u, r[2], "TRADE">>] >= given0
    BY <1>1 DEF TradeCovers
  <2> HIDE DEF given0
  <2> QED BY <1>1, <1>2, <2>1, <2>2
<1> HIDE DEF given, received, given0
<1>6. /\ iv[r] - received \in Int
      /\ iv[r] + received - given \in Int
      /\ iv[r] - given \in Int
  BY <1>1, <1>2
<1>7. AtLeastZero(iv[r] - given) + received >= 0
  BY <1>1, <1>3, <1>6
<1> QED BY <1>1, <1>2, <1>3, <1>4, <1>5, <1>6, <1>7

-----------------------------------------------------------------------------
\* The cancels that apply_inventory and update_inventory decide on.
CancelsOfApply(u, k, skipHave) ==
    IF CapacityChanged(k)
    THEN ZeroCapacityOfUser(AppliedInventory(inv, matches[k].legs, u, OtherParticipant(k, u),
                                             skipHave, FALSE), u)
    ELSE {}
CancelsOfEdit(r, q) ==
    IF r[3] \in {"WANT", "TRADE"} THEN ZeroCapacityOfUser([inv EXCEPT ![r] = q], r[1]) ELSE {}

\* What the transaction of s decided when it read the tables is what it would
\* decide now.
DecisionStands(s) ==
    LET t == tx[s]
    IN  /\ t.op = "offer" => \A l \in DOMAIN t.items : l[2] \in live
        /\ t.op \in {"gate", "apply"} => TradeCovers(inv, matches[t.key].legs, t.user)
        /\ t.op = "apply" => t.cancels = CancelsOfApply(t.user, t.key, t.skipHave)
        /\ t.op = "edit" => t.cancels = CancelsOfEdit(t.row, t.qty)
        /\ t.op = "delete" => t.cancels = CondemnedByDelete(t.merch)

\* What the queries of a matcher pass found: a want, a partner who trades it,
\* and merch the first user can give in return.
WantStands(w) ==
    /\ inv[<<w[1], w[2], "WANT">>] > 0
    /\ w[2] \in live
    /\ group[w[2]] = w[3]
    /\ w[1] \notin banned
PartnerStands(w, v) ==
    /\ v # w[1]
    /\ inv[<<v, w[2], "TRADE">>] > 0
    /\ v \notin banned
ReturnStands(w, y) ==
    /\ inv[<<w[1], y, "TRADE">>] > 0
    /\ y \in live
    /\ group[y] = w[3]

\* What the running pass found is still true of the tables.
FindingsStand ==
    /\ pass.pc = "wants" => \A w \in pass.wants : WantStands(w)
    /\ pass.pc \in {"partners", "trades", "ensure"} =>
         /\ \A w \in pass.wants : WantStands(w)
         /\ WantStands(pass.want)
         /\ \A v \in pass.partners : PartnerStands(pass.want, v)
    /\ pass.pc \in {"trades", "ensure"} => PartnerStands(pass.want, pass.partner)
    /\ pass.pc = "trades" => \A y \in pass.trades : ReturnStands(pass.want, y)
    /\ pass.pc = "ensure" =>
         \E y \in Merch :
            ReturnStands(pass.want, y) /\ inv[<<pass.partner, y, "WANT">>] > 0

\* Nothing that is in flight acts on what is no longer true.
NothingStale == (\A s \in Sessions : DecisionStands(s)) /\ FindingsStand

\* The tables keep what they promise.  The group move of a merch cancels
\* nothing, so that only where no merch moves every open match keeps its
\* capacity.
TablesSound ==
    /\ ActiveLegsLive
    /\ MovableMerch = {} => ActiveKeepsCapacity

\* The inductive invariant of requests and passes that do not overlap.
SerialInvariant == Consistent /\ TablesSound /\ NothingStale

\* Nothing is in flight.
Quiet == (\A s \in Sessions : tx[s] = Idle) /\ pass = IdlePass

\* When nothing is in flight, no decision and no finding is open.
LEMMA QuietStands ==
    ASSUME Quiet
    PROVE  NothingStale
BY DEF Quiet, NothingStale, DecisionStands, FindingsStand, Idle, IdlePass

\* A session's step is taken when nothing else is in flight, and only its own
\* transaction is in flight after it.
LEMMA SessionIsAlone ==
    ASSUME tx \in [Sessions -> Transactions], Alone, NEW s \in Sessions,
           SessionBegins(s) \/ SessionProceeds(s) \/ Rollback(s)
    PROVE  /\ \A t \in Sessions \ {s} : tx[t] = Idle /\ tx'[t] = Idle
           /\ pass = IdlePass /\ pass' = IdlePass
<1>1. \A t \in Sessions \ {s} : tx'[t] = tx[t]
  BY OthersUntouched
<1>2. pass' = pass
  BY DEF SessionBegins, SessionProceeds, Rollback, OfferBegin, AcceptBegin, Reject, Complete,
         ApplyGate, EditBegin, DeleteBegin, MoveMerch, OfferCommit, AcceptCommit, ApplyWrite,
         ApplyCommit, EditCommit, DeleteCommit
<1> QED BY <1>1, <1>2 DEF Alone

\* A session that begins, or a request done in one step, starts from quiet.
LEMMA BeginsFromQuiet ==
    ASSUME tx \in [Sessions -> Transactions], Alone, NEW s \in Sessions, SessionBegins(s)
    PROVE  Quiet
<1>1. tx[s] = Idle
  BY DEF SessionBegins, OfferBegin, AcceptBegin, Reject, Complete, ApplyGate, EditBegin,
         DeleteBegin, MoveMerch
<1> QED BY <1>1, SessionIsAlone DEF Quiet

\* After a session's step the decisions stand when its own does.
LEMMA OwnDecisionStands ==
    ASSUME tx \in [Sessions -> Transactions], Alone, NEW s \in Sessions,
           SessionBegins(s) \/ SessionProceeds(s) \/ Rollback(s), DecisionStands(s)'
    PROVE  NothingStale'
<1>1. (\A t \in Sessions \ {s} : tx'[t] = Idle) /\ pass' = IdlePass
  BY SessionIsAlone
<1>2. \A t \in Sessions \ {s} : DecisionStands(t)'
  BY <1>1 DEF DecisionStands, Idle
<1>3. FindingsStand'
  BY <1>1 DEF FindingsStand, IdlePass
<1> QED BY <1>2, <1>3 DEF NothingStale

\* A session that ends leaves quiet.
LEMMA SessionEndsQuiet ==
    ASSUME tx \in [Sessions -> Transactions], Alone, NEW s \in Sessions,
           SessionBegins(s) \/ SessionProceeds(s) \/ Rollback(s), tx'[s] = Idle
    PROVE  NothingStale'
<1>1. DecisionStands(s)'
  BY DEF DecisionStands, Idle
<1> QED BY <1>1, OwnDecisionStands

\* Inventory, groups and live merch stay, no match opens and no leg comes on
\* the table of one but on live merch: the tables keep their promises.
LEMMA NegotiationKeepsTables ==
    ASSUME TablesSound, UNCHANGED <<inv, group, live>>,
           \A k \in Keys : matches'[k].status \in Active =>
               /\ matches[k].status \in Active
               /\ \A l \in Legs : matches'[k].legs[l] > 0 =>
                    matches[k].legs[l] > 0 \/ l[2] \in live
    PROVE  TablesSound'
<1> USE DEF TablesSound
<1>1. ActiveLegsLive'
  BY DEF ActiveLegsLive, ActiveKeys
<1>2. ActiveKeepsCapacity => ActiveKeepsCapacity'
  <2> SUFFICES ASSUME ActiveKeepsCapacity, NEW k \in Keys, matches'[k].status \in Active
               PROVE  ~RequiresCancel(inv', group', live', k)
    BY DEF ActiveKeepsCapacity, ActiveKeys
  <2> QED BY DEF ActiveKeepsCapacity, ActiveKeys
<1> QED BY <1>1, <1>2

-----------------------------------------------------------------------------
\* Every begin, and every request done in one step, keeps the promises of the
\* tables, and what it decides is what the tables say.
LEMMA BeginKeepsSerial ==
    ASSUME Consistent, Alone, TablesSound, NEW s \in Sessions, SessionBegins(s)
    PROVE  TablesSound' /\ NothingStale'
<1>1. tx \in [Sessions -> Transactions] /\ matches \in [Keys -> MatchRow]
  BY DEF Consistent, TypeOK
<1>2. tx[s] = Idle
  BY <1>1, BeginsFromQuiet DEF Quiet
<1> DEFINE Kept == TablesSound' /\ NothingStale'
<1>3. ASSUME UNCHANGED tables, DecisionStands(s)'
      PROVE  Kept
  <2>1. TablesSound'
    BY <1>3, NegotiationKeepsTables DEF tables
  <2> QED BY <1>1, <1>3, <2>1, OwnDecisionStands
<1>4. ASSUME NEW k \in Keys, NEW u \in Users, NEW items \in OfferInputs(k),
             OfferBegin(s, k, u, items)
      PROVE  Kept
  <2>1. DecisionStands(s)'
    BY <1>1, <1>4 DEF DecisionStands, OfferBegin, tables
  <2> QED BY <1>3, <1>4, <2>1 DEF OfferBegin
<1>5. ASSUME NEW k \in Keys, NEW u \in Users, AcceptBegin(s, k, u)
      PROVE  Kept
  <2>1. DecisionStands(s)'
    BY <1>1, <1>5 DEF DecisionStands, AcceptBegin
  <2> QED BY <1>3, <1>5, <2>1 DEF AcceptBegin
<1>6. ASSUME NEW k \in Keys, NEW u \in Users, NEW skipHave, ApplyGate(s, k, u, skipHave)
      PROVE  Kept
  <2>1. DecisionStands(s)'
    BY <1>1, <1>6 DEF DecisionStands, ApplyGate, tables
  <2> QED BY <1>3, <1>6, <2>1 DEF ApplyGate
<1>7. ASSUME NEW r, NEW q, EditBegin(s, r, q)
      PROVE  Kept
  <2>1. DecisionStands(s)'
    <3>1. UNCHANGED tables
      BY <1>7 DEF EditBegin
    <3>2. CancelsOfEdit(r, q)' = CancelsOfEdit(r, q)
      BY <3>1 DEF CancelsOfEdit, ZeroCapacityOfUser, ActiveKeys, tables
    <3>3. tx'[s] = [op |-> "edit", row |-> r, qty |-> q, cancels |-> CancelsOfEdit(r, q)]
      BY <1>1, <1>7 DEF EditBegin, CancelsOfEdit
    <3> QED BY <3>2, <3>3 DEF DecisionStands
  <2> QED BY <1>3, <1>7, <2>1 DEF EditBegin
<1>8. ASSUME NEW m, DeleteBegin(s, m)
      PROVE  Kept
  <2>1. DecisionStands(s)'
    <3>1. UNCHANGED tables
      BY <1>8 DEF DeleteBegin
    <3>2. CondemnedByDelete(m)' = CondemnedByDelete(m)
      BY <3>1 DEF CondemnedByDelete, ActiveKeys, tables
    <3>3. tx'[s] = [op |-> "delete", merch |-> m, cancels |-> CondemnedByDelete(m)]
      BY <1>1, <1>8 DEF DeleteBegin
    <3> QED BY <3>2, <3>3 DEF DecisionStands
  <2> QED BY <1>3, <1>8, <2>1 DEF DeleteBegin
<1>9. ASSUME NEW k \in Keys, NEW u \in Users, Reject(s, k, u) \/ Complete(s, k, u)
      PROVE  Kept
  <2>1. UNCHANGED <<inv, group, live, tx>>
    BY <1>9 DEF Reject, Complete
  <2>2. \A j \in Keys : matches'[j] = matches[j] \/ matches'[j].status \in {"REJECTED", "COMPLETED"}
    BY <1>1, <1>9 DEF Reject, Complete, MatchRow
  <2>3. TablesSound'
    BY <2>1, <2>2, NegotiationKeepsTables DEF Active
  <2> QED BY <1>1, <1>2, <2>1, <2>3, SessionEndsQuiet
<1>10. ASSUME NEW m \in MovableMerch, NEW g, MoveMerch(s, m, g)
       PROVE  Kept
  <2>1. UNCHANGED <<inv, live, matches, tx>>
    BY <1>10 DEF MoveMerch
  <2>2. TablesSound'
    BY <2>1 DEF TablesSound, ActiveLegsLive, ActiveKeys
  <2> QED BY <1>1, <1>2, <2>1, <2>2, SessionEndsQuiet
<1> HIDE DEF Kept
<1>11. Kept
  BY <1>4, <1>5, <1>6, <1>7, <1>8, <1>9, <1>10 DEF SessionBegins
<1> QED BY <1>11 DEF Kept

\* The commits of offer and accept keep an open match open and its legs live.
LEMMA NegotiationCommitKeepsSerial ==
    ASSUME Consistent, Alone, TablesSound, NothingStale, NEW s \in Sessions,
           OfferCommit(s) \/ AcceptCommit(s)
    PROVE  TablesSound' /\ NothingStale'
<1>1. tx \in [Sessions -> Transactions] /\ matches \in [Keys -> MatchRow]
  BY DEF Consistent, TypeOK
<1>2. UNCHANGED <<inv, group, live>> /\ tx'[s] = Idle
  BY <1>1 DEF OfferCommit, AcceptCommit
<1>3. NothingStale'
  BY <1>1, <1>2, SessionEndsQuiet DEF SessionProceeds
<1>4. CASE OfferCommit(s)
  <2>1. PICK k \in Keys : k = tx[s].key /\ tx[s].items \in Items
    BY <1>1, <1>4, TransactionByOp DEF OfferCommit, OfferTx
  <2>2. matches[k].status \in Active
    BY <1>4, <2>1 DEF Consistent, ChecksStillHold, CheckHolds, OfferCommit, MayPropose, Active
  <2>3. \A l \in DOMAIN tx[s].items : l[2] \in live
    BY <1>4 DEF NothingStale, DecisionStands, OfferCommit
  <2>4. matches'[k].legs = UpsertLegs(matches[k].legs, tx[s].items)
    BY <1>1, <1>4, <2>1 DEF OfferCommit, MatchRow
  <2>5. \A j \in Keys \ {k} : matches'[j] = matches[j]
    BY <1>1, <1>4, <2>1 DEF OfferCommit
  <2>6. \A l \in Legs : matches'[k].legs[l] > 0 => matches[k].legs[l] > 0 \/ l[2] \in live
    BY <2>3, <2>4 DEF UpsertLegs
  <2> QED BY <1>2, <1>3, <2>2, <2>5, <2>6, NegotiationKeepsTables
<1>5. CASE AcceptCommit(s)
  <2>1. PICK k \in Keys : k = tx[s].key
    BY <1>1, <1>5, TransactionByOp DEF AcceptCommit, AcceptTx
  <2>2. matches[k].status \in Active
    BY <1>5, <2>1 DEF Consistent, ChecksStillHold, CheckHolds, AcceptCommit, Active
  <2>3. matches'[k].legs = matches[k].legs
    BY <1>1, <1>5, <2>1 DEF AcceptCommit, MatchRow
  <2>4. \A j \in Keys \ {k} : matches'[j] = matches[j]
    BY <1>1, <1>5, <2>1 DEF AcceptCommit
  <2> QED BY <1>2, <1>3, <2>2, <2>3, <2>4, NegotiationKeepsTables
<1> QED BY <1>4, <1>5

\* apply_inventory decides on the tables it then writes.
LEMMA ApplyWriteKeepsSerial ==
    ASSUME Consistent, Alone, TablesSound, NothingStale, NEW s \in Sessions, ApplyWrite(s)
    PROVE  TablesSound' /\ NothingStale'
<1>1. tx \in [Sessions -> Transactions] /\ UNCHANGED tables
  BY DEF Consistent, TypeOK, ApplyWrite
<1>2. TablesSound'
  BY <1>1, NegotiationKeepsTables DEF tables
<1>3. tx'[s] = [op |-> "apply", user |-> tx[s].user, key |-> tx[s].key,
                skipHave |-> tx[s].skipHave,
                cancels |-> CancelsOfApply(tx[s].user, tx[s].key, tx[s].skipHave)]
  BY <1>1 DEF ApplyWrite, CancelsOfApply
<1>4. \A u, k, h : CancelsOfApply(u, k, h)' = CancelsOfApply(u, k, h)
  BY <1>1 DEF CancelsOfApply, CapacityChanged, ZeroCapacityOfUser, ActiveKeys, tables
<1>5. TradeCovers(inv, matches[tx[s].key].legs, tx[s].user)
  BY DEF NothingStale, DecisionStands, ApplyWrite
<1>6. DecisionStands(s)'
  <2> DEFINE u == tx[s].user
             k == tx[s].key
             h == tx[s].skipHave
  <2>1. /\ tx'[s].op = "apply" /\ tx'[s].user = u /\ tx'[s].key = k /\ tx'[s].skipHave = h
        /\ tx'[s].cancels = CancelsOfApply(u, k, h)
    BY <1>3
  <2>2. tx'[s].cancels = CancelsOfApply(u, k, h)'
    BY <1>4, <2>1
  <2> QED BY <1>1, <1>5, <2>1, <2>2 DEF DecisionStands, tables
<1> QED BY <1>1, <1>2, <1>6, OwnDecisionStands DEF SessionProceeds

-----------------------------------------------------------------------------
\* The commits that cancel matches.
Cancels(s) == ApplyCommit(s) \/ EditCommit(s) \/ DeleteCommit(s)

\* A cancelling commit cancels the open matches on its list and changes the
\* status and the legs of no other match.
LEMMA CancelOutcome ==
    ASSUME Consistent, NEW s \in Sessions, Cancels(s), NEW k \in Keys
    PROVE  /\ matches'[k].legs = matches[k].legs
           /\ matches'[k].status =
                IF k \in tx[s].cancels /\ matches[k].status \in Active THEN "CANCELLED"
                ELSE matches[k].status
<1>1. TypeOK
  BY DEF Consistent
<1>2. \A ks, why : /\ SystemCancelMatches(ks, why)[k].legs = matches[k].legs
                   /\ SystemCancelMatches(ks, why)[k].status =
                        IF k \in ks /\ matches[k].status \in Active THEN "CANCELLED"
                        ELSE matches[k].status
  BY <1>1 DEF SystemCancelMatches, TypeOK, MatchRow
<1>3. CASE ApplyCommit(s)
  <2>1. tx[s].cancels \in SUBSET Keys
    BY <1>1, <1>3, TransactionByOp DEF ApplyCommit, TypeOK, ApplyTx
  <2> DEFINE after == SystemCancelMatches(tx[s].cancels, "INVENTORY_CAPACITY")
  <2>2. after \in [Keys -> MatchRow]
    BY <1>1, <2>1, CancelType DEF CancelReasons
  <2>3. matches' = [after EXCEPT ![tx[s].key].applied = @ \cup {tx[s].user}]
    BY <1>3 DEF ApplyCommit
  <2>4. /\ after[k].legs = matches[k].legs
        /\ after[k].status = IF k \in tx[s].cancels /\ matches[k].status \in Active
                             THEN "CANCELLED" ELSE matches[k].status
    BY <1>2
  <2> HIDE DEF after
  <2>5. matches'[k].legs = after[k].legs /\ matches'[k].status = after[k].status
    BY <2>2, <2>3 DEF MatchRow
  <2> QED BY <2>4, <2>5
<1>4. CASE EditCommit(s) \/ DeleteCommit(s)
  BY <1>2, <1>4 DEF EditCommit, DeleteCommit
<1> QED BY <1>3, <1>4 DEF Cancels

\* The transaction of s is its user's entry of what r now holds.
Entered(s, r) == tx[s].op = "edit" /\ tx[s].row = r /\ tx[s].qty = inv'[r]

\* What a cancelling commit owes the tables: only an entry takes a quantity
\* below zero, an open match that is not on its list loses neither capacity nor
\* a live leg, and one that is on it has lost the one or the other.
CommitIsJust(s) ==
    /\ \A r \in Rows : inv'[r] < 0 /\ inv'[r] < inv[r] => Entered(s, r)
    /\ live' \subseteq live /\ group' = group
    /\ \A k \in ActiveKeys \ tx[s].cancels :
         /\ RequiresCancel(inv', group', live', k) => RequiresCancel(inv, group, live, k)
         /\ \A l \in Legs : matches[k].legs[l] > 0 /\ l[2] \in live => l[2] \in live'
    /\ \A k \in ActiveKeys \cap tx[s].cancels :
         \/ RequiresCancel(inv', group', live', k)
         \/ \E l \in Legs : matches[k].legs[l] > 0 /\ l[2] \notin live'

\* The commit of an edit cancels exactly the open matches of its user that
\* lose their capacity.
LEMMA EditIsJust ==
    ASSUME Consistent, TablesSound, NothingStale, NEW s \in Sessions, EditCommit(s)
    PROVE  CommitIsJust(s)
<1>1. inv \in [Rows -> Int] /\ tx[s] \in EditTx /\ tx[s].op = "edit"
  BY TransactionByOp DEF Consistent, TypeOK, EditCommit
<1>2. PICK r \in Rows, q \in Int :
          r = tx[s].row /\ q = tx[s].qty /\ tx[s].cancels = CancelsOfEdit(r, q)
  BY <1>1 DEF EditTx, NothingStale, DecisionStands
<1>3. inv' = [inv EXCEPT ![r] = q] /\ group' = group /\ live' = live
  BY <1>2 DEF EditCommit
<1>4. \A x \in Rows : inv'[x] < inv[x] => Entered(s, x)
  BY <1>1, <1>2, <1>3 DEF Entered
<1>5. ASSUME NEW k \in Keys, r[1] \notin Participants(k) \/ r[3] \notin {"WANT", "TRADE"}
      PROVE  RequiresCancel(inv', group, live, k) <=> RequiresCancel(inv, group, live, k)
  <2>1. \A u \in Participants(k) : \A m \in Merch :
            /\ inv'[<<u, m, "TRADE">>] = inv[<<u, m, "TRADE">>]
            /\ inv'[<<u, m, "WANT">>] = inv[<<u, m, "WANT">>]
    BY <1>1, <1>3, <1>5 DEF Rows
  <2>2. inv' \in [Rows -> Int]
    BY <1>1, <1>3
  <2> QED BY <2>1, <2>2, CancelDependsOn
<1>6. ASSUME NEW k \in ActiveKeys
      PROVE  k \in tx[s].cancels <=>
                 /\ r[3] \in {"WANT", "TRADE"} /\ r[1] \in Participants(k)
                 /\ RequiresCancel(inv', group, live, k)
  BY <1>2, <1>3 DEF CancelsOfEdit, ZeroCapacityOfUser
<1> QED BY <1>3, <1>4, <1>5, <1>6 DEF CommitIsJust, ActiveKeys

\* The commit of a delete cancels exactly the open matches of the group that
\* lose their capacity and those with the merch on the table.
LEMMA DeleteIsJust ==
    ASSUME Consistent, TablesSound, NothingStale, NEW s \in Sessions, DeleteCommit(s)
    PROVE  CommitIsJust(s)
<1>1. tx[s] \in DeleteTx /\ tx[s].op = "delete" /\ inv \in [Rows -> Int]
  BY TransactionByOp DEF Consistent, TypeOK, DeleteCommit
<1>2. PICK m \in Merch : m = tx[s].merch /\ tx[s].cancels = CondemnedByDelete(m)
  BY <1>1 DEF DeleteTx, NothingStale, DecisionStands
<1>3. inv' = inv /\ group' = group /\ live' = live \ {m}
  BY <1>2 DEF DeleteCommit
<1>4. \A x \in Rows : ~(inv'[x] < inv[x])
  BY <1>1, <1>3
<1>5. ASSUME NEW k \in Keys, GroupOf(k) # group[m]
      PROVE  RequiresCancel(inv, group, live \ {m}, k) <=> RequiresCancel(inv, group, live, k)
  <2>1. \A x \in Merch : group[x] = GroupOf(k) => (x \in live \ {m} <=> x \in live)
    BY <1>5
  <2> DEFINE lv == live \ {m}
  <2> HIDE DEF lv
  <2>2. \A x \in Merch : group[x] = GroupOf(k) => (x \in lv <=> x \in live)
    BY <2>1 DEF lv
  <2>3. RequiresCancel(inv, group, lv, k) <=> RequiresCancel(inv, group, live, k)
    BY <1>1, <2>2, CancelDependsOn
  <2> QED BY <2>3 DEF lv
<1>6. ASSUME NEW k \in ActiveKeys \ tx[s].cancels
      PROVE  /\ RequiresCancel(inv', group', live', k) => RequiresCancel(inv, group, live, k)
             /\ \A l \in Legs : matches[k].legs[l] > 0 /\ l[2] \in live => l[2] \in live'
  <2>1. ~(GroupOf(k) = group[m] /\ RequiresCancel(inv, group, live \ {m}, k))
    BY <1>2 DEF CondemnedByDelete
  <2>2. \A u \in Users : ~(matches[k].legs[<<u, m>>] > 0)
    BY <1>2 DEF CondemnedByDelete
  <2>3. \A l \in Legs : matches[k].legs[l] > 0 => l[2] # m
    BY <2>2 DEF Legs
  <2> QED BY <1>3, <1>5, <2>1, <2>3 DEF ActiveKeys
<1>7. ASSUME NEW k \in ActiveKeys \cap tx[s].cancels
      PROVE  \/ RequiresCancel(inv', group', live', k)
             \/ \E l \in Legs : matches[k].legs[l] > 0 /\ l[2] \notin live'
  <2>1. CASE \E u \in Users : matches[k].legs[<<u, m>>] > 0
    BY <1>3, <2>1 DEF Legs
  <2>2. CASE GroupOf(k) = group[m] /\ RequiresCancel(inv, group, live \ {m}, k)
    BY <1>3, <2>2
  <2> QED BY <1>2, <2>1, <2>2 DEF CondemnedByDelete
<1> QED BY <1>3, <1>4, <1>6, <1>7 DEF CommitIsJust

\* The commit of apply_inventory cancels exactly the other open matches of its
\* user that lose their capacity; that HAVE is clamped on the way makes no
\* difference to capacity.
LEMMA ApplyIsJust ==
    ASSUME Consistent, TablesSound, NothingStale, NEW s \in Sessions, ApplyCommit(s)
    PROVE  CommitIsJust(s)
<1>1. /\ inv \in [Rows -> Int] /\ matches \in [Keys -> MatchRow]
      /\ tx[s] \in ApplyTx /\ tx[s].op = "apply"
  BY TransactionByOp DEF Consistent, TypeOK, ApplyCommit
<1>2. PICK k \in Keys, u \in Users, h \in BOOLEAN :
          k = tx[s].key /\ u = tx[s].user /\ h = tx[s].skipHave
  BY <1>1 DEF ApplyTx
<1>3. /\ TradeCovers(inv, matches[k].legs, u)
      /\ tx[s].cancels = CancelsOfApply(u, k, h)
      /\ u \in Participants(k)
  BY <1>1, <1>2 DEF NothingStale, DecisionStands, Consistent, ChecksStillHold, CheckHolds
<1> DEFINE peer == OtherParticipant(k, u)
           lg == matches[k].legs
           planned == AppliedInventory(inv, lg, u, peer, h, FALSE)
<1>4. peer \in Users /\ lg \in [Legs -> 0..MaxQty]
  BY <1>1, <1>3, ParticipantsOfKey DEF MatchRow
<1>5. PICK receivedFirst \in BOOLEAN :
          inv' = AppliedInventory(inv, lg, u, peer, h, receivedFirst)
  BY <1>2 DEF ApplyCommit
<1>6. \A r \in Rows : ~(inv'[r] < 0 /\ inv'[r] < inv[r])
  <2>1. inv' \in [Rows -> Int]
    BY <1>1, <1>4, <1>5, AppliedInventoryType
  <2>2. TradeCovers(inv, lg, u)
    BY <1>3
  <2> HIDE DEF peer, lg
  <2>3. \A r \in Rows : inv'[r] >= 0 \/ inv'[r] >= inv[r]
    BY <1>1, <1>4, <1>5, <2>2, AppliedStopsAtZero
  <2> QED BY <1>1, <2>1, <2>3
<1>7. \A r \in Rows : r[3] # "HAVE" => inv'[r] = planned[r]
  BY <1>5 DEF AppliedInventory, Rows, Kinds
<1>8. \A r \in Rows : r[1] # u => inv'[r] = inv[r]
  BY <1>5 DEF AppliedInventory
<1>9. ~CapacityChanged(k) => \A r \in Rows : r[3] # "HAVE" => inv'[r] = inv[r]
  <2> SUFFICES ASSUME ~CapacityChanged(k), NEW r \in Rows, r[3] # "HAVE", r[1] = u
               PROVE  inv'[r] = inv[r]
    BY <1>8
  <2>1. lg[<<u, r[2]>>] = 0 /\ ~(lg[<<peer, r[2]>>] > 0)
    <3>1. <<u, r[2]>> \in Legs /\ <<peer, r[2]>> \in Legs
      BY <1>4 DEF Legs, Rows
    <3>2. \A l \in Legs : ~(lg[l] > 0)
      BY DEF CapacityChanged
    <3>3. lg[<<u, r[2]>>] \in Nat
      BY <1>4, <3>1, QtyAssumption
    <3> QED BY <3>1, <3>2, <3>3
  <2>2. r[3] \in {"TRADE", "WANT"} /\ inv[r] \in Int
    BY <1>1 DEF Rows, Kinds
  <2> QED BY <1>5, <2>1, <2>2 DEF AppliedInventory
<1> HIDE DEF peer, lg, planned
<1>10. UNCHANGED <<group, live>>
  BY DEF ApplyCommit
<1>11. ASSUME NEW j \in Keys
       PROVE  /\ RequiresCancel(inv', group, live, j) <=> RequiresCancel(planned, group, live, j)
              /\ (u \notin Participants(j) \/ ~CapacityChanged(k)) =>
                   (RequiresCancel(inv', group, live, j) <=> RequiresCancel(inv, group, live, j))
  <2>1. \A v \in Participants(j) : \A m \in Merch :
            <<v, m, "TRADE">> \in Rows /\ <<v, m, "WANT">> \in Rows
    BY ParticipantsOfKey DEF Rows, Kinds
  <2>2. \A v \in Participants(j) : \A m \in Merch :
            /\ inv'[<<v, m, "TRADE">>] = planned[<<v, m, "TRADE">>]
            /\ inv'[<<v, m, "WANT">>] = planned[<<v, m, "WANT">>]
    BY <1>7, <2>1
  <2>3. ASSUME u \notin Participants(j) \/ ~CapacityChanged(k)
        PROVE  \A v \in Participants(j) : \A m \in Merch :
                   /\ inv'[<<v, m, "TRADE">>] = inv[<<v, m, "TRADE">>]
                   /\ inv'[<<v, m, "WANT">>] = inv[<<v, m, "WANT">>]
    BY <1>8, <1>9, <2>1, <2>3
  <2>4. inv' \in [Rows -> Int]
    BY <1>1, <1>4, <1>5, AppliedInventoryType
  <2> QED BY <2>2, <2>3, <2>4, CancelDependsOn
<1>12. ASSUME NEW j \in ActiveKeys
       PROVE  j \in tx[s].cancels <=>
                  /\ CapacityChanged(k) /\ u \in Participants(j)
                  /\ RequiresCancel(planned, group, live, j)
  BY <1>3 DEF CancelsOfApply, ZeroCapacityOfUser, planned, lg, peer
<1> QED BY <1>6, <1>10, <1>11, <1>12 DEF CommitIsJust, ActiveKeys

\* A cancelling commit keeps the promises of the tables and leaves quiet.
LEMMA CancelsKeepSerial ==
    ASSUME Consistent, Alone, TablesSound, NothingStale, NEW s \in Sessions, Cancels(s)
    PROVE  TablesSound' /\ NothingStale' /\ CommitIsJust(s)
<1>1. tx \in [Sessions -> Transactions]
  BY DEF Consistent, TypeOK
<1>2. CommitIsJust(s)
  BY ApplyIsJust, EditIsJust, DeleteIsJust DEF Cancels
<1>3. NothingStale'
  <2>1. tx'[s] = Idle
    BY <1>1 DEF Cancels, ApplyCommit, EditCommit, DeleteCommit
  <2> QED BY <1>1, <2>1, SessionEndsQuiet DEF Cancels, SessionProceeds
<1>4. ASSUME NEW k \in Keys, matches'[k].status \in Active
      PROVE  k \in ActiveKeys \ tx[s].cancels /\ matches'[k].legs = matches[k].legs
  BY <1>4, CancelOutcome DEF ActiveKeys, Active
<1>5. ActiveLegsLive'
  <2> SUFFICES ASSUME NEW k \in Keys, matches'[k].status \in Active,
                      NEW l \in Legs, matches'[k].legs[l] > 0
               PROVE  l[2] \in live'
    BY DEF ActiveLegsLive, ActiveKeys
  <2> QED BY <1>2, <1>4 DEF CommitIsJust, TablesSound, ActiveLegsLive
<1>6. ASSUME ActiveKeepsCapacity
      PROVE  ActiveKeepsCapacity'
  <2> SUFFICES ASSUME NEW k \in Keys, matches'[k].status \in Active
               PROVE  ~RequiresCancel(inv', group', live', k)
    BY DEF ActiveKeepsCapacity, ActiveKeys
  <2> QED BY <1>2, <1>4, <1>6 DEF CommitIsJust, ActiveKeepsCapacity
<1> QED BY <1>2, <1>3, <1>5, <1>6 DEF TablesSound

-----------------------------------------------------------------------------
\* A step of the matcher is taken when no request is in flight.
LEMMA MatcherIsAlone ==
    ASSUME Alone, MatcherStep \/ PassFails
    PROVE  UNCHANGED <<inv, group, live, banned, tx>> /\ \A s \in Sessions : tx[s] = Idle
<1>1. UNCHANGED <<inv, group, live, banned, tx>>
  BY DEF MatcherStep, StartPass, ListPartners, ListTrades, CheckTrade, EnsureMatch, PassFails,
         tables
<1> QED BY <1>1 DEF Alone

\* The loops that are left stand on the same findings.
LEMMA NextPartnerStands ==
    ASSUME NEW p, UNCHANGED <<inv, group, live, banned>>, pass' = NextPartner(p),
           \A w \in p.wants : WantStands(w), WantStands(p.want),
           \A v \in p.partners : PartnerStands(p.want, v)
    PROVE  FindingsStand'
BY DEF NextPartner, FindingsStand, WantStands, PartnerStands, IdlePass

\* Every query of a pass finds what is true, and what it found before still
\* is.
LEMMA MatcherReadStands ==
    ASSUME Consistent, FindingsStand, UNCHANGED <<inv, group, live, banned>>,
           \/ StartPass \/ PassFails \/ EnsureMatch
           \/ \E w \in Want : ListPartners(w)
           \/ \E v \in Users : ListTrades(v)
           \/ \E m \in Merch : CheckTrade(m)
    PROVE  FindingsStand'
<1>1. CASE StartPass
  BY <1>1 DEF StartPass, MatchableWants, FindingsStand, WantStands
<1>2. CASE PassFails
  BY <1>2 DEF PassFails, FindingsStand, IdlePass
<1>3. CASE EnsureMatch
  BY <1>3, NextPartnerStands DEF EnsureMatch, FindingsStand
<1>4. ASSUME NEW w \in Want, ListPartners(w)
      PROVE  FindingsStand'
  <2> DEFINE p == [wants |-> pass.wants \ {w}, want |-> w,
                   partners |-> UsersTradingMerch(w[2], w[1])]
  <2>1. /\ \A x \in p.wants : WantStands(x)
        /\ WantStands(p.want)
        /\ \A v \in p.partners : PartnerStands(p.want, v)
    BY <1>4 DEF ListPartners, FindingsStand, UsersTradingMerch, PartnerStands
  <2>2. pass' = NextPartner(p)
    BY <1>4 DEF ListPartners
  <2> HIDE DEF p
  <2> QED BY <2>1, <2>2, NextPartnerStands
<1>5. ASSUME NEW v \in Users, ListTrades(v)
      PROVE  FindingsStand'
  <2> DEFINE trades == TradeMerchInGroup(pass.want[1], pass.want[3])
             p == [wants |-> pass.wants, want |-> pass.want,
                   partners |-> pass.partners \ {v}]
             q == [pc |-> "trades", wants |-> p.wants, want |-> p.want,
                   partners |-> p.partners, partner |-> v, trades |-> trades]
  <2>1. /\ \A x \in p.wants : WantStands(x)
        /\ WantStands(p.want)
        /\ \A x \in p.partners : PartnerStands(p.want, x)
        /\ PartnerStands(p.want, v)
    BY <1>5 DEF ListTrades, FindingsStand
  <2>2. \A y \in trades : ReturnStands(p.want, y)
    BY DEF TradeMerchInGroup, ReturnStands
  <2>3. pass' = IF trades = {} THEN NextPartner(p) ELSE q
    BY <1>5 DEF ListTrades
  <2>4. CASE pass' = NextPartner(p)
    <3> HIDE DEF p
    <3> QED BY <2>1, <2>4, NextPartnerStands
  <2>5. CASE pass' = q
    BY <2>1, <2>2, <2>5 DEF FindingsStand, WantStands, PartnerStands, ReturnStands
  <2> QED BY <2>3, <2>4, <2>5
<1>6. ASSUME NEW m \in Merch, CheckTrade(m)
      PROVE  FindingsStand'
  <2> DEFINE found == [pc |-> "ensure", wants |-> pass.wants, want |-> pass.want,
                       partners |-> pass.partners, partner |-> pass.partner]
             rest == [pass EXCEPT !.trades = @ \ {m}]
  <2>1. /\ \A x \in pass.wants : WantStands(x)
        /\ WantStands(pass.want)
        /\ \A x \in pass.partners : PartnerStands(pass.want, x)
        /\ PartnerStands(pass.want, pass.partner)
        /\ \A y \in pass.trades : ReturnStands(pass.want, y)
        /\ m \in pass.trades
    BY <1>6 DEF CheckTrade, FindingsStand
  <2>2. pass' = IF WantsLiveMerch(pass.partner, m) THEN found
                ELSE IF pass.trades = {m} THEN NextPartner(pass) ELSE rest
    BY <1>6 DEF CheckTrade
  <2>3. CASE pass' = NextPartner(pass)
    BY <2>1, <2>3, NextPartnerStands
  <2>4. CASE WantsLiveMerch(pass.partner, m) /\ pass' = found
    BY <2>1, <2>4 DEF FindingsStand, WantStands, PartnerStands, ReturnStands, WantsLiveMerch
  <2>5. CASE pass' = rest
    <3>1. pass \in [pc: {"trades"}, wants: SUBSET Want, want: Want, partners: SUBSET Users,
                    partner: Users, trades: SUBSET Merch]
      BY <1>6, PassByPc DEF CheckTrade, Consistent, TypeOK
    <3>2. /\ pass'.pc = "trades" /\ pass'.wants = pass.wants /\ pass'.want = pass.want
          /\ pass'.partners = pass.partners /\ pass'.partner = pass.partner
          /\ pass'.trades = pass.trades \ {m}
      BY <2>5, <3>1
    <3> QED BY <2>1, <3>2 DEF FindingsStand, WantStands, PartnerStands, ReturnStands
  <2> QED BY <2>2, <2>3, <2>4, <2>5
<1> QED BY <1>1, <1>2, <1>3, <1>4, <1>5, <1>6

\* The pair the matcher opens a match for can trade both ways, and neither is
\* banned.
LEMMA EvidenceOfEnsure ==
    ASSUME Consistent, FindingsStand, EnsureMatch
    PROVE  LET k == <<{pass.want[1], pass.partner}, pass.want[3]>>
           IN  /\ k \in Keys
               /\ ~RequiresCancel(inv, group, live, k)
               /\ Participants(k) \cap banned = {}
<1> DEFINE u == pass.want[1]
           x == pass.want[2]
           g == pass.want[3]
           v == pass.partner
           k == <<{u, v}, g>>
<1>1. inv \in [Rows -> Int] /\ pass.pc = "ensure"
  BY DEF Consistent, TypeOK, EnsureMatch
<1>2. u \in Users /\ x \in Merch /\ g \in Groups /\ v \in Users
  BY <1>1, PassByPc DEF Consistent, TypeOK, Want
<1>3. /\ inv[<<u, x, "WANT">>] > 0 /\ inv[<<v, x, "TRADE">>] > 0
      /\ x \in live /\ group[x] = g /\ u # v /\ u \notin banned /\ v \notin banned
  BY <1>1 DEF FindingsStand, WantStands, PartnerStands
<1>4. PICK y \in Merch : /\ inv[<<u, y, "TRADE">>] > 0 /\ inv[<<v, y, "WANT">>] > 0
                         /\ y \in live /\ group[y] = g
  BY <1>1 DEF FindingsStand, ReturnStands
<1> HIDE DEF u, x, g, v
<1>5. k \in Keys /\ Participants(k) = {u, v} /\ GroupOf(k) = g
  BY <1>2, <1>3 DEF Keys, Pairs, Participants, GroupOf
<1>6. OtherParticipant(k, u) = v /\ OtherParticipant(k, v) = u
  BY <1>3, <1>5 DEF OtherParticipant
<1>7. ~(MutualCapacity(inv, group, live, v, u, g) <= 0)
  BY <1>1, <1>2, <1>3, EvidenceIsCapacity
<1>8. ~(MutualCapacity(inv, group, live, u, v, g) <= 0)
  BY <1>1, <1>2, <1>4, EvidenceIsCapacity
<1>9. ~RequiresCancel(inv, group, live, k)
  <2> HIDE DEF k
  <2> QED BY <1>5, <1>6, <1>7, <1>8 DEF RequiresCancel
<1>10. Participants(k) \cap banned = {}
  BY <1>3, <1>5
<1> QED BY <1>5, <1>9, <1>10 DEF u, g, v

\* A step of the matcher keeps the promises of the tables: a match it opens has
\* capacity both ways and no legs.
LEMMA MatcherKeepsSerial ==
    ASSUME Consistent, Alone, TablesSound, NothingStale, MatcherStep \/ PassFails
    PROVE  TablesSound' /\ NothingStale'
<1>1. UNCHANGED <<inv, group, live, banned, tx>> /\ \A s \in Sessions : tx[s] = Idle
  BY MatcherIsAlone
<1>2. FindingsStand'
  BY <1>1, MatcherReadStands DEF MatcherStep, NothingStale
<1>3. (\A s \in Sessions : DecisionStands(s))'
  BY <1>1 DEF DecisionStands, Idle
<1>4. TablesSound'
  <2>1. CASE matches' = matches
    BY <1>1, <2>1, NegotiationKeepsTables
  <2>2. CASE EnsureMatch
    <3> DEFINE k == <<{pass.want[1], pass.partner}, pass.want[3]>>
    <3>1. k \in Keys /\ ~RequiresCancel(inv, group, live, k)
      BY <2>2, EvidenceOfEnsure DEF NothingStale
    <3>2. /\ matches \in [Keys -> MatchRow]
          /\ matches' = [matches EXCEPT ![k] = Ensured(matches[k])]
      BY <2>2 DEF EnsureMatch, Consistent, TypeOK
    <3> HIDE DEF k
    <3>3. \A j \in Keys \ {k} : matches'[j] = matches[j]
      BY <3>2
    <3>4. matches'[k] = matches[k] \/ matches'[k].legs = NoLegs
      <4>1. matches'[k] = Ensured(matches[k]) /\ matches[k] \in MatchRow
        BY <3>1, <3>2
      <4> QED BY <4>1 DEF Ensured, NoMatch, MatchRow
    <3>5. ActiveLegsLive'
      BY <1>1, <3>3, <3>4 DEF TablesSound, ActiveLegsLive, ActiveKeys, NoLegs
    <3>6. ActiveKeepsCapacity => ActiveKeepsCapacity'
      BY <1>1, <3>1, <3>3 DEF ActiveKeepsCapacity, ActiveKeys
    <3> QED BY <1>1, <3>5, <3>6 DEF TablesSound
  <2> QED
    BY <2>1, <2>2
       DEF MatcherStep, StartPass, ListPartners, ListTrades, CheckTrade, PassFails, tables
<1> QED BY <1>2, <1>3, <1>4 DEF NothingStale

\* A ban between requests keeps the promises of the tables.
LEMMA BanKeepsSerial ==
    ASSUME Alone, TablesSound, NEW u, SetBanned(u)
    PROVE  TablesSound' /\ NothingStale'
<1>1. UNCHANGED <<inv, group, live, matches, tx, pass>> /\ Quiet
  BY DEF SetBanned, Alone, Quiet
<1>2. TablesSound'
  BY <1>1, NegotiationKeepsTables
<1>3. NothingStale'
  BY <1>1 DEF Quiet, NothingStale, DecisionStands, FindingsStand, Idle, IdlePass
<1> QED BY <1>2, <1>3

\* Every step of requests and passes that do not overlap keeps the invariant.
LEMMA SerialStep ==
    ASSUME SerialInvariant, [Next /\ Alone]_vars
    PROVE  SerialInvariant'
<1>1. Consistent /\ TablesSound /\ NothingStale
  BY DEF SerialInvariant
<1>2. Consistent'
  BY <1>1, NextStep
<1>3. ASSUME UNCHANGED vars
      PROVE  TablesSound' /\ NothingStale'
  <2>1. TablesSound'
    BY <1>1, <1>3, NegotiationKeepsTables DEF vars
  <2>2. \A s \in Sessions : DecisionStands(s)'
    <3>1. /\ \A u, k, h : CancelsOfApply(u, k, h)' = CancelsOfApply(u, k, h)
          /\ \A r, q : CancelsOfEdit(r, q)' = CancelsOfEdit(r, q)
          /\ \A m : CondemnedByDelete(m)' = CondemnedByDelete(m)
      BY <1>3 DEF vars, CancelsOfApply, CancelsOfEdit, CapacityChanged, ZeroCapacityOfUser,
                  CondemnedByDelete, ActiveKeys
    <3>2. ASSUME NEW s \in Sessions
          PROVE  DecisionStands(s)'
      <4> DEFINE t == tx[s]
      <4>1. /\ t.cancels = CancelsOfApply(t.user, t.key, t.skipHave) =>
                 t.cancels = CancelsOfApply(t.user, t.key, t.skipHave)'
            /\ t.cancels = CancelsOfEdit(t.row, t.qty) =>
                 t.cancels = CancelsOfEdit(t.row, t.qty)'
            /\ t.cancels = CondemnedByDelete(t.merch) =>
                 t.cancels = CondemnedByDelete(t.merch)'
        BY <1>3, <3>1 DEF vars
      <4> QED BY <1>1, <1>3, <4>1 DEF vars, NothingStale, DecisionStands
    <3> QED BY <3>2
  <2>3. FindingsStand'
    BY <1>1, <1>3 DEF vars, NothingStale, FindingsStand, WantStands, PartnerStands, ReturnStands
  <2> QED BY <2>1, <2>2, <2>3 DEF NothingStale
<1>4. ASSUME Next, Alone
      PROVE  TablesSound' /\ NothingStale'
  <2>1. ASSUME NEW s \in Sessions, SessionBegins(s) \/ SessionProceeds(s)
        PROVE  TablesSound' /\ NothingStale'
    BY <1>1, <1>4, <2>1, BeginKeepsSerial, NegotiationCommitKeepsSerial, ApplyWriteKeepsSerial,
       CancelsKeepSerial DEF SessionProceeds, Cancels
  <2>2. ASSUME NEW s \in Sessions, Rollback(s)
        PROVE  TablesSound' /\ NothingStale'
    <3>1. tx \in [Sessions -> Transactions] /\ tx'[s] = Idle /\ UNCHANGED tables
      BY <1>1, <2>2 DEF Consistent, TypeOK, Rollback
    <3>2. TablesSound'
      BY <1>1, <3>1, NegotiationKeepsTables DEF tables
    <3> QED BY <1>4, <2>2, <3>1, <3>2, SessionEndsQuiet
  <2> QED
    BY <1>1, <1>4, <2>1, <2>2, MatcherKeepsSerial, BanKeepsSerial DEF Next, ReliableNext
<1> QED BY <1>2, <1>3, <1>4 DEF SerialInvariant

\* The invariant holds at the start.
LEMMA SerialInit == Init => SerialInvariant
<1> SUFFICES ASSUME Init PROVE SerialInvariant
  OBVIOUS
<1>1. ActiveKeys = {}
  BY DEF Init, NoMatch, ActiveKeys, Active
<1>2. NothingStale
  BY QuietStands DEF Init, Quiet
<1> QED
  BY <1>1, <1>2, ConsistentInit
     DEF SerialInvariant, TablesSound, ActiveLegsLive, ActiveKeepsCapacity

\* Only a cancelling commit makes a match CANCELLED, and only the matcher makes
\* one PENDING.
LEMMA WhoWritesStatus ==
    ASSUME Consistent, [Next]_vars, NEW k \in Keys, matches'[k].status # matches[k].status
    PROVE  /\ matches'[k].status = "CANCELLED" => \E s \in Sessions : Cancels(s)
           /\ matches'[k].status = "PENDING" => EnsureMatch
<1>1. matches \in [Keys -> MatchRow] /\ matches[k] \in MatchRow
  BY DEF Consistent, TypeOK
<1> DEFINE Goal == /\ matches'[k].status = "CANCELLED" => \E s \in Sessions : Cancels(s)
                   /\ matches'[k].status = "PENDING" => EnsureMatch
<1>2. CASE matches' = matches
  BY <1>2
<1>3. ASSUME NEW s \in Sessions, Cancels(s)
      PROVE  Goal
  BY <1>3, CancelOutcome
<1>4. ASSUME NEW s \in Sessions,
             \/ OfferCommit(s) \/ AcceptCommit(s)
             \/ \E j \in Keys : \E u \in Users : Reject(s, j, u) \/ Complete(s, j, u)
      PROVE  Goal
  <2> DEFINE Answered ==
          matches'[k] = matches[k] \/
          matches'[k].status \in {"OFFERED", "ACCEPTED", "REJECTED", "COMPLETED"}
  <2>1. OfferCommit(s) \/ AcceptCommit(s) => Answered
    BY <1>1 DEF OfferCommit, AcceptCommit, MatchRow
  <2>2. ASSUME NEW j \in Keys, NEW u \in Users, Reject(s, j, u)
        PROVE  Answered
    BY <1>1, <2>2 DEF Reject, MatchRow
  <2>3. ASSUME NEW j \in Keys, NEW u \in Users, Complete(s, j, u)
        PROVE  Answered
    BY <1>1, <2>3 DEF Complete, MatchRow
  <2>4. Answered
    BY <1>4, <2>1, <2>2, <2>3
  <2> QED BY <2>4
<1>5. CASE EnsureMatch
  <2>1. matches'[k] = matches[k] \/ matches'[k] = Ensured(matches[k])
    BY <1>1, <1>5 DEF EnsureMatch
  <2>2. Ensured(matches[k]) = matches[k] \/ Ensured(matches[k]).status = "PENDING"
    BY <1>1 DEF Ensured, NoMatch, MatchRow
  <2> QED BY <1>5, <2>1, <2>2
<1> HIDE DEF Goal
<1>6. ASSUME NEW s \in Sessions, SessionBegins(s) \/ Rollback(s)
      PROVE  Goal
  <2>1. \/ matches' = matches
        \/ \E j \in Keys : \E u \in Users : Reject(s, j, u) \/ Complete(s, j, u)
    BY <1>6 DEF SessionBegins, tables, OfferBegin, AcceptBegin, ApplyGate, EditBegin,
                DeleteBegin, MoveMerch, Rollback
  <2> QED BY <1>2, <1>4, <2>1 DEF Goal
<1>7. ASSUME NEW s \in Sessions, SessionProceeds(s)
      PROVE  Goal
  BY <1>2, <1>3, <1>4, <1>7 DEF Goal, SessionProceeds, Cancels, ApplyWrite, tables
<1>8. CASE MatcherStep \/ PassFails
  BY <1>2, <1>5, <1>8
     DEF Goal, MatcherStep, StartPass, ListPartners, ListTrades, CheckTrade, PassFails, tables
<1>9. Goal
  BY <1>2, <1>6, <1>7, <1>8 DEF Goal, Next, ReliableNext, SetBanned, vars
<1> QED BY <1>9 DEF Goal

\* A match is cancelled for a cause that is true after the commit.
LEMMA CauseOfCancel ==
    ASSUME SerialInvariant, [Next /\ Alone]_vars, NEW k \in Keys,
           matches[k].status \in Active, matches'[k].status = "CANCELLED"
    PROVE  \/ RequiresCancel(inv, group, live, k)'
           \/ \E l \in Legs : matches[k].legs[l] > 0 /\ l[2] \notin live'
<1>1. Consistent /\ TablesSound /\ NothingStale
  BY DEF SerialInvariant
<1>2. matches'[k].status # matches[k].status
  BY DEF Active
<1>3. PICK s \in Sessions : Cancels(s)
  BY <1>1, <1>2, WhoWritesStatus
<1>4. Alone
  BY <1>2 DEF vars
<1>5. CommitIsJust(s)
  BY <1>1, <1>3, <1>4, CancelsKeepSerial
<1>6. k \in ActiveKeys \cap tx[s].cancels
  BY <1>1, <1>2, <1>3, CancelOutcome DEF ActiveKeys
<1> QED BY <1>5, <1>6 DEF CommitIsJust

\* Only a commit that may cancel writes the inventory.
LEMMA WhoWritesInventory ==
    ASSUME [Next]_vars, inv' # inv
    PROVE  \E s \in Sessions : Cancels(s)
<1>1. ASSUME NEW s \in Sessions, SessionBegins(s) \/ Rollback(s)
      PROVE  inv' = inv
  BY <1>1 DEF SessionBegins, OfferBegin, AcceptBegin, Reject, Complete, ApplyGate, EditBegin,
              DeleteBegin, MoveMerch, Rollback, tables
<1>2. ASSUME NEW s \in Sessions, SessionProceeds(s)
      PROVE  inv' = inv \/ Cancels(s)
  BY <1>2 DEF SessionProceeds, Cancels, OfferCommit, AcceptCommit, ApplyWrite, tables
<1>3. CASE MatcherStep \/ PassFails
  BY <1>3 DEF MatcherStep, StartPass, ListPartners, ListTrades, CheckTrade, EnsureMatch,
              PassFails, tables
<1> QED BY <1>1, <1>2, <1>3 DEF Next, ReliableNext, SetBanned, vars

\* A quantity that falls below zero is what its user is entering.
LEMMA CauseOfNegative ==
    ASSUME SerialInvariant, [Next /\ Alone]_vars, NEW r \in Rows,
           inv'[r] < 0, inv'[r] < inv[r]
    PROVE  \E s \in Sessions : Entered(s, r)
<1>1. Consistent /\ TablesSound /\ NothingStale
  BY DEF SerialInvariant
<1>2. inv' # inv
  <2>1. inv[r] \in Int
    BY <1>1 DEF Consistent, TypeOK
  <2> QED BY <2>1
<1>3. PICK s \in Sessions : Cancels(s)
  BY <1>2, WhoWritesInventory
<1>4. Alone
  BY <1>2 DEF vars
<1>5. CommitIsJust(s)
  BY <1>1, <1>3, <1>4, CancelsKeepSerial
<1> QED BY <1>5 DEF CommitIsJust

\* A match is opened between two users who can trade at that moment.
LEMMA EvidenceOfOpening ==
    ASSUME SerialInvariant, [Next /\ Alone]_vars, NEW k \in Keys,
           matches'[k].status = "PENDING", matches[k].status # "PENDING"
    PROVE  /\ ~RequiresCancel(inv, group, live, k)
           /\ Participants(k) \cap banned = {}
<1>1. Consistent /\ FindingsStand
  BY DEF SerialInvariant, NothingStale
<1>2. EnsureMatch
  BY <1>1, WhoWritesStatus
<1>3. k = <<{pass.want[1], pass.partner}, pass.want[3]>>
  BY <1>1, <1>2 DEF EnsureMatch, Consistent, TypeOK
<1> QED BY <1>1, <1>2, <1>3, EvidenceOfEnsure

(***************************************************************************)
(* While requests and passes do not overlap, the inductive invariant holds *)
(* in every reachable state, for any number of users, merch and groups.    *)
(***************************************************************************)
THEOREM SerialStaysSound == SerialSpec => []SerialInvariant
BY SerialInit, SerialStep, PTL DEF SerialSpec

(***************************************************************************)
(* Apply fails closed on TRADE and clamps HAVE and WANT (ADR 0014):        *)
(* whatever users enter, negative quantities included, no trade takes a    *)
(* quantity below zero unless requests overlap (apply_trade_delta).        *)
(***************************************************************************)
THEOREM ApplyFailsClosed == SerialSpec => OnlyEntriesGoNegative
<1>1. SerialInvariant /\ [Next /\ Alone]_vars =>
        [\A r \in Rows :
            inv'[r] < 0 /\ inv'[r] < inv[r] =>
                \E s \in Sessions : /\ tx[s].op = "edit"
                                    /\ tx[s].row = r
                                    /\ tx[s].qty = inv'[r]]_vars
  BY CauseOfNegative DEF Entered
<1> QED BY <1>1, SerialStaysSound, PTL DEF SerialSpec, OnlyEntriesGoNegative

(***************************************************************************)
(* No open match outlives a deleted item on its table (ADR 0008,           *)
(* delete_by_id), unless an offer of it overlaps the delete.               *)
(***************************************************************************)
THEOREM DeletesReachTheTable == SerialSpec => []ActiveLegsLive
<1>1. SerialInvariant => ActiveLegsLive
  BY DEF SerialInvariant, TablesSound
<1> QED BY <1>1, SerialStaysSound, PTL

(***************************************************************************)
(* No open match lingers without capacity both ways (ADR 0010) as long as  *)
(* requests and passes do not overlap and no merch changes its group: a    *)
(* group move cancels nothing, which the run moved_merch shows.            *)
(***************************************************************************)
THEOREM OpenMatchesHaveCapacity ==
    ASSUME MovableMerch = {}
    PROVE  SerialSpec => []ActiveKeepsCapacity
<1>1. SerialInvariant => ActiveKeepsCapacity
  BY DEF SerialInvariant, TablesSound
<1> QED BY <1>1, SerialStaysSound, PTL

(***************************************************************************)
(* The system cancels a match only when capacity or a leg is gone          *)
(* (update_inventory, apply_inventory, delete_by_id).                      *)
(***************************************************************************)
THEOREM CancelsAreJust == SerialSpec => CancelledForCause
<1>1. SerialInvariant /\ [Next /\ Alone]_vars =>
        [\A k \in Keys :
            matches[k].status \in Active /\ matches'[k].status = "CANCELLED" =>
                \/ RequiresCancel(inv, group, live, k)'
                \/ \E l \in Legs : matches[k].legs[l] > 0 /\ l[2] \notin live']_vars
  BY CauseOfCancel
<1> QED BY <1>1, SerialStaysSound, PTL DEF SerialSpec, CancelledForCause

(***************************************************************************)
(* The matcher opens a match only between two users who can trade both     *)
(* ways at that moment and of whom neither is banned                       *)
(* (run_matching_algorithm).                                               *)
(***************************************************************************)
THEOREM MatchesAreJust == SerialSpec => OpenedOnEvidence
<1>1. SerialInvariant /\ [Next /\ Alone]_vars =>
        [\A k \in Keys :
            matches'[k].status = "PENDING" /\ matches[k].status # "PENDING" =>
                /\ ~RequiresCancel(inv, group, live, k)
                /\ Participants(k) \cap banned = {}]_vars
  BY EvidenceOfOpening
<1> QED BY <1>1, SerialStaysSound, PTL DEF SerialSpec, OpenedOnEvidence

=============================================================================
