------------------------ MODULE TradeLifecycleProofs ------------------------
(***************************************************************************)
(* What the lifecycle promises, proved for every value of the constants.   *)
(* One inductive invariant carries everything: the types, one transaction  *)
(* per match row, transactions whose checks still hold, and rows that are  *)
(* sound in the sense of the abstract negotiation.  Each action is shown   *)
(* to preserve it and to be, for every match, one step of that negotiation *)
(* or a stutter.                                                           *)
(***************************************************************************)
EXTENDS TradeProperties, TLAPS

\* A match has two participants, both users, and the other one of a
\* participant is a participant (the unordered pair of
\* idx_matches_unique_pair_group).
LEMMA ParticipantsOfKey ==
    ASSUME NEW k \in Keys, NEW u \in Participants(k)
    PROVE  /\ u \in Users
           /\ GroupOf(k) \in Groups
           /\ OtherParticipant(k, u) \in Participants(k)
           /\ OtherParticipant(k, u) \in Users
           /\ OtherParticipant(k, u) # u
<1>1. PICK v \in Users, w \in Users : v # w /\ Participants(k) = {v, w}
  BY DEF Keys, Pairs, Participants
<1>2. \E x \in Participants(k) : x # u
  BY <1>1
<1>3. OtherParticipant(k, u) \in Participants(k) /\ OtherParticipant(k, u) # u
  BY <1>2 DEF OtherParticipant
<1>4. GroupOf(k) \in Groups
  BY DEF GroupOf, Keys
<1> QED BY <1>1, <1>3, <1>4

\* The operation of a transaction tells its record type.
LEMMA TransactionByOp ==
    ASSUME NEW x \in Transactions
    PROVE  /\ x.op = "offer" => x \in OfferTx
           /\ x.op = "accept" => x \in AcceptTx
           /\ x.op = "gate" => x \in GateTx
           /\ x.op = "apply" => x \in ApplyTx
           /\ x.op = "edit" => x \in EditTx
           /\ x.op = "delete" => x \in DeleteTx
BY DEF Transactions, OfferTx, AcceptTx, GateTx, ApplyTx, EditTx, DeleteTx, Idle

\* What a request to offer carries is a set of items.
LEMMA OfferInputsAreItems ==
    ASSUME NEW k \in Keys, NEW items \in OfferInputs(k)
    PROVE  items \in Items
<1>1. \A p \in Pairs : p \subseteq Users
  BY DEF Pairs
<1>2. Participants(k) \subseteq Users
  BY <1>1 DEF Keys, Participants
<1>3. PICK D \in SUBSET (Participants(k) \X Merch) : items \in [D -> 0..MaxQty]
  BY DEF OfferInputs
<1>4. D \in SUBSET Legs
  BY <1>2, <1>3 DEF Legs
<1> QED BY <1>3, <1>4 DEF Items

\* The empty proposal is a table of legs.
LEMMA NoLegsType == NoLegs \in [Legs -> 0..MaxQty]
BY QtyAssumption DEF NoLegs

\* upsert_legs and remove_legs leave quantities in range.
LEMMA UpsertLegsType ==
    ASSUME NEW lg \in [Legs -> 0..MaxQty], NEW items \in Items
    PROVE  UpsertLegs(lg, items) \in [Legs -> 0..MaxQty]
<1>1. PICK D \in SUBSET Legs : items \in [D -> 0..MaxQty]
  BY DEF Items
<1> QED BY <1>1 DEF UpsertLegs

\* apply_trade_delta leaves a quantity in every row; it may be negative,
\* which the violation run stale_gate shows.
LEMMA AppliedInventoryType ==
    ASSUME NEW iv \in [Rows -> Int], NEW lg \in [Legs -> 0..MaxQty],
           NEW u \in Users, NEW peer \in Users,
           NEW skipHave \in BOOLEAN, NEW receivedFirst \in BOOLEAN
    PROVE  AppliedInventory(iv, lg, u, peer, skipHave, receivedFirst) \in [Rows -> Int]
<1> SUFFICES ASSUME NEW r \in Rows
             PROVE  AppliedInventory(iv, lg, u, peer, skipHave, receivedFirst)[r] \in Int
  BY DEF AppliedInventory
<1> DEFINE given == IF skipHave THEN 0 ELSE lg[<<u, r[2]>>]
           received == lg[<<peer, r[2]>>]
<1>1. lg[<<u, r[2]>>] \in Int /\ received \in Int /\ given \in Int
  BY QtyAssumption DEF Legs, Rows
<1>2. iv[r] \in Int
  OBVIOUS
<1>3. \A n \in Int : AtLeastZero(n) \in Int
  BY DEF AtLeastZero
<1>4. AppliedInventory(iv, lg, u, peer, skipHave, receivedFirst)[r] =
        IF r[1] # u THEN iv[r]
        ELSE IF r[3] = "TRADE" THEN iv[r] - lg[<<u, r[2]>>]
        ELSE IF r[3] = "WANT"
             THEN IF received > 0 THEN AtLeastZero(iv[r] - received) ELSE iv[r]
        ELSE IF given = 0 THEN iv[r] + received
        ELSE IF receivedFirst THEN AtLeastZero(iv[r] + received - given)
        ELSE AtLeastZero(iv[r] - given) + received
  BY DEF AppliedInventory
<1> HIDE DEF given, received
<1>5. /\ iv[r] - lg[<<u, r[2]>>] \in Int
      /\ iv[r] - received \in Int
      /\ iv[r] + received \in Int
      /\ iv[r] + received - given \in Int
      /\ iv[r] - given \in Int
  BY <1>1, <1>2
<1>6. AtLeastZero(iv[r] - given) + received \in Int
  BY <1>1, <1>3, <1>5
<1> QED BY <1>2, <1>3, <1>4, <1>5, <1>6

\* system_cancel_matches leaves rows of the matches table.
LEMMA CancelType ==
    ASSUME TypeOK, NEW ks \in SUBSET Keys, NEW reason \in CancelReasons
    PROVE  SystemCancelMatches(ks, reason) \in [Keys -> MatchRow]
<1> SUFFICES ASSUME NEW k \in Keys
             PROVE  SystemCancelMatches(ks, reason)[k] \in MatchRow
  BY DEF SystemCancelMatches
<1>1. matches[k] \in MatchRow
  BY DEF TypeOK
<1>2. Append(matches[k].notices, reason) \in Seq(CancelReasons \cup RematchReasons)
  BY <1>1 DEF MatchRow
<1>3. [matches[k] EXCEPT !.status = "CANCELLED", !.notices = Append(@, reason)] \in MatchRow
  BY <1>1, <1>2 DEF MatchRow, Statuses, Terminal
<1> QED BY <1>1, <1>3 DEF SystemCancelMatches

\* insert_pending and reopen_terminal leave a row of the matches table.
LEMMA EnsuredType ==
    ASSUME NEW row \in MatchRow
    PROVE  Ensured(row) \in MatchRow
<1>1. NoLegs \in [Legs -> 0..MaxQty]
  BY NoLegsType
<1>2. [NoMatch EXCEPT !.status = "PENDING"] \in MatchRow
  <2>1. <<>> \in Seq(CancelReasons \cup RematchReasons)
    OBVIOUS
  <2> QED BY <2>1, <1>1 DEF NoMatch, MatchRow, Statuses, Active
<1>3. ASSUME NEW why \in RematchReasons
      PROVE  [row EXCEPT !.status = "PENDING", !.offeredBy = NoUser, !.legs = NoLegs,
                         !.notices = Append(@, why)] \in MatchRow
  <2>1. Append(row.notices, why) \in Seq(CancelReasons \cup RematchReasons)
    BY DEF MatchRow
  <2> QED BY <2>1, <1>1 DEF MatchRow, Statuses, Active
<1> QED BY <1>2, <1>3 DEF Ensured, RematchReasons

-----------------------------------------------------------------------------
\* No two transactions hold the same match row (SELECT ... FOR UPDATE).
LocksExclude ==
    \A s, t \in Sessions : \A k \in Keys :
        HoldsMatch(s, k) /\ HoldsMatch(t, k) => s = t

\* The inductive invariant.
Consistent ==
    /\ TypeOK
    /\ LocksExclude
    /\ ChecksStillHold
    /\ \A k \in Keys : Deal(k)!Sound

\* What a step does to one match row, and to all of them.
RowStep(k) == Deal(k)!Next \/ matches'[k] = matches[k]
RowSteps == \A k \in Keys : RowStep(k)

\* The part of the invariant that is about transactions.
SessionsConsistent ==
    tx \in [Sessions -> Transactions] /\ LocksExclude /\ ChecksStillHold

\* The invariant holds of an empty matches table and idle sessions.
LEMMA ConsistentInit == Init => Consistent
<1> SUFFICES ASSUME Init PROVE Consistent
  OBVIOUS
<1> USE DEF Init
<1>1. NoLegs \in [Legs -> 0..MaxQty]
  BY NoLegsType
<1>2. NoMatch \in MatchRow
  <2>1. <<>> \in Seq(CancelReasons \cup RematchReasons)
    OBVIOUS
  <2> QED BY <1>1, <2>1 DEF NoMatch, MatchRow, Statuses
<1>3. \A s \in Sessions : tx[s] = Idle
  OBVIOUS
<1>4. TypeOK
  <2>1. inv \in [Rows -> Int]
    BY StockAssumption, QtyAssumption
  <2>2. group \in [Merch -> Groups \cup {NoGroup}]
    BY HomeAssumption
  <2>3. tx \in [Sessions -> Transactions]
    BY DEF Transactions
  <2> QED BY <1>2, <2>1, <2>2, <2>3 DEF TypeOK, Passes
<1>5. LocksExclude
  BY <1>3 DEF LocksExclude, HoldsMatch, Idle
<1>6. ChecksStillHold
  BY <1>3 DEF ChecksStillHold, CheckHolds, Idle
<1>7. \A k \in Keys : Deal(k)!Sound
  BY <1>1 DEF Deal!Sound, NoMatch
<1> QED BY <1>4, <1>5, <1>6, <1>7 DEF Consistent

\* What a transaction checked still holds after a step that neither is its
\* own nor changes the match row it holds.
LEMMA CheckUntouched ==
    ASSUME tx \in [Sessions -> Transactions], ChecksStillHold,
           NEW t \in Sessions, tx'[t] = tx[t],
           \A k \in Keys : HoldsMatch(t, k) => matches'[k] = matches[k]
    PROVE  CheckHolds(t)'
<1>1. CheckHolds(t)
  BY DEF ChecksStillHold
<1>2. CASE tx[t].op \in {"offer", "accept", "gate", "apply"}
  <2>1. tx[t].key \in Keys
    BY <1>2, TransactionByOp DEF OfferTx, AcceptTx, GateTx, ApplyTx
  <2>2. matches'[tx[t].key] = matches[tx[t].key]
    BY <1>2, <2>1 DEF HoldsMatch
  <2> QED BY <1>1, <2>2 DEF CheckHolds, MayPropose
<1>3. CASE tx[t].op \notin {"offer", "accept", "gate", "apply"}
  BY <1>3 DEF CheckHolds
<1> QED BY <1>2, <1>3

\* Locks and checks survive a step that changes no transaction and no match
\* row that is held.
LEMMA SessionsUntouched ==
    ASSUME SessionsConsistent, tx' = tx,
           \A t \in Sessions : \A k \in Keys :
               HoldsMatch(t, k) => matches'[k] = matches[k]
    PROVE  SessionsConsistent'
<1> USE DEF SessionsConsistent
<1>1. \A t \in Sessions : CheckHolds(t)'
  BY CheckUntouched
<1>2. LocksExclude'
  BY DEF LocksExclude, HoldsMatch
<1> QED BY <1>1, <1>2 DEF ChecksStillHold

\* Locks and checks survive a commit or rollback of one session that changes
\* no match row another session holds.
LEMMA SessionEnds ==
    ASSUME SessionsConsistent, NEW s \in Sessions, tx' = [tx EXCEPT ![s] = Idle],
           \A t \in Sessions \ {s} : \A k \in Keys :
               HoldsMatch(t, k) => matches'[k] = matches[k]
    PROVE  SessionsConsistent'
<1> USE DEF SessionsConsistent
<1>1. tx' \in [Sessions -> Transactions]
  BY DEF Transactions
<1>2. tx'[s] = Idle /\ \A t \in Sessions \ {s} : tx'[t] = tx[t]
  OBVIOUS
<1>3. \A t \in Sessions \ {s} : CheckHolds(t)'
  BY <1>2, CheckUntouched
<1>4. CheckHolds(s)'
  BY <1>2 DEF CheckHolds, Idle
<1>5. LocksExclude'
  BY <1>2 DEF LocksExclude, HoldsMatch, Idle
<1> QED BY <1>1, <1>3, <1>4, <1>5 DEF ChecksStillHold

\* Locks and checks survive a session's begin, or its next statement, when
\* the match row it locks is free and its own checks hold.
LEMMA SessionAdvances ==
    ASSUME SessionsConsistent, NEW s \in Sessions, NEW x \in Transactions,
           tx' = [tx EXCEPT ![s] = x], matches' = matches, CheckHolds(s)',
           \A k \in Keys :
               x.op \in {"offer", "accept", "gate", "apply"} /\ x.key = k => MatchFree(s, k)
    PROVE  SessionsConsistent'
<1> USE DEF SessionsConsistent
<1>1. tx' \in [Sessions -> Transactions]
  OBVIOUS
<1>2. tx'[s] = x /\ \A t \in Sessions \ {s} : tx'[t] = tx[t]
  OBVIOUS
<1>3. \A t \in Sessions \ {s} : CheckHolds(t)'
  BY <1>2, CheckUntouched
<1>4. LocksExclude'
  BY <1>2 DEF LocksExclude, HoldsMatch, MatchFree
<1> QED BY <1>1, <1>3, <1>4 DEF ChecksStillHold

-----------------------------------------------------------------------------
\* A step of the negotiation of every match keeps every row sound: terms,
\* proposer and flags fit the status.
LEMMA RowStepsKeepSound ==
    ASSUME \A k \in Keys : Deal(k)!Sound, RowSteps
    PROVE  (\A k \in Keys : Deal(k)!Sound)'
<1> SUFFICES ASSUME NEW k \in Keys
             PROVE  Deal(k)!Sound'
  OBVIOUS
<1>1. NoLegs \in [Legs -> 0..MaxQty]
  BY NoLegsType
<1>2. Deal(k)!Sound /\ RowStep(k)
  BY DEF RowSteps
<1>3. CASE Deal(k)!Start
  BY <1>1, <1>2, <1>3 DEF Deal!Start, Deal!Sound, Deal!Ended
<1>4. CASE Deal(k)!Agree
  BY <1>2, <1>4 DEF Deal!Agree, Deal!Sound
<1>5. CASE Deal(k)!Decline
  BY <1>1, <1>2, <1>5 DEF Deal!Decline, Deal!Sound
<1>6. CASE Deal(k)!Withdraw
  BY <1>2, <1>6 DEF Deal!Withdraw, Deal!Sound, Deal!Open
<1>7. ASSUME NEW u \in Participants(k), Deal(k)!Propose(u)
      PROVE  Deal(k)!Sound'
  BY <1>2, <1>7 DEF Deal!Propose, Deal!Sound
<1>8. ASSUME NEW u \in Participants(k), Deal(k)!Complete(u)
      PROVE  Deal(k)!Sound'
  BY <1>2, <1>8 DEF Deal!Complete, Deal!Sound
<1>9. ASSUME NEW u \in Participants(k), Deal(k)!Apply(u)
      PROVE  Deal(k)!Sound'
  BY <1>2, <1>9 DEF Deal!Apply, Deal!Sound
<1>10. CASE matches'[k] = matches[k]
  BY <1>2, <1>10 DEF Deal!Sound
<1> QED
  BY <1>2, <1>3, <1>4, <1>5, <1>6, <1>7, <1>8, <1>9, <1>10 DEF RowStep, Deal!Next

\* The invariant is kept by a step that keeps the types, the locks and the
\* checks and is a negotiation step for every match.
LEMMA StepsKeepConsistent ==
    ASSUME Consistent, RowSteps, TypeOK', SessionsConsistent'
    PROVE  Consistent'
BY RowStepsKeepSound DEF Consistent, SessionsConsistent

\* A step that leaves the matches table alone is a stutter of every
\* negotiation.
LEMMA NoRowSteps ==
    ASSUME matches' = matches
    PROVE  RowSteps
BY DEF RowSteps, RowStep

\* A step that writes one match row is a step of that negotiation and a
\* stutter of all others.
LEMMA OneRowSteps ==
    ASSUME TypeOK, NEW k \in Keys, NEW row, matches' = [matches EXCEPT ![k] = row],
           RowStep(k)
    PROVE  RowSteps
<1> SUFFICES ASSUME NEW j \in Keys, j # k
             PROVE  matches'[j] = matches[j]
  BY DEF RowSteps, RowStep
<1> QED BY DEF TypeOK

\* For each match the conditional UPDATE of system_cancel_matches is a
\* withdrawal or nothing; it touches only the matches listed and only active
\* ones.
LEMMA CancelSteps ==
    ASSUME TypeOK, NEW ks, NEW reason, NEW k \in Keys,
           matches'[k] = SystemCancelMatches(ks, reason)[k]
    PROVE  /\ RowStep(k)
           /\ k \notin ks => matches'[k] = matches[k]
           /\ matches[k].status \notin Active => matches'[k] = matches[k]
<1>1. matches[k] \in MatchRow
  BY DEF TypeOK
<1>2. CASE k \in ks /\ matches[k].status \in Active
  <2>1. matches'[k] = [matches[k] EXCEPT !.status = "CANCELLED",
                                         !.notices = Append(@, reason)]
    BY <1>2 DEF SystemCancelMatches
  <2>2. Deal(k)!Withdraw
    BY <1>1, <1>2, <2>1 DEF Deal!Withdraw, Deal!Open, Active, MatchRow
  <2> QED BY <1>2, <2>2 DEF RowStep, Deal!Next
<1>3. CASE ~(k \in ks /\ matches[k].status \in Active)
  <2>1. matches'[k] = matches[k]
    BY <1>3 DEF SystemCancelMatches
  <2> QED BY <2>1 DEF RowStep
<1> QED BY <1>2, <1>3

\* A transaction that goes on has waited for every match it cancels: nobody
\* else holds one of them.
LEMMA GrantedCancels ==
    ASSUME NEW s \in Sessions, Granted(s), tx[s].op \in {"apply", "edit", "delete"},
           NEW t \in Sessions \ {s}, NEW k \in tx[s].cancels
    PROVE  ~HoldsMatch(t, k)
BY DEF Granted, WaitsFor, AwaitedMatches

\* The matches condemned by a loss of capacity or a delete are rows of the
\* matches table.
LEMMA CancelsType ==
    ASSUME NEW s \in Sessions
    PROVE  /\ \A iv, u : ZeroCapacityOfUser(iv, u) \in SUBSET Keys
           /\ \A m : CondemnedByDelete(m) \in SUBSET Keys
BY DEF ZeroCapacityOfUser, CondemnedByDelete, ActiveKeys

-----------------------------------------------------------------------------
\* offer, up to its last check, preserves the invariant.
LEMMA OfferBeginStep ==
    ASSUME Consistent, NEW s \in Sessions, NEW k \in Keys, NEW u \in Users,
           NEW items \in OfferInputs(k), OfferBegin(s, k, u, items)
    PROVE  Consistent' /\ RowSteps
<1> DEFINE x == [op |-> "offer", user |-> u, key |-> k, items |-> items]
<1> USE DEF OfferBegin, tables
<1>1. x \in Transactions
  BY OfferInputsAreItems DEF Transactions, OfferTx
<1>2. tx' = [tx EXCEPT ![s] = x] /\ matches' = matches
  OBVIOUS
<1>3. tx'[s] = x
  BY <1>2 DEF Consistent, TypeOK
<1>4. CheckHolds(s)'
  BY <1>2, <1>3 DEF CheckHolds, MayPropose
<1>5. SessionsConsistent /\ TypeOK
  BY DEF Consistent, SessionsConsistent, TypeOK
<1>6. SessionsConsistent'
  <2> HIDE DEF x
  <2>1. \A j \in Keys : x.op \in {"offer", "accept", "gate", "apply"} /\ x.key = j
                          => MatchFree(s, j)
    BY DEF x
  <2> QED BY <1>1, <1>2, <1>4, <1>5, <2>1, SessionAdvances
<1>7. TypeOK'
  BY <1>2, <1>5, <1>6 DEF TypeOK, SessionsConsistent
<1> QED BY <1>2, <1>6, <1>7, NoRowSteps, StepsKeepConsistent

\* The writes of offer preserve the invariant: by the lock on the match the
\* turn checked at the begin is still the proposer's.
LEMMA OfferCommitStep ==
    ASSUME Consistent, NEW s \in Sessions, OfferCommit(s)
    PROVE  Consistent' /\ RowSteps
<1>1. SessionsConsistent /\ TypeOK
  BY DEF Consistent, SessionsConsistent, TypeOK
<1>2. PICK k \in Keys, u \in Users :
          k = tx[s].key /\ u = tx[s].user /\ tx[s].items \in Items
  BY <1>1, TransactionByOp DEF OfferCommit, TypeOK, OfferTx
<1> DEFINE row == [matches[k] EXCEPT !.status = "OFFERED", !.offeredBy = u,
                                     !.legs = UpsertLegs(@, tx[s].items)]
<1>3. u \in Participants(k) /\ MayPropose(matches[k], u)
  BY <1>2 DEF Consistent, ChecksStillHold, CheckHolds, OfferCommit
<1>4. matches[k] \in MatchRow
  BY <1>1, <1>2 DEF TypeOK
<1>5. UpsertLegs(matches[k].legs, tx[s].items) \in [Legs -> 0..MaxQty]
  BY <1>2, <1>4, UpsertLegsType DEF MatchRow
<1>6. matches' = [matches EXCEPT ![k] = row]
  BY <1>2 DEF OfferCommit
<1>7. tx' = [tx EXCEPT ![s] = Idle] /\ UNCHANGED <<inv, group, live, banned, pass>>
  BY DEF OfferCommit
<1>8. HoldsMatch(s, k)
  BY <1>2 DEF HoldsMatch, OfferCommit
<1>9. row \in MatchRow
  BY <1>2, <1>4, <1>5 DEF MatchRow, Statuses, Active
<1>10. matches'[k] = row
  BY <1>1, <1>2, <1>6 DEF TypeOK
<1>11. Deal(k)!Propose(u)
  BY <1>3, <1>4, <1>5, <1>10 DEF Deal!Propose, MayPropose, MatchRow
<1> HIDE DEF row
<1>12. RowSteps
  <2>1. RowStep(k)
    BY <1>3, <1>11 DEF RowStep, Deal!Next
  <2> QED BY <1>1, <1>2, <1>6, <2>1, OneRowSteps
<1>13. SessionsConsistent'
  <2>1. \A t \in Sessions \ {s} : \A j \in Keys :
            HoldsMatch(t, j) => matches'[j] = matches[j]
    BY <1>1, <1>2, <1>6, <1>8 DEF TypeOK, SessionsConsistent, LocksExclude
  <2> QED BY <1>1, <1>7, <2>1, SessionEnds
<1>14. TypeOK'
  BY <1>1, <1>2, <1>6, <1>7, <1>9, <1>13 DEF TypeOK, SessionsConsistent
<1> QED BY <1>12, <1>13, <1>14, StepsKeepConsistent

\* change_status to ACCEPTED, up to its last check, preserves the invariant.
LEMMA AcceptBeginStep ==
    ASSUME Consistent, NEW s \in Sessions, NEW k \in Keys, NEW u \in Users,
           AcceptBegin(s, k, u)
    PROVE  Consistent' /\ RowSteps
<1> DEFINE x == [op |-> "accept", user |-> u, key |-> k]
<1> USE DEF AcceptBegin, tables
<1>1. x \in Transactions
  BY DEF Transactions, AcceptTx
<1>2. tx' = [tx EXCEPT ![s] = x] /\ matches' = matches
  OBVIOUS
<1>3. tx'[s] = x
  BY <1>2 DEF Consistent, TypeOK
<1>4. CheckHolds(s)'
  BY <1>2, <1>3 DEF CheckHolds
<1>5. SessionsConsistent /\ TypeOK
  BY DEF Consistent, SessionsConsistent, TypeOK
<1>6. SessionsConsistent'
  <2> HIDE DEF x
  <2>1. \A j \in Keys : x.op \in {"offer", "accept", "gate", "apply"} /\ x.key = j
                          => MatchFree(s, j)
    BY DEF x
  <2> QED BY <1>1, <1>2, <1>4, <1>5, <2>1, SessionAdvances
<1>7. TypeOK'
  BY <1>2, <1>5, <1>6 DEF TypeOK, SessionsConsistent
<1> QED BY <1>2, <1>6, <1>7, NoRowSteps, StepsKeepConsistent

\* The acceptance preserves the invariant: the legs that were balanced when
\* checked are the legs on the table.
LEMMA AcceptCommitStep ==
    ASSUME Consistent, NEW s \in Sessions, AcceptCommit(s)
    PROVE  Consistent' /\ RowSteps
<1>1. SessionsConsistent /\ TypeOK
  BY DEF Consistent, SessionsConsistent, TypeOK
<1>2. PICK k \in Keys : k = tx[s].key
  BY <1>1, TransactionByOp DEF AcceptCommit, TypeOK, AcceptTx
<1> DEFINE row == [matches[k] EXCEPT !.status = "ACCEPTED"]
<1>3. matches[k].status = "OFFERED" /\ IsBalanced(matches[k].legs, k)
  BY <1>2 DEF Consistent, ChecksStillHold, CheckHolds, AcceptCommit
<1>4. matches[k] \in MatchRow
  BY <1>1, <1>2 DEF TypeOK
<1>5. matches' = [matches EXCEPT ![k] = row]
  BY <1>2 DEF AcceptCommit
<1>6. tx' = [tx EXCEPT ![s] = Idle] /\ UNCHANGED <<inv, group, live, banned, pass>>
  BY DEF AcceptCommit
<1>7. HoldsMatch(s, k)
  BY <1>2 DEF HoldsMatch, AcceptCommit
<1>8. row \in MatchRow
  BY <1>4 DEF MatchRow, Statuses, Active
<1>9. matches'[k] = row
  BY <1>1, <1>2, <1>5 DEF TypeOK
<1>10. Deal(k)!Agree
  BY <1>3, <1>4, <1>9 DEF Deal!Agree, MatchRow
<1> HIDE DEF row
<1>11. RowSteps
  <2>1. RowStep(k)
    BY <1>10 DEF RowStep, Deal!Next
  <2> QED BY <1>1, <1>2, <1>5, <2>1, OneRowSteps
<1>12. SessionsConsistent'
  <2>1. \A t \in Sessions \ {s} : \A j \in Keys :
            HoldsMatch(t, j) => matches'[j] = matches[j]
    BY <1>1, <1>2, <1>5, <1>7 DEF TypeOK, SessionsConsistent, LocksExclude
  <2> QED BY <1>1, <1>6, <2>1, SessionEnds
<1>13. TypeOK'
  BY <1>1, <1>2, <1>5, <1>6, <1>8, <1>12 DEF TypeOK, SessionsConsistent
<1> QED BY <1>11, <1>12, <1>13, StepsKeepConsistent

\* change_status to REJECTED preserves the invariant.
LEMMA RejectStep ==
    ASSUME Consistent, NEW s \in Sessions, NEW k \in Keys, NEW u \in Users,
           Reject(s, k, u)
    PROVE  Consistent' /\ RowSteps
<1> DEFINE row == [matches[k] EXCEPT !.status = "REJECTED", !.legs = NoLegs]
<1>1. SessionsConsistent /\ TypeOK
  BY DEF Consistent, SessionsConsistent, TypeOK
<1>2. /\ tx[s] = Idle /\ MatchFree(s, k) /\ u \in Participants(k)
      /\ matches' = [matches EXCEPT ![k] = row]
      /\ UNCHANGED <<inv, group, live, banned, tx, pass>>
  BY DEF Reject
<1>3. matches[k] \in MatchRow /\ matches'[k] = row
  BY <1>1, <1>2 DEF TypeOK
<1>4. row \in MatchRow
  BY <1>3, NoLegsType DEF MatchRow, Statuses, Terminal
<1>5. Deal(k)!Decline
  BY <1>3 DEF Reject, Deal!Decline, MatchRow
<1> HIDE DEF row
<1>6. RowSteps
  <2>1. RowStep(k)
    BY <1>2, <1>5 DEF RowStep, Deal!Next
  <2> QED BY <1>1, <1>2, <2>1, OneRowSteps
<1>7. SessionsConsistent'
  <2>1. \A t \in Sessions : ~HoldsMatch(t, k)
    BY <1>2 DEF MatchFree, HoldsMatch, Idle
  <2>2. \A t \in Sessions : \A j \in Keys :
            HoldsMatch(t, j) => matches'[j] = matches[j]
    BY <1>1, <1>2, <2>1 DEF TypeOK
  <2> QED BY <1>1, <1>2, <2>2, SessionsUntouched
<1>8. TypeOK'
  BY <1>1, <1>2, <1>4 DEF TypeOK
<1> QED BY <1>6, <1>7, <1>8, StepsKeepConsistent

\* change_status to COMPLETED preserves the invariant.
LEMMA CompleteStep ==
    ASSUME Consistent, NEW s \in Sessions, NEW k \in Keys, NEW u \in Users,
           Complete(s, k, u)
    PROVE  Consistent' /\ RowSteps
<1> DEFINE row == [matches[k] EXCEPT !.status = "COMPLETED", !.completed = @ \cup {u}]
<1>1. SessionsConsistent /\ TypeOK
  BY DEF Consistent, SessionsConsistent, TypeOK
<1>2. /\ tx[s] = Idle /\ MatchFree(s, k) /\ u \in Participants(k)
      /\ matches' = [matches EXCEPT ![k] = row]
      /\ UNCHANGED <<inv, group, live, banned, tx, pass>>
  BY DEF Complete
<1>3. matches[k] \in MatchRow /\ matches'[k] = row
  BY <1>1, <1>2 DEF TypeOK
<1>4. row \in MatchRow
  BY <1>3 DEF MatchRow, Statuses
<1>5. Deal(k)!Complete(u)
  BY <1>3 DEF Complete, Deal!Complete, MatchRow
<1> HIDE DEF row
<1>6. RowSteps
  <2>1. RowStep(k)
    BY <1>2, <1>5 DEF RowStep, Deal!Next
  <2> QED BY <1>1, <1>2, <2>1, OneRowSteps
<1>7. SessionsConsistent'
  <2>1. \A t \in Sessions : ~HoldsMatch(t, k)
    BY <1>2 DEF MatchFree, HoldsMatch, Idle
  <2>2. \A t \in Sessions : \A j \in Keys :
            HoldsMatch(t, j) => matches'[j] = matches[j]
    BY <1>1, <1>2, <2>1 DEF TypeOK
  <2> QED BY <1>1, <1>2, <2>2, SessionsUntouched
<1>8. TypeOK'
  BY <1>1, <1>2, <1>4 DEF TypeOK
<1> QED BY <1>6, <1>7, <1>8, StepsKeepConsistent

\* apply_inventory, up to the TRADE gate, preserves the invariant.
LEMMA ApplyGateStep ==
    ASSUME Consistent, NEW s \in Sessions, NEW k \in Keys, NEW u \in Users,
           NEW skipHave \in BOOLEAN, ApplyGate(s, k, u, skipHave)
    PROVE  Consistent' /\ RowSteps
<1> DEFINE x == [op |-> "gate", user |-> u, key |-> k, skipHave |-> skipHave]
<1> USE DEF ApplyGate, tables
<1>1. x \in Transactions
  BY DEF Transactions, GateTx
<1>2. tx' = [tx EXCEPT ![s] = x] /\ matches' = matches
  OBVIOUS
<1>3. tx'[s] = x
  BY <1>2 DEF Consistent, TypeOK
<1>4. CheckHolds(s)'
  BY <1>2, <1>3 DEF CheckHolds
<1>5. SessionsConsistent /\ TypeOK
  BY DEF Consistent, SessionsConsistent, TypeOK
<1>6. SessionsConsistent'
  <2> HIDE DEF x
  <2>1. \A j \in Keys : x.op \in {"offer", "accept", "gate", "apply"} /\ x.key = j
                          => MatchFree(s, j)
    BY DEF x
  <2> QED BY <1>1, <1>2, <1>4, <1>5, <2>1, SessionAdvances
<1>7. TypeOK'
  BY <1>2, <1>5, <1>6 DEF TypeOK, SessionsConsistent
<1> QED BY <1>2, <1>6, <1>7, NoRowSteps, StepsKeepConsistent

\* The inventory writes of apply_inventory, still uncommitted, preserve the
\* invariant.
LEMMA ApplyWriteStep ==
    ASSUME Consistent, NEW s \in Sessions, ApplyWrite(s)
    PROVE  Consistent' /\ RowSteps
<1>1. SessionsConsistent /\ TypeOK
  BY DEF Consistent, SessionsConsistent, TypeOK
<1>2. PICK cancels \in SUBSET Keys :
          tx' = [tx EXCEPT ![s] = [op |-> "apply", user |-> tx[s].user, key |-> tx[s].key,
                                   skipHave |-> tx[s].skipHave, cancels |-> cancels]]
  BY CancelsType DEF ApplyWrite
<1>3. UNCHANGED <<inv, group, live, banned, matches, pass>>
  BY DEF ApplyWrite, tables
<1>4. tx[s] \in GateTx /\ tx[s].op = "gate"
  BY <1>1, TransactionByOp DEF ApplyWrite, TypeOK
<1> DEFINE x == [op |-> "apply", user |-> tx[s].user, key |-> tx[s].key,
                 skipHave |-> tx[s].skipHave, cancels |-> cancels]
<1>5. x \in Transactions
  BY <1>4 DEF GateTx, Transactions, ApplyTx
<1>6. tx'[s] = x
  BY <1>1, <1>2 DEF TypeOK
<1>7. CheckHolds(s)'
  <2>1. CheckHolds(s)
    BY <1>1 DEF SessionsConsistent, ChecksStillHold
  <2> QED BY <1>3, <1>4, <1>6, <2>1 DEF CheckHolds
<1>8. MatchFree(s, tx[s].key)
  <2>1. tx[s].key \in Keys /\ HoldsMatch(s, tx[s].key)
    BY <1>4 DEF GateTx, HoldsMatch
  <2> QED BY <1>1, <2>1 DEF SessionsConsistent, LocksExclude, MatchFree
<1>9. SessionsConsistent'
  <2>1. \A j \in Keys : x.op \in {"offer", "accept", "gate", "apply"} /\ x.key = j
                          => MatchFree(s, j)
    BY <1>8
  <2>2. tx' = [tx EXCEPT ![s] = x] /\ matches' = matches
    BY <1>2, <1>3
  <2> HIDE DEF x
  <2> QED BY <1>1, <1>5, <1>7, <2>1, <2>2, SessionAdvances
<1>10. TypeOK'
  BY <1>1, <1>3, <1>9 DEF TypeOK, SessionsConsistent
<1> QED BY <1>3, <1>9, <1>10, NoRowSteps, StepsKeepConsistent

\* update_inventory, up to the list of matches it condemns, preserves the
\* invariant.
LEMMA EditBeginStep ==
    ASSUME Consistent, NEW s \in Sessions, NEW r \in Rows, NEW q \in Int,
           EditBegin(s, r, q)
    PROVE  Consistent' /\ RowSteps
<1>1. SessionsConsistent /\ TypeOK
  BY DEF Consistent, SessionsConsistent, TypeOK
<1>2. PICK x \in EditTx : tx' = [tx EXCEPT ![s] = x]
  <2>1. PICK cancels \in SUBSET Keys :
            tx' = [tx EXCEPT ![s] = [op |-> "edit", row |-> r, qty |-> q, cancels |-> cancels]]
    BY CancelsType DEF EditBegin
  <2>2. [op |-> "edit", row |-> r, qty |-> q, cancels |-> cancels] \in EditTx
    BY DEF EditTx
  <2> QED BY <2>1, <2>2
<1>3. UNCHANGED <<inv, group, live, banned, matches, pass>>
  BY DEF EditBegin, tables
<1>4. x.op = "edit" /\ x \in Transactions
  BY DEF EditTx, Transactions
<1>5. CheckHolds(s)'
  <2>1. tx'[s] = x
    BY <1>1, <1>2 DEF TypeOK
  <2> QED BY <1>4, <2>1 DEF CheckHolds
<1>6. SessionsConsistent'
  BY <1>1, <1>2, <1>3, <1>4, <1>5, SessionAdvances
<1>7. TypeOK'
  BY <1>1, <1>3, <1>6 DEF TypeOK, SessionsConsistent
<1> QED BY <1>3, <1>6, <1>7, NoRowSteps, StepsKeepConsistent

\* The commit of update_inventory and its cancels preserves the invariant.
LEMMA EditCommitStep ==
    ASSUME Consistent, NEW s \in Sessions, EditCommit(s)
    PROVE  Consistent' /\ RowSteps
<1>1. SessionsConsistent /\ TypeOK
  BY DEF Consistent, SessionsConsistent, TypeOK
<1>2. tx[s] \in EditTx /\ tx[s].op = "edit"
  BY <1>1, TransactionByOp DEF EditCommit, TypeOK
<1>3. PICK ks \in SUBSET Keys : ks = tx[s].cancels
  BY <1>2 DEF EditTx
<1>4. matches' = SystemCancelMatches(ks, "INVENTORY_CAPACITY")
  BY <1>3 DEF EditCommit
<1>5. RowSteps
  BY <1>1, <1>4, CancelSteps DEF RowSteps
<1>6. \A t \in Sessions \ {s} : \A k \in Keys :
          HoldsMatch(t, k) => matches'[k] = matches[k]
  BY <1>1, <1>2, <1>3, <1>4, CancelSteps, GrantedCancels DEF EditCommit
<1>7. SessionsConsistent'
  BY <1>1, <1>6, SessionEnds DEF EditCommit
<1>8. matches' \in [Keys -> MatchRow]
  BY <1>1, <1>4, CancelType DEF CancelReasons
<1>9. inv' \in [Rows -> Int]
  BY <1>1, <1>2 DEF EditCommit, EditTx, TypeOK
<1>10. TypeOK'
  BY <1>1, <1>7, <1>8, <1>9 DEF EditCommit, TypeOK, SessionsConsistent
<1> QED BY <1>5, <1>7, <1>10, StepsKeepConsistent

\* delete_by_id, up to the list of matches it condemns, preserves the
\* invariant.
LEMMA DeleteBeginStep ==
    ASSUME Consistent, NEW s \in Sessions, NEW m \in Merch, DeleteBegin(s, m)
    PROVE  Consistent' /\ RowSteps
<1>1. SessionsConsistent /\ TypeOK
  BY DEF Consistent, SessionsConsistent, TypeOK
<1>2. PICK x \in DeleteTx : tx' = [tx EXCEPT ![s] = x]
  <2>1. PICK cancels \in SUBSET Keys :
            tx' = [tx EXCEPT ![s] = [op |-> "delete", merch |-> m, cancels |-> cancels]]
    BY CancelsType DEF DeleteBegin
  <2>2. [op |-> "delete", merch |-> m, cancels |-> cancels] \in DeleteTx
    BY DEF DeleteTx
  <2> QED BY <2>1, <2>2
<1>3. UNCHANGED <<inv, group, live, banned, matches, pass>>
  BY DEF DeleteBegin, tables
<1>4. x.op = "delete" /\ x \in Transactions
  BY DEF DeleteTx, Transactions
<1>5. CheckHolds(s)'
  <2>1. tx'[s] = x
    BY <1>1, <1>2 DEF TypeOK
  <2> QED BY <1>4, <2>1 DEF CheckHolds
<1>6. SessionsConsistent'
  BY <1>1, <1>2, <1>3, <1>4, <1>5, SessionAdvances
<1>7. TypeOK'
  BY <1>1, <1>3, <1>6 DEF TypeOK, SessionsConsistent
<1> QED BY <1>3, <1>6, <1>7, NoRowSteps, StepsKeepConsistent

\* The commit of delete_by_id and its cancels preserves the invariant.
LEMMA DeleteCommitStep ==
    ASSUME Consistent, NEW s \in Sessions, DeleteCommit(s)
    PROVE  Consistent' /\ RowSteps
<1>1. SessionsConsistent /\ TypeOK
  BY DEF Consistent, SessionsConsistent, TypeOK
<1>2. tx[s] \in DeleteTx /\ tx[s].op = "delete"
  BY <1>1, TransactionByOp DEF DeleteCommit, TypeOK
<1>3. PICK ks \in SUBSET Keys : ks = tx[s].cancels
  BY <1>2 DEF DeleteTx
<1>4. matches' = SystemCancelMatches(ks, "MERCH_DELETED")
  BY <1>3 DEF DeleteCommit
<1>5. RowSteps
  BY <1>1, <1>4, CancelSteps DEF RowSteps
<1>6. \A t \in Sessions \ {s} : \A k \in Keys :
          HoldsMatch(t, k) => matches'[k] = matches[k]
  BY <1>1, <1>2, <1>3, <1>4, CancelSteps, GrantedCancels DEF DeleteCommit
<1>7. SessionsConsistent'
  BY <1>1, <1>6, SessionEnds DEF DeleteCommit
<1>8. matches' \in [Keys -> MatchRow]
  BY <1>1, <1>4, CancelType DEF CancelReasons
<1>9. live' \in SUBSET Merch
  BY <1>1, <1>2 DEF DeleteCommit, DeleteTx, TypeOK
<1>10. TypeOK'
  BY <1>1, <1>7, <1>8, <1>9 DEF DeleteCommit, TypeOK, SessionsConsistent
<1> QED BY <1>5, <1>7, <1>10, StepsKeepConsistent

\* The commit of apply_inventory preserves the invariant: its own match is
\* COMPLETED and so out of reach of the cancels it makes.
LEMMA ApplyCommitStep ==
    ASSUME Consistent, NEW s \in Sessions, ApplyCommit(s)
    PROVE  Consistent' /\ RowSteps
<1>1. SessionsConsistent /\ TypeOK
  BY DEF Consistent, SessionsConsistent, TypeOK
<1>2. tx[s] \in ApplyTx /\ tx[s].op = "apply"
  BY <1>1, TransactionByOp DEF ApplyCommit, TypeOK
<1>3. PICK k \in Keys, u \in Users, ks \in SUBSET Keys :
          k = tx[s].key /\ u = tx[s].user /\ ks = tx[s].cancels
  BY <1>2 DEF ApplyTx
<1> DEFINE cancelled == SystemCancelMatches(ks, "INVENTORY_CAPACITY")
           row == [matches[k] EXCEPT !.applied = @ \cup {u}]
<1>4. /\ u \in Participants(k)
      /\ matches[k].status = "COMPLETED"
      /\ u \in matches[k].completed \ matches[k].applied
  BY <1>1, <1>2, <1>3 DEF SessionsConsistent, ChecksStillHold, CheckHolds
<1>5. matches[k] \in MatchRow
  BY <1>1 DEF TypeOK
<1>6. cancelled \in [Keys -> MatchRow]
  BY <1>1, CancelType DEF CancelReasons
<1>7. cancelled[k] = matches[k]
  BY <1>4 DEF SystemCancelMatches, Active
<1>8. matches' = [cancelled EXCEPT ![k].applied = @ \cup {u}]
  BY <1>3 DEF ApplyCommit
<1> HIDE DEF cancelled
<1>9. matches' = [cancelled EXCEPT ![k] = row]
  BY <1>6, <1>7, <1>8
<1>10. row \in MatchRow
  BY <1>5 DEF MatchRow
<1>11. matches' \in [Keys -> MatchRow]
  BY <1>6, <1>9, <1>10
<1>12. \A j \in Keys \ {k} : matches'[j] = cancelled[j]
  BY <1>6, <1>9
<1>13. RowSteps
  <2>1. Deal(k)!Apply(u)
    BY <1>4, <1>5, <1>6, <1>9 DEF Deal!Apply, MatchRow
  <2>2. RowStep(k)
    BY <1>4, <2>1 DEF RowStep, Deal!Next
  <2>3. \A j \in Keys \ {k} : RowStep(j)
    BY <1>1, <1>12, CancelSteps DEF cancelled
  <2> QED BY <2>2, <2>3 DEF RowSteps
<1>14. SessionsConsistent'
  <2> SUFFICES ASSUME NEW t \in Sessions \ {s}, NEW j \in Keys, HoldsMatch(t, j)
               PROVE  matches'[j] = matches[j]
    BY <1>1, SessionEnds DEF ApplyCommit
  <2>1. j # k
    BY <1>1, <1>2, <1>3 DEF SessionsConsistent, LocksExclude, HoldsMatch
  <2>2. j \notin ks
    BY <1>2, <1>3, GrantedCancels DEF ApplyCommit
  <2> QED BY <1>1, <1>12, <2>1, <2>2, CancelSteps DEF cancelled
<1>15. inv' \in [Rows -> Int]
  <2>1. PICK receivedFirst \in BOOLEAN :
            inv' = AppliedInventory(inv, matches[k].legs, u, OtherParticipant(k, u),
                                    tx[s].skipHave, receivedFirst)
    BY <1>3 DEF ApplyCommit
  <2>2. /\ inv \in [Rows -> Int] /\ matches[k].legs \in [Legs -> 0..MaxQty]
        /\ tx[s].skipHave \in BOOLEAN
    BY <1>1, <1>2, <1>5 DEF TypeOK, MatchRow, ApplyTx
  <2>3. OtherParticipant(k, u) \in Users
    BY <1>4, ParticipantsOfKey
  <2> QED BY <2>1, <2>2, <2>3, AppliedInventoryType
<1>16. TypeOK'
  BY <1>1, <1>11, <1>14, <1>15 DEF ApplyCommit, TypeOK, SessionsConsistent
<1> QED BY <1>13, <1>14, <1>16, StepsKeepConsistent

\* A transaction that is rolled back preserves the invariant.
LEMMA RollbackStep ==
    ASSUME Consistent, NEW s \in Sessions, Rollback(s)
    PROVE  Consistent' /\ RowSteps
<1>1. SessionsConsistent /\ TypeOK
  BY DEF Consistent, SessionsConsistent, TypeOK
<1>2. UNCHANGED <<inv, group, live, banned, matches, pass>>
  BY DEF Rollback, tables
<1>3. SessionsConsistent'
  BY <1>1, <1>2, SessionEnds DEF Rollback
<1>4. TypeOK'
  BY <1>1, <1>2, <1>3 DEF TypeOK, SessionsConsistent
<1> QED BY <1>2, <1>3, <1>4, NoRowSteps, StepsKeepConsistent

\* A group move or a ban preserves the invariant.
LEMMA CatalogStep ==
    ASSUME Consistent, UNCHANGED <<inv, live, matches, tx, pass>>,
           group' \in [Merch -> Groups \cup {NoGroup}], banned' \in SUBSET Users
    PROVE  Consistent' /\ RowSteps
<1>1. SessionsConsistent /\ TypeOK
  BY DEF Consistent, SessionsConsistent, TypeOK
<1>2. SessionsConsistent'
  BY <1>1, SessionsUntouched
<1>3. TypeOK'
  BY <1>1 DEF TypeOK
<1> QED BY <1>2, <1>3, NoRowSteps, StepsKeepConsistent

-----------------------------------------------------------------------------
\* A query of the matcher preserves the invariant.
LEMMA MatcherReadStep ==
    ASSUME Consistent, UNCHANGED <<tables, tx>>, pass' \in Passes
    PROVE  Consistent' /\ RowSteps
<1> USE DEF tables
<1>1. SessionsConsistent /\ TypeOK
  BY DEF Consistent, SessionsConsistent, TypeOK
<1>2. SessionsConsistent'
  BY <1>1, SessionsUntouched
<1>3. TypeOK'
  BY <1>1 DEF TypeOK
<1> QED BY <1>2, <1>3, NoRowSteps, StepsKeepConsistent

\* The loops of run_matching_algorithm that are left are a state of the pass.
LEMMA NextPartnerType ==
    ASSUME NEW p, p.wants \in SUBSET Want, p.want \in Want, p.partners \in SUBSET Users
    PROVE  NextPartner(p) \in Passes
BY DEF NextPartner, Passes

\* The position in a pass tells which loop variables it has.
LEMMA PassByPc ==
    ASSUME NEW p \in Passes
    PROVE  /\ p.pc = "wants" => p.wants \in SUBSET Want
           /\ p.pc \in {"partners", "trades", "ensure"} =>
                /\ p.wants \in SUBSET Want
                /\ p.want \in Want
                /\ p.partners \in SUBSET Users
           /\ p.pc \in {"trades", "ensure"} => p.partner \in Users
           /\ p.pc = "trades" =>
                p \in [pc: {"trades"}, wants: SUBSET Want, want: Want,
                       partners: SUBSET Users, partner: Users, trades: SUBSET Merch]
BY DEF Passes, IdlePass

\* The query list_users_trading_merch leaves a state of the pass.
LEMMA ListPartnersType ==
    ASSUME TypeOK, NEW w \in Want, ListPartners(w)
    PROVE  pass' \in Passes
<1> DEFINE p == [wants |-> pass.wants \ {w}, want |-> w,
                 partners |-> UsersTradingMerch(w[2], w[1])]
<1>1. pass.wants \in SUBSET Want
  BY PassByPc DEF ListPartners, TypeOK
<1>2. UsersTradingMerch(w[2], w[1]) \in SUBSET Users
  BY DEF UsersTradingMerch
<1>3. p.wants \in SUBSET Want /\ p.want \in Want /\ p.partners \in SUBSET Users
  BY <1>1, <1>2
<1>4. pass' = NextPartner(p)
  BY DEF ListPartners
<1> HIDE DEF p
<1> QED BY <1>3, <1>4, NextPartnerType

\* The query list_user_trade_merch_ids_in_group leaves a state of the pass.
LEMMA ListTradesType ==
    ASSUME TypeOK, NEW v \in Users, ListTrades(v)
    PROVE  pass' \in Passes
<1> DEFINE p == [wants |-> pass.wants, want |-> pass.want,
                 partners |-> pass.partners \ {v}]
           trades == TradeMerchInGroup(pass.want[1], pass.want[3])
           q == [pc |-> "trades", wants |-> p.wants, want |-> p.want,
                 partners |-> p.partners, partner |-> v, trades |-> trades]
<1>1. p.wants \in SUBSET Want /\ p.want \in Want /\ p.partners \in SUBSET Users
  BY PassByPc DEF ListTrades, TypeOK
<1>2. trades \in SUBSET Merch
  BY DEF TradeMerchInGroup
<1>3. pass' = IF trades = {} THEN NextPartner(p) ELSE q
  BY DEF ListTrades
<1>4. q \in Passes
  <2> HIDE DEF p, trades
  <2> QED BY <1>1, <1>2 DEF Passes
<1> HIDE DEF p, q
<1> QED BY <1>1, <1>3, <1>4, NextPartnerType

\* The query user_wants_live_merch leaves a state of the pass.
LEMMA CheckTradeType ==
    ASSUME TypeOK, NEW m \in Merch, CheckTrade(m)
    PROVE  pass' \in Passes
<1> DEFINE found == [pc |-> "ensure", wants |-> pass.wants, want |-> pass.want,
                     partners |-> pass.partners, partner |-> pass.partner]
           rest == [pass EXCEPT !.trades = @ \ {m}]
<1>1. pass \in Passes /\ pass.pc = "trades"
  BY DEF CheckTrade, TypeOK
<1>2. found \in Passes
  BY <1>1, PassByPc DEF Passes
<1>3. rest \in Passes
  BY <1>1, PassByPc DEF Passes
<1>4. NextPartner(pass) \in Passes
  BY <1>1, PassByPc, NextPartnerType
<1>5. pass' = IF WantsLiveMerch(pass.partner, m) THEN found
              ELSE IF pass.trades = {m} THEN NextPartner(pass) ELSE rest
  BY DEF CheckTrade
<1> HIDE DEF found, rest
<1> QED BY <1>2, <1>3, <1>4, <1>5

\* ensure_match_for_pair starts a negotiation or leaves the row alone, and
\* leaves alone every row a transaction may hold.
LEMMA EnsuredRow ==
    ASSUME Consistent, NEW k \in Keys, matches'[k] = Ensured(matches[k])
    PROVE  /\ RowStep(k)
           /\ matches[k].status \in Active \cup {"COMPLETED"} => matches'[k] = matches[k]
<1>1. matches[k] \in MatchRow /\ Deal(k)!Sound
  BY DEF Consistent, TypeOK
<1>2. CASE matches[k].status = "NONE"
  <2>1. matches'[k] = [NoMatch EXCEPT !.status = "PENDING"]
    BY <1>2 DEF Ensured
  <2>2. matches[k].completed = {} /\ matches[k].applied = {}
    BY <1>1, <1>2 DEF Deal!Sound
  <2>3. Deal(k)!Start
    BY <1>2, <2>1, <2>2 DEF Deal!Start, NoMatch
  <2> QED BY <1>2, <2>3 DEF RowStep, Deal!Next, Active
<1>3. CASE matches[k].status \in Terminal /\ RematchCount(matches[k]) < MaxRematch
  <2>1. PICK why : matches'[k] =
          [matches[k] EXCEPT !.status = "PENDING", !.offeredBy = NoUser, !.legs = NoLegs,
                             !.notices = Append(@, why)]
    BY <1>3 DEF Ensured, Terminal
  <2>2. Deal(k)!Start
    BY <1>1, <1>3, <2>1 DEF Deal!Start, Deal!Ended, Terminal, MatchRow
  <2> QED BY <1>3, <2>2 DEF RowStep, Deal!Next, Active, Terminal
<1>4. CASE matches'[k] = matches[k]
  BY <1>4 DEF RowStep
<1> QED BY <1>2, <1>3, <1>4 DEF Ensured

\* The matcher's insert or reopen preserves the invariant.
LEMMA EnsureMatchStep ==
    ASSUME Consistent, EnsureMatch
    PROVE  Consistent' /\ RowSteps
<1>1. SessionsConsistent /\ TypeOK
  BY DEF Consistent, SessionsConsistent, TypeOK
<1>2. PICK k : matches' = [matches EXCEPT ![k] = Ensured(matches[k])]
  BY DEF EnsureMatch
<1>3. \A j \in Keys : matches'[j] = IF j = k THEN Ensured(matches[j]) ELSE matches[j]
  BY <1>1, <1>2 DEF TypeOK
<1>4. RowSteps
  <2> SUFFICES ASSUME NEW j \in Keys
               PROVE  RowStep(j)
    BY DEF RowSteps
  <2>1. CASE j = k
    BY <1>3, <2>1, EnsuredRow
  <2>2. CASE j # k
    BY <1>3, <2>2 DEF RowStep
  <2> QED BY <2>1, <2>2
<1>5. SessionsConsistent'
  <2> SUFFICES ASSUME NEW t \in Sessions, NEW j \in Keys, HoldsMatch(t, j)
               PROVE  matches'[j] = matches[j]
    BY <1>1, SessionsUntouched DEF EnsureMatch
  <2>1. matches[j].status \in Active \cup {"COMPLETED"}
    <3>1. CheckHolds(t)
      BY <1>1 DEF SessionsConsistent, ChecksStillHold
    <3> QED BY <3>1 DEF CheckHolds, HoldsMatch, MayPropose, Active
  <2>2. j = k => matches'[j] = matches[j]
    BY <1>3, <2>1, EnsuredRow
  <2> QED BY <1>3, <2>2
<1>6. TypeOK'
  <2>1. matches' \in [Keys -> MatchRow]
    BY <1>1, <1>2, <1>3, EnsuredType DEF TypeOK
  <2>2. pass' \in Passes
    BY <1>1, PassByPc, NextPartnerType DEF EnsureMatch, TypeOK
  <2> QED BY <1>1, <2>1, <2>2 DEF EnsureMatch, TypeOK
<1> QED BY <1>4, <1>5, <1>6, StepsKeepConsistent

\* Every step of the matcher preserves the invariant.
LEMMA MatcherStepStep ==
    ASSUME Consistent, MatcherStep \/ PassFails
    PROVE  Consistent' /\ RowSteps
<1>1. TypeOK
  BY DEF Consistent
<1>2. CASE StartPass
  <2>1. MatchableWants \in SUBSET Want
    BY DEF MatchableWants
  <2>2. pass' \in Passes
    BY <1>2, <2>1 DEF StartPass, Passes
  <2> QED BY <1>2, <2>2, MatcherReadStep DEF StartPass
<1>3. ASSUME NEW w \in Want, ListPartners(w)
      PROVE  Consistent' /\ RowSteps
  BY <1>1, <1>3, ListPartnersType, MatcherReadStep DEF ListPartners
<1>4. ASSUME NEW v \in Users, ListTrades(v)
      PROVE  Consistent' /\ RowSteps
  BY <1>1, <1>4, ListTradesType, MatcherReadStep DEF ListTrades
<1>5. ASSUME NEW m \in Merch, CheckTrade(m)
      PROVE  Consistent' /\ RowSteps
  BY <1>1, <1>5, CheckTradeType, MatcherReadStep DEF CheckTrade
<1>6. CASE EnsureMatch
  BY <1>6, EnsureMatchStep
<1>7. CASE PassFails
  BY <1>7, MatcherReadStep DEF PassFails, Passes
<1> QED BY <1>2, <1>3, <1>4, <1>5, <1>6, <1>7 DEF MatcherStep

-----------------------------------------------------------------------------
\* Every step of a session preserves the invariant.
LEMMA SessionStep ==
    ASSUME Consistent, NEW s \in Sessions,
           SessionBegins(s) \/ SessionProceeds(s) \/ Rollback(s)
    PROVE  Consistent' /\ RowSteps
<1>1. ASSUME NEW k \in Keys, NEW u \in Users,
             \/ \E items \in OfferInputs(k) : OfferBegin(s, k, u, items)
             \/ AcceptBegin(s, k, u)
             \/ Reject(s, k, u)
             \/ Complete(s, k, u)
             \/ \E skipHave \in BOOLEAN : ApplyGate(s, k, u, skipHave)
      PROVE  Consistent' /\ RowSteps
  BY <1>1, OfferBeginStep, AcceptBeginStep, RejectStep, CompleteStep, ApplyGateStep
<1>2. ASSUME NEW r \in EditRows, NEW q \in Entries, EditBegin(s, r, q)
      PROVE  Consistent' /\ RowSteps
  BY <1>2, EditAssumption, EntryAssumption, EditBeginStep
<1>3. ASSUME NEW m \in DeletableMerch, DeleteBegin(s, m)
      PROVE  Consistent' /\ RowSteps
  BY <1>3, MerchAssumption, DeleteBeginStep
<1>4. ASSUME NEW m \in MovableMerch, NEW g \in Groups \cup {NoGroup}, MoveMerch(s, m, g)
      PROVE  Consistent' /\ RowSteps
  <2>1. group' \in [Merch -> Groups \cup {NoGroup}] /\ banned' \in SUBSET Users
    BY <1>4, MerchAssumption DEF MoveMerch, Consistent, TypeOK
  <2> QED BY <1>4, <2>1, CatalogStep DEF MoveMerch
<1>5. CASE SessionBegins(s)
  BY <1>1, <1>2, <1>3, <1>4, <1>5 DEF SessionBegins
<1>6. CASE SessionProceeds(s)
  BY <1>6, OfferCommitStep, AcceptCommitStep, ApplyWriteStep, ApplyCommitStep,
     EditCommitStep, DeleteCommitStep DEF SessionProceeds
<1> QED BY <1>5, <1>6, RollbackStep

\* Every step of the system preserves the invariant, and is a negotiation
\* step or a stutter for every match.
LEMMA NextStep ==
    ASSUME Consistent, [Next]_vars
    PROVE  Consistent' /\ RowSteps
<1>1. ASSUME NEW u \in BannableUsers, SetBanned(u)
      PROVE  Consistent' /\ RowSteps
  <2>1. group' \in [Merch -> Groups \cup {NoGroup}] /\ banned' \in SUBSET Users
    BY <1>1, BanAssumption DEF SetBanned, Consistent, TypeOK
  <2> QED BY <1>1, <2>1, CatalogStep DEF SetBanned
<1>2. CASE UNCHANGED vars
  <2>1. pass' \in Passes
    BY <1>2 DEF vars, Consistent, TypeOK
  <2> QED BY <1>2, <2>1, MatcherReadStep DEF vars, tables
<1> QED BY <1>1, <1>2, SessionStep, MatcherStepStep DEF Next, ReliableNext

(***************************************************************************)
(* The inductive invariant holds in every reachable state, for any number  *)
(* of users, merch, groups and overlapping sessions.                       *)
(***************************************************************************)
THEOREM StaysConsistent == Spec => []Consistent
BY ConsistentInit, NextStep, PTL DEF Spec

(***************************************************************************)
(* Every table, transaction and loop variable keeps its type.              *)
(***************************************************************************)
THEOREM TypesHold == Spec => []TypeOK
<1>1. Consistent => TypeOK
  BY DEF Consistent
<1> QED BY <1>1, StaysConsistent, PTL

(***************************************************************************)
(* What a transaction checked of its match row is still true when it       *)
(* commits (find_for_update under READ COMMITTED).                         *)
(***************************************************************************)
THEOREM ChecksHoldAtCommit == Spec => []ChecksStillHold
<1>1. Consistent => ChecksStillHold
  BY DEF Consistent
<1> QED BY <1>1, StaysConsistent, PTL

(***************************************************************************)
(* Both sides of an ACCEPTED or COMPLETED match give the same non-zero     *)
(* total (is_balanced in change_status).                                   *)
(***************************************************************************)
THEOREM AgreementsAreBalanced == Spec => []AgreedTermsBalanced
<1>1. Consistent => AgreedTermsBalanced
  BY DEF Consistent, AgreedTermsBalanced, Agreed, Deal!Sound
<1> QED BY <1>1, StaysConsistent, PTL

(***************************************************************************)
(* Somebody has completed exactly the COMPLETED matches, and only who      *)
(* completed has applied (change_status, apply_inventory).                 *)
(***************************************************************************)
THEOREM FlagsFollow == Spec => []FlagsFollowStatus
<1>1. Consistent => FlagsFollowStatus
  BY DEF Consistent, FlagsFollowStatus, Deal!Sound
<1> QED BY <1>1, StaysConsistent, PTL

(***************************************************************************)
(* A PENDING match, new or reopened, has no legs and no proposer           *)
(* (reopen_terminal).                                                      *)
(***************************************************************************)
THEOREM NegotiationsStartClean == Spec => []PendingIsClean
<1>1. Consistent => PendingIsClean
  BY DEF Consistent, PendingIsClean, Deal!Sound
<1> QED BY <1>1, StaysConsistent, PTL

-----------------------------------------------------------------------------
\* No step of a negotiation changes terms that are agreed.
LEMMA AgreedRowFrozen ==
    ASSUME NEW k \in Keys, RowStep(k), matches[k].status \in Agreed
    PROVE  matches'[k].legs = matches[k].legs
BY DEF Agreed, RowStep, Deal!Next, Deal!Start, Deal!Agree, Deal!Decline, Deal!Withdraw,
       Deal!Propose, Deal!Complete, Deal!Apply, Deal!Ended

\* No step of a negotiation takes back a completion or a flag.
LEMMA CompletedRowFinal ==
    ASSUME NEW k \in Keys, RowStep(k), matches[k].status = "COMPLETED"
    PROVE  /\ matches'[k].status = "COMPLETED"
           /\ matches[k].completed \subseteq matches'[k].completed
           /\ matches[k].applied \subseteq matches'[k].applied
BY DEF RowStep, Deal!Next, Deal!Start, Deal!Agree, Deal!Decline, Deal!Withdraw,
       Deal!Propose, Deal!Complete, Deal!Apply, Deal!Ended, Deal!Open

\* A step on a match row is a step of its negotiation or a stutter.
LEMMA RowStepRefines ==
    ASSUME NEW k \in Keys, RowStep(k)
    PROVE  [Deal(k)!Next]_(Deal(k)!vars)
BY DEF RowStep, Deal!vars

\* The only step that makes an OFFERED match ACCEPTED is the commit of an
\* acceptance of that match.
LEMMA OnlyAcceptAccepts ==
    ASSUME Consistent, [Next]_vars, NEW k \in Keys,
           matches[k].status = "OFFERED", matches'[k].status = "ACCEPTED"
    PROVE  \E s \in Sessions : tx[s].op = "accept" /\ tx[s].key = k
<1> SUFFICES ASSUME \A s \in Sessions : ~(tx[s].op = "accept" /\ tx[s].key = k)
             PROVE  FALSE
  OBVIOUS
<1>1. matches \in [Keys -> MatchRow]
  BY DEF Consistent, TypeOK
<1>2. matches'[k] # matches[k]
  OBVIOUS
<1>3. ASSUME NEW s \in Sessions, OfferCommit(s)
      PROVE  FALSE
  BY <1>1, <1>2, <1>3 DEF OfferCommit, MatchRow
<1>4. ASSUME NEW s \in Sessions, AcceptCommit(s)
      PROVE  FALSE
  BY <1>1, <1>2, <1>4 DEF AcceptCommit
<1>5. ASSUME NEW s \in Sessions, NEW j \in Keys, NEW u, Reject(s, j, u)
      PROVE  FALSE
  BY <1>1, <1>2, <1>5 DEF Reject, MatchRow
<1>6. ASSUME NEW s \in Sessions, NEW j \in Keys, NEW u, Complete(s, j, u)
      PROVE  FALSE
  BY <1>1, <1>2, <1>6 DEF Complete, MatchRow
<1>7. ASSUME NEW ks, NEW reason
      PROVE  SystemCancelMatches(ks, reason)[k].status \in {"OFFERED", "CANCELLED"}
  BY <1>1 DEF SystemCancelMatches, MatchRow
<1>8. ASSUME NEW s \in Sessions, EditCommit(s) \/ DeleteCommit(s)
      PROVE  FALSE
  BY <1>7, <1>8 DEF EditCommit, DeleteCommit
<1>9. ASSUME NEW s \in Sessions, ApplyCommit(s)
      PROVE  FALSE
  <2>1. tx[s] \in ApplyTx
    BY <1>9, TransactionByOp DEF ApplyCommit, Consistent, TypeOK
  <2>2. PICK ks \in SUBSET Keys : ks = tx[s].cancels
    BY <2>1 DEF ApplyTx
  <2>3. matches' = [SystemCancelMatches(ks, "INVENTORY_CAPACITY")
                      EXCEPT ![tx[s].key].applied = @ \cup {tx[s].user}]
    BY <1>9, <2>2 DEF ApplyCommit
  <2>4. SystemCancelMatches(ks, "INVENTORY_CAPACITY") \in [Keys -> MatchRow]
    BY CancelType DEF Consistent, CancelReasons
  <2>5. matches'[k].status = SystemCancelMatches(ks, "INVENTORY_CAPACITY")[k].status
    BY <2>3, <2>4 DEF MatchRow
  <2> QED BY <1>7, <2>5
<1>10. CASE EnsureMatch
  BY <1>1, <1>2, <1>10 DEF EnsureMatch, Ensured, Terminal
<1>11. CASE matches' = matches
  BY <1>2, <1>11
<1>12. ASSUME NEW s \in Sessions, SessionBegins(s) \/ Rollback(s)
       PROVE  FALSE
  BY <1>5, <1>6, <1>11, <1>12
     DEF SessionBegins, tables, OfferBegin, AcceptBegin, ApplyGate, EditBegin, DeleteBegin,
         MoveMerch, Rollback
<1>13. ASSUME NEW s \in Sessions, SessionProceeds(s)
       PROVE  FALSE
  BY <1>3, <1>4, <1>8, <1>9, <1>11, <1>13 DEF SessionProceeds, ApplyWrite, tables
<1>14. CASE MatcherStep \/ PassFails
  BY <1>10, <1>11, <1>14
     DEF MatcherStep, StartPass, ListPartners, ListTrades, CheckTrade, PassFails, tables
<1> QED
  BY <1>11, <1>12, <1>13, <1>14 DEF Next, ReliableNext, SetBanned, vars

\* A step on an OFFERED match that keeps it OFFERED is a counter-offer of the
\* other side; one that makes it ACCEPTED is the other side's acceptance of
\* the legs as they are.
LEMMA AnswerIsCounterpartys ==
    ASSUME Consistent, [Next]_vars, NEW k \in Keys, matches[k].status = "OFFERED"
    PROVE  /\ matches'[k].status = "OFFERED" /\ matches'[k] # matches[k] =>
                matches'[k].offeredBy \in Participants(k) \ {matches[k].offeredBy}
           /\ matches'[k].status = "ACCEPTED" =>
                /\ matches'[k].legs = matches[k].legs
                /\ \E s \in Sessions : /\ tx[s].op = "accept"
                                       /\ tx[s].key = k
                                       /\ tx[s].user # matches[k].offeredBy
<1>1. RowStep(k)
  BY NextStep DEF RowSteps
<1>2. ASSUME matches'[k].status = "OFFERED", matches'[k] # matches[k]
      PROVE  matches'[k].offeredBy \in Participants(k) \ {matches[k].offeredBy}
  BY <1>1, <1>2 DEF RowStep, Deal!Next, Deal!Start, Deal!Agree, Deal!Decline, Deal!Withdraw,
       Deal!Propose, Deal!Complete, Deal!Apply, Deal!Ended
<1>3. ASSUME matches'[k].status = "ACCEPTED"
      PROVE  matches'[k].legs = matches[k].legs
  BY <1>1, <1>3 DEF RowStep, Deal!Next, Deal!Start, Deal!Agree, Deal!Decline, Deal!Withdraw,
       Deal!Propose, Deal!Complete, Deal!Apply
<1>4. ASSUME matches'[k].status = "ACCEPTED"
      PROVE  \E s \in Sessions : /\ tx[s].op = "accept" /\ tx[s].key = k
                                /\ tx[s].user # matches[k].offeredBy
  <2>1. PICK s \in Sessions : tx[s].op = "accept" /\ tx[s].key = k
    BY <1>4, OnlyAcceptAccepts
  <2>2. CheckHolds(s)
    BY DEF Consistent, ChecksStillHold
  <2> QED BY <2>1, <2>2 DEF CheckHolds
<1> QED BY <1>2, <1>3, <1>4

(***************************************************************************)
(* The lifecycle implements the abstract negotiation for every match at    *)
(* once: the property the runs check.                                      *)
(***************************************************************************)
THEOREM MatchesNegotiate == Spec => EveryMatchNegotiates
<1>1. Init => \A k \in Keys : Deal(k)!Init
  BY DEF Init, NoMatch, Deal!Init
<1>2. Consistent /\ [Next]_vars => [\A k \in Keys : [Deal(k)!Next]_(Deal(k)!vars)]_vars
  BY NextStep, RowStepRefines DEF RowSteps
<1> QED BY <1>1, <1>2, StaysConsistent, PTL DEF Spec, EveryMatchNegotiates

(***************************************************************************)
(* The refinement in its usual form: the behaviour of each single match    *)
(* satisfies the specification of one negotiation.                         *)
(***************************************************************************)
THEOREM EachMatchIsANegotiation ==
    ASSUME NEW k \in Keys
    PROVE  Spec => Deal(k)!Spec
<1>1. Init => Deal(k)!Init
  BY DEF Init, NoMatch, Deal!Init
<1>2. Consistent /\ [Next]_vars => [Deal(k)!Next]_(Deal(k)!vars)
  BY NextStep, RowStepRefines DEF RowSteps
<1> QED BY <1>1, <1>2, StaysConsistent, PTL DEF Spec, Deal!Spec

(***************************************************************************)
(* What two users agreed on never changes again (offer, change_status,     *)
(* system_cancel_matches, reopen_terminal).                                *)
(***************************************************************************)
THEOREM AgreementsAreFrozen == Spec => AgreedTermsFrozen
<1>1. Consistent /\ [Next]_vars =>
        [\A k \in Keys :
            matches[k].status \in Agreed => matches'[k].legs = matches[k].legs]_vars
  BY NextStep, AgreedRowFrozen DEF RowSteps
<1> QED BY <1>1, StaysConsistent, PTL DEF Spec, AgreedTermsFrozen

(***************************************************************************)
(* A completion is never taken back (ADR 0018; the status test of          *)
(* system_cancel_matches).                                                 *)
(***************************************************************************)
THEOREM CompletionsAreFinal == Spec => CompletedIsFinal
<1>1. Consistent /\ [Next]_vars =>
        [\A k \in Keys : matches[k].status = "COMPLETED" =>
            /\ matches'[k].status = "COMPLETED"
            /\ matches[k].completed \subseteq matches'[k].completed
            /\ matches[k].applied \subseteq matches'[k].applied]_vars
  BY NextStep, CompletedRowFinal DEF RowSteps
<1> QED BY <1>1, StaysConsistent, PTL DEF Spec, CompletedIsFinal

(***************************************************************************)
(* A proposal is answered by the other side only                           *)
(* (validate_propose_transition, change_status).                           *)
(***************************************************************************)
THEOREM AnswersAreCounterpartys == Spec => OnlyCounterpartyAnswers
<1>1. Consistent /\ [Next]_vars =>
        [\A k \in Keys : matches[k].status = "OFFERED" =>
            /\ matches'[k].status = "OFFERED" /\ matches'[k] # matches[k] =>
                 matches'[k].offeredBy \in Participants(k) \ {matches[k].offeredBy}
            /\ matches'[k].status = "ACCEPTED" =>
                 /\ matches'[k].legs = matches[k].legs
                 /\ \E s \in Sessions : /\ tx[s].op = "accept"
                                        /\ tx[s].key = k
                                        /\ tx[s].user # matches[k].offeredBy]_vars
  BY AnswerIsCounterpartys
<1> QED BY <1>1, StaysConsistent, PTL DEF Spec, OnlyCounterpartyAnswers

=============================================================================
