-------------------------- MODULE TradeHistoryProofs --------------------------
(***************************************************************************)
(* What the records of the lifecycle say of its past: the SYSTEM messages  *)
(* in the chat of a match, and the inventory that applied trades left.     *)
(***************************************************************************)
EXTENDS TradeLifecycleProofs, Sums

\* A system cancel of match k writes its message.
CancelTold(k) ==
    /\ matches[k].status \in Active
    /\ matches'[k].status = "CANCELLED"
    /\ \E why \in CancelReasons : matches'[k].notices = Append(matches[k].notices, why)

\* A rematch of k writes a message that says how the match had ended.
RematchTold(k) ==
    /\ matches[k].status \in Terminal
    /\ matches'[k].status = "PENDING"
    /\ matches'[k].notices =
         Append(matches[k].notices, IF matches[k].status = "REJECTED"
                                    THEN "REMATCH_AFTER_REJECTED"
                                    ELSE "REMATCH_AFTER_CANCELLED")

\* Any other step on k writes no message, cancels nothing and reopens nothing.
NothingToTell(k) ==
    /\ matches'[k].notices = matches[k].notices
    /\ matches'[k].status = "CANCELLED" <=> matches[k].status = "CANCELLED"

\* What a step does to the status of a match and to its messages.
Told(k) == CancelTold(k) \/ RematchTold(k) \/ NothingToTell(k)

\* What the messages of one match tell, and what follows from it being the
\* first time: a match that was never created has none.
Story(k) ==
    LET n == matches[k].notices
    IN  /\ matches[k].status = "CANCELLED" <=>
             n # <<>> /\ n[Len(n)] \in CancelReasons
        /\ \A i \in DOMAIN n : n[i] \in CancelReasons /\ i < Len(n) =>
             n[i + 1] = "REMATCH_AFTER_CANCELLED"
        /\ \A i \in DOMAIN n : n[i] = "REMATCH_AFTER_CANCELLED" =>
             i > 1 /\ n[i - 1] \in CancelReasons
        /\ matches[k].status = "NONE" => n = <<>>

\* A step that tells what it does to the match keeps the story true.
LEMMA ToldKeepsStory ==
    ASSUME NEW k \in Keys, Story(k), Told(k),
           matches[k].notices \in Seq(CancelReasons \cup RematchReasons),
           matches'[k].status = "NONE" => matches'[k] = matches[k]
    PROVE  Story(k)'
<1> DEFINE n == matches[k].notices
<1>0. /\ n \in Seq(CancelReasons \cup RematchReasons)
      /\ Len(n) \in Nat /\ DOMAIN n = 1..Len(n)
  OBVIOUS
<1>1. \A why : why \in CancelReasons => why \notin RematchReasons
  BY DEF CancelReasons, RematchReasons
<1>2. ASSUME NEW why \in CancelReasons \cup RematchReasons, NEW m, m = Append(n, why)
      PROVE  /\ m # <<>> /\ Len(m) = Len(n) + 1 /\ DOMAIN m = 1..(Len(n) + 1)
             /\ m[Len(m)] = why
             /\ \A i \in 1..Len(n) : m[i] = n[i]
  BY <1>0, <1>2
<1>3. CASE CancelTold(k)
  <2>1. PICK why \in CancelReasons : matches'[k].notices = Append(n, why)
    BY <1>3 DEF CancelTold
  <2> DEFINE m == matches'[k].notices
  <2>2. /\ m # <<>> /\ Len(m) = Len(n) + 1 /\ DOMAIN m = 1..(Len(n) + 1)
        /\ m[Len(m)] = why
        /\ \A i \in 1..Len(n) : m[i] = n[i]
    BY <1>2, <2>1
  <2>3. matches[k].status # "CANCELLED"
    BY <1>3 DEF CancelTold, Active
  <2>4. \A i \in 1..Len(n) : n[i] \in CancelReasons => i < Len(n)
    BY <1>0, <2>3 DEF Story
  <2>5. ASSUME NEW i \in DOMAIN m, m[i] \in CancelReasons, i < Len(m)
        PROVE  m[i + 1] = "REMATCH_AFTER_CANCELLED"
    <3>1. i \in 1..Len(n) /\ m[i] = n[i]
      BY <1>0, <2>2, <2>5
    <3>2. i < Len(n) /\ i + 1 \in 1..Len(n)
      BY <1>0, <2>4, <2>5, <3>1
    <3> QED BY <1>0, <2>2, <2>5, <3>1, <3>2 DEF Story
  <2>6. ASSUME NEW i \in DOMAIN m, m[i] = "REMATCH_AFTER_CANCELLED"
        PROVE  i > 1 /\ m[i - 1] \in CancelReasons
    <3>1. i # Len(m)
      BY <2>2, <2>6 DEF CancelReasons
    <3>2. i \in 1..Len(n) /\ m[i] = n[i]
      BY <1>0, <2>2, <3>1
    <3>3. i > 1 /\ n[i - 1] \in CancelReasons
      BY <1>0, <2>6, <3>2 DEF Story
    <3>4. i - 1 \in 1..Len(n)
      BY <1>0, <3>2, <3>3
    <3> QED BY <2>2, <3>3, <3>4
  <2> QED BY <1>3, <2>1, <2>2, <2>5, <2>6 DEF Story, CancelTold
<1>4. CASE RematchTold(k)
  <2> DEFINE why == IF matches[k].status = "REJECTED" THEN "REMATCH_AFTER_REJECTED"
                    ELSE "REMATCH_AFTER_CANCELLED"
             m == matches'[k].notices
  <2>1. m = Append(n, why) /\ why \in RematchReasons
    BY <1>4 DEF RematchTold, RematchReasons
  <2>2. /\ m # <<>> /\ Len(m) = Len(n) + 1 /\ DOMAIN m = 1..(Len(n) + 1)
        /\ m[Len(m)] = why
        /\ \A i \in 1..Len(n) : m[i] = n[i]
    BY <1>2, <2>1
  <2>3. why = "REMATCH_AFTER_CANCELLED" <=> matches[k].status = "CANCELLED"
    BY <1>4 DEF RematchTold, Terminal
  <2> HIDE DEF why
  <2>4. n # <<>> /\ n[Len(n)] \in CancelReasons => why = "REMATCH_AFTER_CANCELLED"
    BY <2>3 DEF Story
  <2>5. ASSUME NEW i \in DOMAIN m, m[i] \in CancelReasons, i < Len(m)
        PROVE  m[i + 1] = "REMATCH_AFTER_CANCELLED"
    <3>1. i \in 1..Len(n) /\ m[i] = n[i]
      BY <1>0, <2>2, <2>5
    <3>2. CASE i < Len(n)
      <4>1. i + 1 \in 1..Len(n) /\ m[i + 1] = n[i + 1]
        BY <1>0, <2>2, <3>1, <3>2
      <4> QED BY <1>0, <2>5, <3>1, <3>2, <4>1 DEF Story
    <3>3. CASE i = Len(n)
      <4>1. n # <<>> /\ n[Len(n)] \in CancelReasons
        BY <1>0, <2>5, <3>1, <3>3
      <4>2. i + 1 = Len(m)
        BY <1>0, <2>2, <3>3
      <4> QED BY <2>2, <2>4, <4>1, <4>2
    <3> QED BY <1>0, <3>1, <3>2, <3>3
  <2>6. ASSUME NEW i \in DOMAIN m, m[i] = "REMATCH_AFTER_CANCELLED"
        PROVE  i > 1 /\ m[i - 1] \in CancelReasons
    <3>1. CASE i \in 1..Len(n)
      <4>1. n[i] = "REMATCH_AFTER_CANCELLED"
        BY <2>2, <2>6, <3>1
      <4>2. i > 1 /\ n[i - 1] \in CancelReasons
        BY <1>0, <3>1, <4>1 DEF Story
      <4>3. i - 1 \in 1..Len(n)
        BY <1>0, <3>1, <4>2
      <4> QED BY <2>2, <4>2, <4>3
    <3>2. CASE i = Len(m)
      <4>1. n # <<>> /\ n[Len(n)] \in CancelReasons
        BY <2>2, <2>3, <2>6, <3>2 DEF Story
      <4>2. Len(n) > 0 /\ i - 1 = Len(n) /\ Len(n) \in 1..Len(n)
        BY <1>0, <2>2, <3>2, <4>1
      <4> QED BY <1>0, <2>2, <3>2, <4>1, <4>2
    <3> QED BY <1>0, <2>2, <3>1, <3>2
  <2>7. matches'[k].status # "CANCELLED" /\ matches'[k].status # "NONE"
    BY <1>4 DEF RematchTold
  <2> QED BY <1>1, <2>1, <2>2, <2>5, <2>6, <2>7 DEF Story
<1>5. CASE NothingToTell(k)
  BY <1>5 DEF Story, NothingToTell
<1> QED BY <1>3, <1>4, <1>5 DEF Told

\* A negotiation step never empties a row.
LEMMA NeverUncreated ==
    ASSUME NEW k \in Keys, RowStep(k), matches'[k].status = "NONE"
    PROVE  matches'[k] = matches[k]
BY DEF RowStep, Deal!Next, Deal!Start, Deal!Agree, Deal!Decline, Deal!Withdraw,
       Deal!Propose, Deal!Complete, Deal!Apply

\* system_cancel_matches tells every cancel it makes.
LEMMA CancelTells ==
    ASSUME TypeOK, NEW ks, NEW why \in CancelReasons, NEW k \in Keys,
           matches'[k] = SystemCancelMatches(ks, why)[k]
    PROVE  Told(k)
<1>1. matches[k] \in MatchRow
  BY DEF TypeOK
<1>2. CASE k \in ks /\ matches[k].status \in Active
  <2>1. matches'[k] = [matches[k] EXCEPT !.status = "CANCELLED",
                                         !.notices = Append(@, why)]
    BY <1>2 DEF SystemCancelMatches
  <2> QED BY <1>1, <1>2, <2>1 DEF Told, CancelTold, MatchRow
<1>3. CASE ~(k \in ks /\ matches[k].status \in Active)
  BY <1>3 DEF SystemCancelMatches, Told, NothingToTell
<1> QED BY <1>2, <1>3

\* reopen_terminal tells every rematch, and insert_pending is the first
\* entry of its match.
LEMMA EnsureTells ==
    ASSUME TypeOK, NEW k \in Keys, Story(k), matches'[k] = Ensured(matches[k])
    PROVE  Told(k)
<1>1. matches[k] \in MatchRow
  BY DEF TypeOK
<1>2. CASE matches[k].status = "NONE"
  <2>1. matches'[k] = [NoMatch EXCEPT !.status = "PENDING"]
    BY <1>2 DEF Ensured
  <2> QED BY <1>2, <2>1 DEF Story, NoMatch, Told, NothingToTell
<1>3. CASE matches[k].status \in Terminal /\ RematchCount(matches[k]) < MaxRematch
  <2> DEFINE why == IF matches[k].status = "REJECTED" THEN "REMATCH_AFTER_REJECTED"
                    ELSE "REMATCH_AFTER_CANCELLED"
  <2>1. matches'[k] =
          [matches[k] EXCEPT !.status = "PENDING", !.offeredBy = NoUser, !.legs = NoLegs,
                             !.notices = Append(@, why)]
    BY <1>3 DEF Ensured, Terminal
  <2>2. matches'[k].status = "PENDING" /\ matches'[k].notices = Append(matches[k].notices, why)
    BY <1>1, <2>1 DEF MatchRow
  <2> QED BY <1>3, <2>2 DEF Told, RematchTold
<1>4. CASE matches'[k] = matches[k]
  BY <1>4 DEF Told, NothingToTell
<1> QED BY <1>2, <1>3, <1>4 DEF Ensured

\* A step that leaves the row alone has nothing to tell.
LEMMA StutterTells ==
    ASSUME NEW k \in Keys, matches'[k] = matches[k]
    PROVE  Told(k)
BY DEF Told, NothingToTell

\* The writes of offer, accept, reject and complete cancel nothing: no
\* message, and the match they hold is no CANCELLED one.
LEMMA RequestTells ==
    ASSUME Consistent, NEW s \in Sessions, NEW k \in Keys,
           \/ OfferCommit(s)
           \/ AcceptCommit(s)
           \/ \E j \in Keys : \E u \in Users : Reject(s, j, u) \/ Complete(s, j, u)
    PROVE  Told(k)
<1>1. matches \in [Keys -> MatchRow] /\ CheckHolds(s)
  BY DEF Consistent, TypeOK, ChecksStillHold
<1>2. matches[k] \in MatchRow
  BY <1>1
<1> SUFFICES ASSUME matches'[k] # matches[k]
             PROVE  NothingToTell(k)
  BY DEF Told, NothingToTell
<1>3. CASE OfferCommit(s)
  <2>1. k = tx[s].key
    BY <1>1, <1>3 DEF OfferCommit
  <2>2. matches'[k].notices = matches[k].notices /\ matches'[k].status = "OFFERED"
    BY <1>1, <1>2, <1>3, <2>1 DEF OfferCommit, MatchRow
  <2>3. matches[k].status # "CANCELLED"
    BY <1>1, <1>3, <2>1 DEF CheckHolds, OfferCommit, MayPropose
  <2> QED BY <2>2, <2>3 DEF NothingToTell
<1>4. CASE AcceptCommit(s)
  <2>1. k = tx[s].key
    BY <1>1, <1>4 DEF AcceptCommit
  <2>2. matches'[k].notices = matches[k].notices /\ matches'[k].status = "ACCEPTED"
    BY <1>1, <1>2, <1>4, <2>1 DEF AcceptCommit, MatchRow
  <2>3. matches[k].status # "CANCELLED"
    BY <1>1, <1>4, <2>1 DEF CheckHolds, AcceptCommit
  <2> QED BY <2>2, <2>3 DEF NothingToTell
<1>5. ASSUME NEW j \in Keys, NEW u \in Users, Reject(s, j, u)
      PROVE  NothingToTell(k)
  BY <1>1, <1>2, <1>5 DEF Reject, MatchRow, NothingToTell
<1>6. ASSUME NEW j \in Keys, NEW u \in Users, Complete(s, j, u)
      PROVE  NothingToTell(k)
  BY <1>1, <1>2, <1>6 DEF Complete, MatchRow, NothingToTell
<1> QED BY <1>3, <1>4, <1>5, <1>6

\* A cancelling commit tells what it does, also when it marks its own match
\* as applied.
LEMMA CommitTells ==
    ASSUME Consistent, NEW s \in Sessions, NEW k \in Keys,
           ApplyCommit(s) \/ EditCommit(s) \/ DeleteCommit(s)
    PROVE  Told(k)
<1>1. TypeOK
  BY DEF Consistent
<1>2. CASE EditCommit(s)
  BY <1>1, <1>2, CancelTells DEF EditCommit, CancelReasons
<1>3. CASE DeleteCommit(s)
  BY <1>1, <1>3, CancelTells DEF DeleteCommit, CancelReasons
<1>4. CASE ApplyCommit(s)
  <2>1. tx[s] \in ApplyTx
    BY <1>1, <1>4, TransactionByOp DEF ApplyCommit, TypeOK
  <2>2. PICK j \in Keys, ks \in SUBSET Keys : j = tx[s].key /\ ks = tx[s].cancels
    BY <2>1 DEF ApplyTx
  <2> DEFINE cancelled == SystemCancelMatches(ks, "INVENTORY_CAPACITY")
  <2>3. cancelled \in [Keys -> MatchRow]
    BY <1>1, CancelType DEF CancelReasons
  <2>4. matches' = [cancelled EXCEPT ![j].applied = @ \cup {tx[s].user}]
    BY <1>4, <2>2 DEF ApplyCommit
  <2>5. CASE k # j
    <3>1. matches'[k] = cancelled[k]
      BY <2>3, <2>4, <2>5
    <3> QED BY <1>1, <3>1, CancelTells DEF CancelReasons
  <2>6. CASE k = j
    <3>1. matches[k].status = "COMPLETED"
      BY <1>4, <2>2, <2>6 DEF Consistent, ChecksStillHold, CheckHolds, ApplyCommit
    <3>2. cancelled[k] = matches[k]
      BY <3>1 DEF SystemCancelMatches, Active
    <3> HIDE DEF cancelled
    <3>3. matches'[k].notices = matches[k].notices /\ matches'[k].status = matches[k].status
      BY <2>3, <2>4, <2>6, <3>2 DEF MatchRow
    <3> QED BY <3>3 DEF Told, NothingToTell
  <2> QED BY <2>5, <2>6
<1> QED BY <1>2, <1>3, <1>4

\* Every step of the system tells what it does to a match.
LEMMA NextTells ==
    ASSUME Consistent, [Next]_vars, NEW k \in Keys, Story(k)
    PROVE  Told(k)
<1>1. CASE matches' = matches
  BY <1>1, StutterTells
<1>2. ASSUME NEW s \in Sessions, SessionBegins(s) \/ Rollback(s)
      PROVE  Told(k)
  <2>1. CASE \E j \in Keys : \E u \in Users : Reject(s, j, u) \/ Complete(s, j, u)
    BY <2>1, RequestTells
  <2>2. CASE matches' = matches
    BY <2>2, <1>1
  <2> QED
    BY <1>2, <2>1, <2>2
       DEF SessionBegins, tables, OfferBegin, AcceptBegin, ApplyGate, EditBegin, DeleteBegin,
           MoveMerch, Rollback
<1>3. ASSUME NEW s \in Sessions, SessionProceeds(s)
      PROVE  Told(k)
  BY <1>1, <1>3, RequestTells, CommitTells DEF SessionProceeds, ApplyWrite, tables
<1>4. CASE EnsureMatch
  <2>1. PICK j : matches' = [matches EXCEPT ![j] = Ensured(matches[j])]
    BY <1>4 DEF EnsureMatch
  <2>2. matches'[k] = matches[k] \/ matches'[k] = Ensured(matches[k])
    BY <2>1 DEF Consistent, TypeOK
  <2> QED BY <2>2, StutterTells, EnsureTells DEF Consistent
<1>5. CASE MatcherStep \/ PassFails
  BY <1>1, <1>4, <1>5
     DEF MatcherStep, StartPass, ListPartners, ListTrades, CheckTrade, PassFails, tables
<1> QED BY <1>1, <1>2, <1>3, <1>5 DEF Next, ReliableNext, SetBanned, vars

(***************************************************************************)
(* The chat tells each cancel once, whoever condemned the match and how    *)
(* often at the same time, and each rematch of it once                     *)
(* (system_cancel_matches, reopen_terminal).                               *)
(***************************************************************************)
THEOREM ChatTellsTheStory == Spec => []NoticesTellTheStory
<1> DEFINE Stories == \A k \in Keys : Story(k)
<1>1. Init => Stories
  BY DEF Init, NoMatch, Story
<1>2. Consistent /\ [Next]_vars /\ Stories => Stories'
  <2> SUFFICES ASSUME Consistent, [Next]_vars, Stories, NEW k \in Keys
               PROVE  Story(k)'
    OBVIOUS
  <2>1. Told(k) /\ RowStep(k)
    BY NextTells, NextStep DEF RowSteps
  <2>2. matches[k].notices \in Seq(CancelReasons \cup RematchReasons)
    BY DEF Consistent, TypeOK, MatchRow
  <2> QED BY <2>1, <2>2, NeverUncreated, ToldKeepsStory
<1>3. Stories => NoticesTellTheStory
  BY DEF Story, NoticesTellTheStory
<1> HIDE DEF Stories
<1> QED BY <1>1, <1>2, <1>3, StaysConsistent, PTL DEF Spec

-----------------------------------------------------------------------------
\* A user who neither edits HAVE of a merch nor ever puts it up for trade:
\* the premise of ReceivedOnce.
OnlyReceives(u, m) ==
    /\ {<<u, m, "HAVE">>, <<u, m, "TRADE">>} \cap EditRows = {}
    /\ \A stock \in Stocks : stock[<<u, m, "TRADE">>] = 0

\* What match k has brought to u of merch m.
Brought(k, u, m) ==
    IF u \in matches[k].applied THEN matches[k].legs[<<OtherParticipant(k, u), m>>] ELSE 0

\* The books of u for m balance: nothing to give, and HAVE is what u had
\* entered and what the applied matches brought.
BooksBalance(u, m) ==
    /\ inv[<<u, m, "TRADE">>] = 0
    /\ \E stock \in Stocks :
         inv[<<u, m, "HAVE">>] =
             stock[<<u, m, "HAVE">>] + SumFunction([k \in Keys |-> Brought(k, u, m)])

\* A transaction edits rows that users edit, and one that is past the gate
\* gives nothing that its user does not put up for trade.
NothingOwed(u, m) ==
    \A s \in Sessions :
        /\ tx[s].op = "edit" => tx[s].row \in EditRows
        /\ tx[s].op \in {"gate", "apply"} /\ tx[s].user = u =>
             matches[tx[s].key].legs[<<u, m>>] = 0

\* There are finitely many matches.
LEMMA FinitelyManyKeys == IsFiniteSet(Keys)
<1>1. IsFiniteSet(SUBSET Users)
  BY TablesAssumption, FS_SUBSET
<1>2. IsFiniteSet(Pairs)
  BY <1>1, FS_Subset DEF Pairs
<1> QED BY <1>2, TablesAssumption, FS_Product DEF Keys

\* Only the commit of apply_inventory marks a match as applied.
LEMMA OnlyApplyMarks ==
    ASSUME Consistent, [Next]_vars, NEW k \in Keys,
           \A s \in Sessions : ~ApplyCommit(s)
    PROVE  matches'[k].applied = matches[k].applied
<1>1. matches \in [Keys -> MatchRow]
  BY DEF Consistent, TypeOK
<1>2. matches[k] \in MatchRow
  BY <1>1
<1>3. CASE matches' = matches
  BY <1>3
<1>4. ASSUME NEW s \in Sessions, SessionBegins(s) \/ Rollback(s)
      PROVE  matches'[k].applied = matches[k].applied
  <2>1. ASSUME NEW j \in Keys, NEW u \in Users, Reject(s, j, u)
        PROVE  matches'[k].applied = matches[k].applied
    BY <1>1, <1>2, <2>1 DEF Reject, MatchRow
  <2>2. ASSUME NEW j \in Keys, NEW u \in Users, Complete(s, j, u)
        PROVE  matches'[k].applied = matches[k].applied
    <3>1. matches'[k] = matches[k] \/ matches'[k] = [matches[k] EXCEPT
              !.status = "COMPLETED", !.completed = @ \cup {u}]
      BY <1>1, <2>2 DEF Complete
    <3> QED BY <1>2, <3>1 DEF MatchRow
  <2> QED
    BY <1>3, <1>4, <2>1, <2>2
       DEF SessionBegins, tables, OfferBegin, AcceptBegin, ApplyGate, EditBegin, DeleteBegin,
           MoveMerch, Rollback
<1>5. ASSUME NEW s \in Sessions, SessionProceeds(s)
      PROVE  matches'[k].applied = matches[k].applied
  <2>1. ASSUME NEW ks, NEW why, matches' = SystemCancelMatches(ks, why)
        PROVE  matches'[k].applied = matches[k].applied
    BY <1>1, <1>2, <2>1 DEF SystemCancelMatches, MatchRow
  <2>2. CASE OfferCommit(s)
    BY <1>1, <1>2, <2>2 DEF OfferCommit, MatchRow
  <2>3. CASE AcceptCommit(s)
    BY <1>1, <1>2, <2>3 DEF AcceptCommit, MatchRow
  <2> QED
    BY <1>3, <1>5, <2>1, <2>2, <2>3
       DEF SessionProceeds, ApplyWrite, EditCommit, DeleteCommit, tables
<1>6. CASE EnsureMatch
  <2>1. PICK j : matches' = [matches EXCEPT ![j] = Ensured(matches[j])]
    BY <1>6 DEF EnsureMatch
  <2>2. matches'[k] = matches[k] \/ matches'[k] = Ensured(matches[k])
    BY <1>1, <2>1
  <2>3. Ensured(matches[k]).applied = matches[k].applied
    <3>1. matches[k].status = "NONE" => matches[k].applied = {}
      BY DEF Consistent, Deal!Sound
    <3> QED BY <1>2, <3>1 DEF Ensured, NoMatch, MatchRow, Terminal
  <2> QED BY <2>2, <2>3
<1>7. CASE MatcherStep \/ PassFails
  BY <1>3, <1>6, <1>7
     DEF MatcherStep, StartPass, ListPartners, ListTrades, CheckTrade, PassFails, tables
<1> QED BY <1>3, <1>4, <1>5, <1>7 DEF Next, ReliableNext, SetBanned, vars

\* Inventory is written by the commit of an apply and by the commit of an
\* edit, and by nothing else.
LEMMA OnlyCommitsWriteInventory ==
    ASSUME [Next]_vars
    PROVE  \/ inv' = inv
           \/ \E s \in Sessions : ApplyCommit(s)
           \/ \E s \in Sessions : EditCommit(s) /\ inv' = [inv EXCEPT ![tx[s].row] = tx[s].qty]
<1>1. ASSUME NEW s \in Sessions, SessionBegins(s) \/ Rollback(s)
      PROVE  inv' = inv
  BY <1>1 DEF SessionBegins, tables, OfferBegin, AcceptBegin, Reject, Complete, ApplyGate,
              EditBegin, DeleteBegin, MoveMerch, Rollback
<1>2. ASSUME NEW s \in Sessions, SessionProceeds(s)
      PROVE  \/ inv' = inv
             \/ ApplyCommit(s)
             \/ EditCommit(s) /\ inv' = [inv EXCEPT ![tx[s].row] = tx[s].qty]
  BY <1>2 DEF SessionProceeds, tables, OfferCommit, AcceptCommit, ApplyWrite, EditCommit,
              DeleteCommit
<1>3. MatcherStep \/ PassFails => inv' = inv
  BY DEF MatcherStep, tables, StartPass, ListPartners, ListTrades, CheckTrade, EnsureMatch,
         PassFails
<1> QED BY <1>1, <1>2, <1>3 DEF Next, ReliableNext, SetBanned, vars

\* A commit of apply_inventory marks its match for its user and no other
\* match or user, and what is marked was agreed.
LEMMA ApplyMarks ==
    ASSUME Consistent, NEW s \in Sessions, ApplyCommit(s)
    PROVE  /\ tx[s] \in ApplyTx
           /\ tx[s].user \in Participants(tx[s].key)
           /\ tx[s].user \notin matches[tx[s].key].applied
           /\ matches[tx[s].key].status = "COMPLETED"
           /\ \A k \in Keys :
                matches'[k].applied =
                    IF k = tx[s].key THEN matches[k].applied \cup {tx[s].user}
                    ELSE matches[k].applied
<1>1. TypeOK
  BY DEF Consistent
<1>2. tx[s] \in ApplyTx /\ tx[s].op = "apply"
  BY <1>1, TransactionByOp DEF ApplyCommit, TypeOK
<1>3. PICK j \in Keys, u \in Users, ks \in SUBSET Keys :
          j = tx[s].key /\ u = tx[s].user /\ ks = tx[s].cancels
  BY <1>2 DEF ApplyTx
<1>4. /\ u \in Participants(j) /\ u \notin matches[j].applied
      /\ matches[j].status = "COMPLETED"
  BY <1>2, <1>3 DEF Consistent, ChecksStillHold, CheckHolds
<1> DEFINE cancelled == SystemCancelMatches(ks, "INVENTORY_CAPACITY")
<1>5. cancelled \in [Keys -> MatchRow]
  BY <1>1, CancelType DEF CancelReasons
<1>6. matches' = [cancelled EXCEPT ![j].applied = @ \cup {u}]
  BY <1>3 DEF ApplyCommit
<1>7. \A k \in Keys : cancelled[k].applied = matches[k].applied
  BY <1>1 DEF SystemCancelMatches, TypeOK, MatchRow
<1> HIDE DEF cancelled
<1>8. \A k \in Keys :
          matches'[k].applied = IF k = j THEN matches[k].applied \cup {u}
                                ELSE matches[k].applied
  BY <1>5, <1>6, <1>7 DEF MatchRow
<1> QED BY <1>2, <1>3, <1>4, <1>8

\* What applied trades brought is a quantity, and it stays what it is as
\* long as the marks of the match stay.
LEMMA BroughtStays ==
    ASSUME Consistent, RowSteps, NEW k \in Keys, NEW u \in Users, NEW m \in Merch
    PROVE  /\ Brought(k, u, m) \in Int
           /\ (u \in matches'[k].applied <=> u \in matches[k].applied) =>
                Brought(k, u, m)' = Brought(k, u, m)
<1>1. matches[k] \in MatchRow /\ Deal(k)!Sound /\ RowStep(k)
  BY DEF Consistent, TypeOK, RowSteps
<1>2. CASE u \in matches[k].applied
  <2>1. u \in Participants(k) /\ matches[k].status = "COMPLETED"
    BY <1>1, <1>2 DEF Deal!Sound
  <2>2. OtherParticipant(k, u) \in Users
    BY <2>1, ParticipantsOfKey
  <2>3. matches[k].legs[<<OtherParticipant(k, u), m>>] \in Int
    BY <1>1, <2>2, QtyAssumption DEF MatchRow, Legs
  <2>4. matches'[k].legs = matches[k].legs
    BY <1>1, <2>1, AgreedRowFrozen DEF Agreed
  <2> QED BY <1>2, <2>3, <2>4 DEF Brought
<1>3. CASE u \notin matches[k].applied
  BY <1>3 DEF Brought
<1> QED BY <1>2, <1>3

\* The sum of the books changes only where a mark changes.
LEMMA BooksFollowMarks ==
    ASSUME Consistent, RowSteps, NEW u \in Users, NEW m \in Merch
    PROVE  /\ (\A k \in Keys : u \in matches'[k].applied <=> u \in matches[k].applied) =>
                SumFunction([k \in Keys |-> Brought(k, u, m)])' =
                    SumFunction([k \in Keys |-> Brought(k, u, m)])
           /\ \A j \in Keys :
                /\ u \in matches'[j].applied \ matches[j].applied
                /\ u \in Participants(j) /\ matches[j].status = "COMPLETED"
                /\ \A k \in Keys \ {j} :
                     u \in matches'[k].applied <=> u \in matches[k].applied
                => SumFunction([k \in Keys |-> Brought(k, u, m)])' =
                     SumFunction([k \in Keys |-> Brought(k, u, m)]) +
                         matches[j].legs[<<OtherParticipant(j, u), m>>]
<1> DEFINE f == [k \in Keys |-> Brought(k, u, m)]
           g == [k \in Keys |-> Brought(k, u, m)']
<1>1. SumFunction(f) = SumFunctionOnSet(f, Keys)
  BY DEF SumFunction
<1>2. SumFunction([k \in Keys |-> Brought(k, u, m)])' = SumFunctionOnSet(g, Keys)
  BY DEF SumFunction
<1>3. IsFiniteSet(Keys)
  BY FinitelyManyKeys
<1>4. ASSUME \A k \in Keys : u \in matches'[k].applied <=> u \in matches[k].applied
      PROVE  SumFunctionOnSet(g, Keys) = SumFunctionOnSet(f, Keys)
  <2>1. \A k \in Keys : f[k] \in Int /\ g[k] = f[k]
    BY <1>4, BroughtStays
  <2> HIDE DEF f, g
  <2>2. \A k \in Keys : g[k] \in Int /\ g[k] = f[k]
    BY <2>1
  <2> QED BY <1>3, <2>2, SumOfSame
<1>5. ASSUME NEW j \in Keys,
             u \in matches'[j].applied \ matches[j].applied,
             u \in Participants(j), matches[j].status = "COMPLETED",
             \A k \in Keys \ {j} : u \in matches'[k].applied <=> u \in matches[k].applied
      PROVE  SumFunctionOnSet(g, Keys) =
                 SumFunctionOnSet(f, Keys) + matches[j].legs[<<OtherParticipant(j, u), m>>]
  <2> DEFINE n == matches[j].legs[<<OtherParticipant(j, u), m>>]
  <2>1. matches'[j].legs = matches[j].legs
    <3>1. RowStep(j)
      BY DEF RowSteps
    <3> QED BY <1>5, <3>1, AgreedRowFrozen DEF Agreed
  <2>2. n \in Int
    <3>1. OtherParticipant(j, u) \in Users
      BY <1>5, ParticipantsOfKey
    <3> QED BY <3>1, QtyAssumption DEF Consistent, TypeOK, MatchRow, Legs
  <2>3. f[j] = 0 /\ g[j] = n
    BY <1>5, <2>1 DEF Brought
  <2>4. \A k \in Keys \ {j} : g[k] = f[k]
    BY <1>5, BroughtStays
  <2>5. \A k \in Keys : f[k] \in Int /\ g[k] \in Int
    <3>1. \A k \in Keys : f[k] \in Int
      BY BroughtStays
    <3> QED BY <2>2, <2>3, <2>4, <3>1
  <2>6. SumFunctionOnSet(f, Keys) \in Int
    <3> HIDE DEF f
    <3> QED BY <1>3, <2>5, SumIsInt
  <2> HIDE DEF f, g, n
  <2>7. SumFunctionOnSet(g, Keys) = SumFunctionOnSet(f, Keys) + (g[j] - f[j])
    BY <1>3, <2>4, <2>5, SumFollowsSummand
  <2>8. SumFunctionOnSet(g, Keys) = SumFunctionOnSet(f, Keys) + n
    BY <2>2, <2>3, <2>6, <2>7
  <2> QED BY <2>8 DEF n
<1> HIDE DEF f, g
<1> QED BY <1>1, <1>2, <1>4, <1>5 DEF f

\* A step of one session leaves the transactions of the others alone.
LEMMA OthersUntouched ==
    ASSUME tx \in [Sessions -> Transactions], NEW s \in Sessions,
           SessionBegins(s) \/ SessionProceeds(s) \/ Rollback(s)
    PROVE  \A t \in Sessions \ {s} : tx'[t] = tx[t]
BY DEF SessionBegins, SessionProceeds, Rollback, OfferBegin, AcceptBegin, Reject, Complete,
       ApplyGate, EditBegin, DeleteBegin, MoveMerch, OfferCommit, AcceptCommit, ApplyWrite,
       ApplyCommit, EditCommit, DeleteCommit, tables

\* What a transaction owes after a step: only a session's own begin gives it
\* new duties, and apply_inventory begins at the TRADE gate.
LEMMA NothingOwedStays ==
    ASSUME Consistent, RowSteps, [Next]_vars, NEW u \in Users, NEW m \in Merch,
           inv[<<u, m, "TRADE">>] = 0, NothingOwed(u, m)
    PROVE  NothingOwed(u, m)'
<1>1. tx \in [Sessions -> Transactions] /\ matches \in [Keys -> MatchRow]
  BY DEF Consistent, TypeOK
<1> DEFINE Owes(x) == x.op \in {"gate", "apply"} /\ x.user = u
           Fine(s) == /\ tx[s].op = "edit" => tx[s].row \in EditRows
                      /\ Owes(tx[s]) => matches[tx[s].key].legs[<<u, m>>] = 0
<1>2. ASSUME NEW s \in Sessions, tx'[s] = tx[s]
      PROVE  Fine(s)'
  <2>1. ASSUME Owes(tx[s])
        PROVE  matches'[tx[s].key].legs = matches[tx[s].key].legs
    <3>1. tx[s].key \in Keys
      BY <1>1, <2>1, TransactionByOp DEF GateTx, ApplyTx
    <3>2. matches[tx[s].key].status = "COMPLETED"
      BY <2>1 DEF Consistent, ChecksStillHold, CheckHolds
    <3> QED BY <3>1, <3>2, AgreedRowFrozen DEF RowSteps, Agreed
  <2> QED BY <1>2, <2>1 DEF NothingOwed
<1>3. ASSUME NEW s \in Sessions, SessionBegins(s) \/ SessionProceeds(s) \/ Rollback(s),
             tx'[s] # tx[s]
      PROVE  Fine(s)'
  <2>1. ASSUME tx'[s].op \in {"idle", "offer", "accept", "delete"}
        PROVE  Fine(s)'
    BY <2>1
  <2>2. ASSUME NEW k, NEW v, NEW items, OfferBegin(s, k, v, items)
        PROVE  tx'[s].op = "offer"
    BY <1>1, <2>2 DEF OfferBegin
  <2>3. ASSUME NEW k, NEW v, AcceptBegin(s, k, v)
        PROVE  tx'[s].op = "accept"
    BY <1>1, <2>3 DEF AcceptBegin
  <2>4. ASSUME NEW n, DeleteBegin(s, n)
        PROVE  tx'[s].op = "delete"
    BY <1>1, <2>4 DEF DeleteBegin
  <2>5. ASSUME NEW r \in EditRows, NEW q, EditBegin(s, r, q)
        PROVE  Fine(s)'
    BY <1>1, <2>5 DEF EditBegin
  <2>6. ASSUME NEW k \in Keys, NEW v \in Users, NEW skipHave, ApplyGate(s, k, v, skipHave)
        PROVE  Fine(s)'
    <3>1. /\ tx' = [tx EXCEPT ![s] = [op |-> "gate", user |-> v, key |-> k,
                                      skipHave |-> skipHave]]
          /\ matches' = matches /\ TradeCovers(inv, matches[k].legs, v)
      BY <2>6 DEF ApplyGate, tables
    <3>2. v = u => matches[k].legs[<<u, m>>] = 0
      <4>1. matches[k].legs[<<u, m>>] \in 0..MaxQty
        BY <1>1 DEF MatchRow, Legs
      <4> QED BY <3>1, <4>1, QtyAssumption DEF TradeCovers
    <3> QED BY <1>1, <3>1, <3>2
  <2>7. CASE ApplyWrite(s)
    <3>1. PICK ks : tx' = [tx EXCEPT ![s] =
              [op |-> "apply", user |-> tx[s].user, key |-> tx[s].key,
               skipHave |-> tx[s].skipHave, cancels |-> ks]]
      BY <2>7 DEF ApplyWrite
    <3>2. matches' = matches /\ tx[s].op = "gate"
      BY <2>7 DEF ApplyWrite, tables
    <3> QED BY <1>1, <3>1, <3>2 DEF NothingOwed
  <2>8. ASSUME \/ \E k, v : Reject(s, k, v) \/ Complete(s, k, v)
               \/ \E n, g : MoveMerch(s, n, g)
        PROVE  tx'[s] = tx[s]
    BY <2>8 DEF Reject, Complete, MoveMerch
  <2>9. CASE SessionBegins(s)
    <3> HIDE DEF Fine
    <3> QED BY <1>3, <2>1, <2>2, <2>3, <2>4, <2>5, <2>6, <2>8, <2>9 DEF SessionBegins
  <2>10. CASE SessionProceeds(s) \/ Rollback(s)
    <3>1. ASSUME tx' = [tx EXCEPT ![s] = Idle]
          PROVE  tx'[s].op = "idle"
      BY <1>1, <3>1 DEF Idle
    <3> HIDE DEF Fine
    <3> QED
      BY <2>1, <2>7, <2>10, <3>1
         DEF SessionProceeds, Rollback, OfferCommit, AcceptCommit, ApplyCommit,
             EditCommit, DeleteCommit
  <2> QED BY <1>3, <2>9, <2>10
<1>4. ASSUME UNCHANGED tx
      PROVE  \A s \in Sessions : Fine(s)'
  BY <1>2, <1>4
<1>5. \A s \in Sessions : Fine(s)'
  <2>1. ASSUME NEW s \in Sessions, SessionBegins(s) \/ SessionProceeds(s) \/ Rollback(s)
        PROVE  \A t \in Sessions : Fine(t)'
    <3>1. \A t \in Sessions \ {s} : tx'[t] = tx[t]
      BY <1>1, <2>1, OthersUntouched
    <3> HIDE DEF Fine
    <3> QED BY <1>2, <1>3, <2>1, <3>1
  <2>2. MatcherStep \/ PassFails \/ UNCHANGED vars => UNCHANGED tx
    BY DEF MatcherStep, StartPass, ListPartners, ListTrades, CheckTrade, EnsureMatch,
           PassFails, vars
  <2>3. \A v : SetBanned(v) => UNCHANGED tx
    BY DEF SetBanned
  <2> HIDE DEF Fine
  <2> QED BY <1>4, <2>1, <2>2, <2>3 DEF Next, ReliableNext
<1> QED BY <1>5 DEF NothingOwed

\* The books stay balanced: an apply of u brings its legs once, an edit is of
\* another row, and nothing else touches either side.
LEMMA BooksStayBalanced ==
    ASSUME Consistent, [Next]_vars, NEW u \in Users, NEW m \in Merch, OnlyReceives(u, m),
           BooksBalance(u, m), NothingOwed(u, m)
    PROVE  BooksBalance(u, m)'
<1>1. RowSteps /\ TypeOK
  BY NextStep DEF Consistent
<1> DEFINE H == <<u, m, "HAVE">>
           T == <<u, m, "TRADE">>
           total == SumFunction([k \in Keys |-> Brought(k, u, m)])
<1>2. H \in Rows /\ T \in Rows /\ inv[H] \in Int /\ inv[T] = 0
  BY <1>1 DEF Rows, Kinds, TypeOK, BooksBalance
<1>3. PICK stock \in Stocks : inv[H] = stock[H] + total
  BY DEF BooksBalance
<1>4. stock[H] \in Int /\ total \in Int
  <2>1. stock[H] \in Int
    BY <1>2, StockAssumption, QtyAssumption
  <2>2. \A k \in Keys : Brought(k, u, m) \in Int
    BY <1>1, BroughtStays
  <2>3. total = SumFunctionOnSet([k \in Keys |-> Brought(k, u, m)], Keys)
    BY DEF SumFunction
  <2> DEFINE f == [k \in Keys |-> Brought(k, u, m)]
  <2>4. \A k \in Keys : f[k] \in Int
    BY <2>2
  <2> HIDE DEF f
  <2>5. SumFunctionOnSet(f, Keys) \in Int
    BY <2>4, FinitelyManyKeys, SumIsInt
  <2> QED BY <2>1, <2>3, <2>5 DEF f
<1> HIDE DEF total
<1>5. ASSUME inv'[H] = inv[H], inv'[T] = 0, \A s \in Sessions : ~ApplyCommit(s)
      PROVE  BooksBalance(u, m)'
  <2>1. total' = total
    BY <1>1, <1>5, OnlyApplyMarks, BooksFollowMarks DEF total
  <2> QED BY <1>3, <1>5, <2>1 DEF BooksBalance, total
<1>6. CASE inv' = inv /\ \A s \in Sessions : ~ApplyCommit(s)
  BY <1>2, <1>5, <1>6
<1>7. ASSUME NEW s \in Sessions, EditCommit(s), inv' = [inv EXCEPT ![tx[s].row] = tx[s].qty],
             \A t \in Sessions : ~ApplyCommit(t)
      PROVE  BooksBalance(u, m)'
  <2>1. tx[s].row # H /\ tx[s].row # T
    BY <1>7 DEF EditCommit, NothingOwed, OnlyReceives
  <2> QED BY <1>1, <1>2, <1>5, <1>7, <2>1 DEF TypeOK
<1>8. ASSUME NEW s \in Sessions, ApplyCommit(s)
      PROVE  BooksBalance(u, m)'
  <2>1. PICK j \in Keys, v \in Users, skipHave \in BOOLEAN :
            j = tx[s].key /\ v = tx[s].user /\ skipHave = tx[s].skipHave
    BY <1>8, ApplyMarks DEF ApplyTx
  <2>2. /\ v \in Participants(j) /\ v \notin matches[j].applied
        /\ matches[j].status = "COMPLETED"
        /\ \A k \in Keys : matches'[k].applied =
              IF k = j THEN matches[k].applied \cup {v} ELSE matches[k].applied
    BY <1>8, <2>1, ApplyMarks
  <2> DEFINE peer == OtherParticipant(j, v)
             lg == matches[j].legs
  <2>3. PICK receivedFirst \in BOOLEAN :
            inv' = AppliedInventory(inv, lg, v, peer, skipHave, receivedFirst)
    BY <1>8, <2>1 DEF ApplyCommit
  <2>4. CASE v # u
    <3>1. inv'[H] = inv[H] /\ inv'[T] = inv[T]
      BY <1>2, <2>3, <2>4 DEF AppliedInventory
    <3>2. \A k \in Keys : u \in matches'[k].applied <=> u \in matches[k].applied
      BY <2>2, <2>4
    <3>3. total' = total
      BY <1>1, <3>2, BooksFollowMarks DEF total
    <3> QED BY <1>2, <1>3, <3>1, <3>3 DEF BooksBalance, total
  <2>5. CASE v = u
    <3>1. lg[<<u, m>>] = 0
      BY <1>8, <2>1, <2>5 DEF NothingOwed, ApplyCommit
    <3>2. lg[<<peer, m>>] \in Int
      <4>1. peer \in Users
        BY <2>2, ParticipantsOfKey
      <4> QED BY <1>1, <4>1, QtyAssumption DEF TypeOK, MatchRow, Legs
    <3>3. inv'[H] = inv[H] + lg[<<peer, m>>] /\ inv'[T] = 0
      BY <1>2, <2>3, <2>5, <3>1, <3>2 DEF AppliedInventory
    <3>4. total' = total + lg[<<peer, m>>]
      <4>1. u \in matches'[j].applied \ matches[j].applied
        BY <2>2, <2>5
      <4>2. \A k \in Keys \ {j} : u \in matches'[k].applied <=> u \in matches[k].applied
        BY <2>2
      <4> QED BY <1>1, <2>2, <2>5, <4>1, <4>2, BooksFollowMarks DEF total
    <3>5. inv'[H] = stock[H] + total'
      BY <1>3, <1>4, <3>2, <3>3, <3>4
    <3> QED BY <3>3, <3>5 DEF BooksBalance, total
  <2> QED BY <2>4, <2>5
<1> QED BY <1>6, <1>7, <1>8, OnlyCommitsWriteInventory

\* At the start every match is new, so that the books hold what was entered.
LEMMA BooksOpenBalanced ==
    ASSUME Init, NEW u \in Users, NEW m \in Merch, OnlyReceives(u, m)
    PROVE  BooksBalance(u, m) /\ NothingOwed(u, m)
<1>1. NothingOwed(u, m)
  BY DEF Init, NothingOwed, Idle
<1> DEFINE f == [k \in Keys |-> Brought(k, u, m)]
           zero == [k \in Keys |-> 0]
<1>2. f = zero
  BY DEF Init, NoMatch, Brought
<1>3. SumFunction(f) = SumFunctionOnSet(zero, Keys)
  BY <1>2 DEF SumFunction
<1>4. \A k \in Keys : zero[k] = 0
  OBVIOUS
<1> HIDE DEF f, zero
<1>5. SumFunctionOnSet(zero, Keys) = 0
  BY <1>4, FinitelyManyKeys, SumOfZeros
<1>6. inv[<<u, m, "HAVE">>] \in Int
  BY StockAssumption, QtyAssumption DEF Init, Rows, Kinds
<1>7. inv[<<u, m, "HAVE">>] = inv[<<u, m, "HAVE">>] + SumFunction(f)
  BY <1>3, <1>5, <1>6
<1> QED BY <1>1, <1>7 DEF Init, OnlyReceives, BooksBalance, f

(***************************************************************************)
(* A completed trade is applied to the inventory of each side exactly once *)
(* (apply_inventory, #492), for any number of users, matches and requests  *)
(* that overlap, are retried or roll back.                                 *)
(***************************************************************************)
THEOREM TradesAreReceivedOnce == Spec => []ReceivedOnce
<1> DEFINE Books == \A u \in Users, m \in Merch :
               OnlyReceives(u, m) => BooksBalance(u, m) /\ NothingOwed(u, m)
<1>1. Init => Books
  BY BooksOpenBalanced
<1>2. Consistent /\ [Next]_vars /\ Books => Books'
  <2> SUFFICES ASSUME Consistent, [Next]_vars, Books,
                      NEW u \in Users, NEW m \in Merch, OnlyReceives(u, m)
               PROVE  BooksBalance(u, m)' /\ NothingOwed(u, m)'
    BY DEF OnlyReceives
  <2>1. inv[<<u, m, "TRADE">>] = 0
    BY DEF BooksBalance
  <2> QED BY <2>1, NextStep, BooksStayBalanced, NothingOwedStays
<1>3. Books => ReceivedOnce
  BY DEF OnlyReceives, BooksBalance, Brought, ReceivedOnce
<1> HIDE DEF Books
<1> QED BY <1>1, <1>2, <1>3, StaysConsistent, PTL DEF Spec

=============================================================================
