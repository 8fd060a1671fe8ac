----------------------------- MODULE ChatProofs -----------------------------
(***************************************************************************)
(* The chat of matches, for any number of users, matches and requests.     *)
(***************************************************************************)
EXTENDS ChatProperties, FiniteSetTheorems, TLAPS

-----------------------------------------------------------------------------
(***************************************************************************)
(* The inductive invariant.  A removal with its deletes behind it holds    *)
(* every message of the matches it drops.  A request that reads a thread   *)
(* has seen nothing younger than the clock, and nothing younger than the   *)
(* watermark it goes on to set; the last open that set a watermark left    *)
(* all it has shown below it.                                              *)
(***************************************************************************)
ThreadCalls ==
    [op: {"list", "stamp"}, user: Users, match: Matches, shown: SUBSET Times]
    \cup [op: {"marking"}, user: Users, match: Matches, shown: SUBSET Times, at: Times]

Born(m) == matches[m] # Unborn

Upto(times, t) == \A x \in times : x <= t

CallKnows(c) ==
    /\ c.op \in {"list", "stamp", "marking"} => Born(c.match)
    /\ c.op \in {"list", "stamp"} => Upto(c.shown, clock)
    /\ c.op = "sending" => c.at <= clock
    /\ c.op = "marking" => Upto(c.shown, c.at)
    /\ c.op = "removed" => \A x \in messages : x.match \in c.dropped => x \in c.doomed

WatermarkKnows(m, u) ==
    /\ matches[m] = Unborn => opened[<<m, u>>].last = {}
    /\ Exists(m) => Upto(opened[<<m, u>>].last, matches[m].readAt[u])

ChatInvariant ==
    /\ ChatTypeOK
    /\ MessagesHaveAMatch
    /\ \A x \in messages : x.at <= clock
    /\ \A s \in Sessions : CallKnows(call[s])
    /\ \A m \in Matches, u \in Users : WatermarkKnows(m, u)

-----------------------------------------------------------------------------
(***************************************************************************)
(* Rows and requests by their tags                                         *)
(***************************************************************************)
LEMMA UnbornIsNoRow == Unborn \notin MatchRows /\ Gone \notin MatchRows /\ Unborn # Gone
  <1>1. DOMAIN Unborn = {"status"} /\ DOMAIN Gone = {"status"} /\ Unborn.status # Gone.status
    BY DEF Unborn, Gone
  <1>2. \A r \in MatchRows : DOMAIN r = {"status", "offeredBy", "completed", "readAt"}
    BY DEF MatchRows
  <1> QED BY <1>1, <1>2

LEMMA CallByOp ==
    ASSUME NEW c \in Calls
    PROVE  /\ c.op \in {"list", "stamp"} =>
                c \in [op: {"list", "stamp"}, user: Users, match: Matches, shown: SUBSET Times]
           /\ c.op = "marking" =>
                c \in [op: {"marking"}, user: Users, match: Matches, shown: SUBSET Times, at: Times]
           /\ c.op = "sending" => c \in [op: {"sending"}, user: Users, match: Matches, at: Times]
           /\ c.op \in {"removing"} => c \in [op: {"removing"}, doomed: SUBSET MessageRows]
           /\ c.op = "removed" => c \in [op: {"removed"}, doomed: SUBSET MessageRows,
                                         dropped: SUBSET Matches]
  BY DEF Calls, Idle

LEMMA TimesAreNat == Times \subseteq Nat /\ Never \in Times
  BY ChatAssumption DEF Times, Never

LEMMA IdleKnows == Idle \in Calls /\ CallKnows(Idle)
  BY DEF Idle, Calls, CallKnows

LEMMA Drawing ==
    ASSUME clock \in Times, Draw
    PROVE  clock' \in Times /\ clock' = clock + 1 /\ clock <= clock'
  BY ChatAssumption DEF Draw, Times

LEMMA TalkersAreUsers ==
    ASSUME NEW m \in Matches
    PROVE  Between[m][1] \in Users /\ Between[m][2] \in Users
  BY ChatAssumption

LEMMA ChatInitially == ChatInit => ChatInvariant
  BY TimesAreNat, UnbornIsNoRow, IdleKnows
     DEF ChatInit, ChatInvariant, ChatTypeOK, MessagesHaveAMatch, WatermarkKnows, Exists, Upto,
         Born, CallKnows, Idle, Calls

-----------------------------------------------------------------------------
(***************************************************************************)
(* What the kinds of step keep                                             *)
(***************************************************************************)
\* A step of one request that leaves rows and messages alone.
LEMMA CallSteps ==
    ASSUME ChatInvariant, NEW s \in Sessions, NEW c \in Calls, SetCall(s, c),
           UNCHANGED <<group, matches, messages, opened>>,
           clock' \in Times, clock <= clock', CallKnows(c)'
    PROVE  ChatInvariant'
  <1>1. call' \in [Sessions -> Calls]
    BY DEF SetCall, ChatInvariant, ChatTypeOK
  <1>2. \A x \in messages : x.at <= clock'
    <2> SUFFICES ASSUME NEW x \in messages PROVE x.at <= clock'
      OBVIOUS
    <2>1. x.at \in Nat /\ clock \in Nat /\ clock' \in Nat /\ x.at <= clock
      BY TimesAreNat DEF ChatInvariant, ChatTypeOK, MessageRows
    <2> QED BY <2>1
  <1>3. ASSUME NEW t \in Sessions PROVE CallKnows(call[t])'
    <2>1. CASE t = s
      BY <2>1 DEF SetCall, ChatInvariant, ChatTypeOK
    <2>2. CASE t # s
      <3>1. call'[t] = call[t] /\ CallKnows(call[t]) /\ call[t] \in Calls
        BY <2>2 DEF SetCall, ChatInvariant, ChatTypeOK
      <3>2. call[t].op \in {"list", "stamp"} => Upto(call[t].shown, clock')
        <4> SUFFICES ASSUME call[t].op \in {"list", "stamp"}, NEW x \in call[t].shown
                     PROVE  x <= clock'
          BY DEF Upto
        <4>1. x \in Nat /\ clock \in Nat /\ clock' \in Nat /\ x <= clock
          BY <3>1, CallByOp, TimesAreNat DEF CallKnows, Upto, ChatInvariant, ChatTypeOK
        <4> QED BY <4>1
      <3>3. call[t].op = "sending" => call[t].at <= clock'
        <4> SUFFICES ASSUME call[t].op = "sending" PROVE call[t].at <= clock'
          OBVIOUS
        <4>1. call[t].at \in Nat /\ clock \in Nat /\ clock' \in Nat /\ call[t].at <= clock
          BY <3>1, CallByOp, TimesAreNat DEF CallKnows, ChatInvariant, ChatTypeOK
        <4> QED BY <4>1
      <3> QED BY <3>1, <3>2, <3>3 DEF CallKnows, Born, Upto
    <2> QED BY <2>1, <2>2
  <1> QED BY <1>1, <1>2, <1>3
          DEF ChatInvariant, ChatTypeOK, MessagesHaveAMatch, WatermarkKnows, Exists, Upto

\* A step of one match, perhaps with a notice: requests and threads stay as
\* they are.
LEMMA RowSteps ==
    ASSUME ChatInvariant, NEW m \in Matches, NEW row \in MatchRows, Becomes(m, row),
           matches[m] = Unborn \/ (Exists(m) /\ row.readAt = matches[m].readAt),
           Quietly \/ Notice(m)
    PROVE  ChatInvariant'
  <1>a. ChatTypeOK
    BY DEF ChatInvariant
  <1>1. /\ matches' \in [Matches -> MatchRows \cup {Unborn, Gone}]
        /\ matches'[m] = row
        /\ \A n \in Matches \ {m} : matches'[n] = matches[n]
        /\ UNCHANGED <<group, opened, call>> /\ ~Locked(m)
    BY <1>a DEF Becomes, ChatTypeOK
  <1>2. \A n \in Matches : (Exists(n) => Exists(n)') /\ (Born(n) => Born(n)')
    BY <1>1, UnbornIsNoRow DEF Exists, Born
  <1>3. /\ clock' \in Times /\ clock <= clock'
        /\ \A x \in messages' : \/ x \in messages
                                \/ x \in MessageRows /\ x.match = m /\ x.at = clock'
    <2>1. CASE Quietly
      BY <2>1, <1>a, TimesAreNat DEF Quietly, ChatTypeOK
    <2>2. CASE Notice(m)
      <3> DEFINE new == [match |-> m, sender |-> Between[m][1], type |-> "SYSTEM", at |-> clock']
      <3>1. clock' \in Times /\ clock <= clock'
        BY <2>2, <1>a, Drawing DEF Notice, ChatTypeOK
      <3>2. new \in MessageRows /\ new.match = m /\ new.at = clock'
        BY <3>1, TalkersAreUsers DEF MessageRows
      <3> HIDE DEF new
      <3>3. messages' = messages \cup {new}
        BY <2>2 DEF Notice, new
      <3> QED BY <3>1, <3>2, <3>3
    <2> QED BY <2>1, <2>2
  <1>4. messages' \subseteq MessageRows
    BY <1>3, <1>a DEF ChatTypeOK
  <1>5. MessagesHaveAMatch'
    <2> SUFFICES ASSUME NEW x \in messages' PROVE Exists(x.match)'
      BY DEF MessagesHaveAMatch
    <2>1. CASE x \in messages
      BY <2>1, <1>a, <1>2 DEF ChatInvariant, MessagesHaveAMatch, ChatTypeOK, MessageRows
    <2>2. CASE x.match = m
      BY <2>2, <1>1 DEF Exists
    <2> QED BY <2>1, <2>2, <1>3
  <1>6. \A x \in messages' : x.at <= clock'
    <2> SUFFICES ASSUME NEW x \in messages' PROVE x.at <= clock'
      OBVIOUS
    <2>1. x.at \in Nat /\ clock \in Nat /\ clock' \in Nat
      BY <1>3, <1>4, <1>a, TimesAreNat DEF ChatTypeOK, MessageRows
    <2> QED BY <2>1, <1>3 DEF ChatInvariant
  <1>7. ASSUME NEW s \in Sessions PROVE CallKnows(call[s])'
    <2>1. call'[s] = call[s] /\ CallKnows(call[s]) /\ call[s] \in Calls
      BY <1>1, <1>a DEF ChatInvariant, ChatTypeOK
    <2>2. call[s].op \in {"list", "stamp", "marking"} => Born(call[s].match)'
      BY <2>1, <1>2, CallByOp DEF CallKnows
    <2>3. call[s].op \in {"list", "stamp"} => Upto(call[s].shown, clock')
      <3> SUFFICES ASSUME call[s].op \in {"list", "stamp"}, NEW x \in call[s].shown
                   PROVE  x <= clock'
        BY DEF Upto
      <3>1. x \in Nat /\ clock \in Nat /\ clock' \in Nat /\ x <= clock
        BY <2>1, <1>3, <1>a, CallByOp, TimesAreNat DEF CallKnows, Upto, ChatTypeOK
      <3> QED BY <3>1, <1>3
    <2>k. call[s].op = "sending" => call[s].at <= clock'
      <3> SUFFICES ASSUME call[s].op = "sending" PROVE call[s].at <= clock'
        OBVIOUS
      <3>1. call[s].at \in Nat /\ clock \in Nat /\ clock' \in Nat /\ call[s].at <= clock
        BY <2>1, <1>3, <1>a, CallByOp, TimesAreNat DEF CallKnows, ChatTypeOK
      <3> QED BY <3>1, <1>3
    <2>4. call[s].op = "removed" => m \notin call[s].dropped
      BY <1>1 DEF Locked
    <2> QED BY <2>1, <2>2, <2>3, <2>4, <2>k, <1>3 DEF CallKnows, Upto
  <1>8. ASSUME NEW n \in Matches, NEW u \in Users PROVE WatermarkKnows(n, u)'
    <2>1. WatermarkKnows(n, u)
      BY DEF ChatInvariant
    <2>2. CASE n # m
      BY <2>1, <2>2, <1>1 DEF WatermarkKnows, Exists, Upto
    <2>3. CASE n = m /\ matches[m] = Unborn
      BY <2>1, <2>3, <1>1, UnbornIsNoRow DEF WatermarkKnows, Exists, Upto
    <2>4. CASE n = m /\ Exists(m) /\ row.readAt = matches[m].readAt
      BY <2>1, <2>4, <1>1, UnbornIsNoRow DEF WatermarkKnows, Exists, Upto
    <2> QED BY <2>2, <2>3, <2>4
  <1> QED BY <1>1, <1>3, <1>4, <1>5, <1>6, <1>7, <1>8, <1>a DEF ChatInvariant, ChatTypeOK

\* A step that takes rows or messages away, or adds a message to a match that
\* no removal has dropped; what is left still has its match.
LEMMA MessageSteps ==
    ASSUME ChatInvariant, UNCHANGED call \/ \E s \in Sessions : SetCall(s, Idle),
           UNCHANGED <<opened, clock>>, group' \in {"live", "gone"},
           messages' \subseteq MessageRows,
           \A m \in Matches : matches'[m] = matches[m] \/ matches'[m] = Gone,
           matches' \in [Matches -> MatchRows \cup {Unborn, Gone}],
           MessagesHaveAMatch',
           \A x \in messages' : x \in messages \/ (x.at <= clock /\ ~Locked(x.match))
    PROVE  ChatInvariant'
  <1>a. ChatTypeOK
    BY DEF ChatInvariant
  <1>1. call' \in [Sessions -> Calls]
        /\ \A t \in Sessions : call'[t] = call[t] \/ call'[t] = Idle
    BY <1>a, IdleKnows DEF SetCall, ChatTypeOK
  <1>2. \A x \in messages' : x.at <= clock
    BY DEF ChatInvariant
  <1>3. ASSUME NEW t \in Sessions PROVE CallKnows(call[t])'
    <2>1. CASE call'[t] = Idle
      BY <2>1 DEF CallKnows, Idle
    <2>2. CASE call'[t] = call[t]
      <3>1. CallKnows(call[t]) /\ call[t] \in Calls
        BY <1>a DEF ChatInvariant, ChatTypeOK
      <3>2. call[t].op \in {"list", "stamp", "marking"} => Born(call[t].match)'
        BY <2>2, <3>1, CallByOp, UnbornIsNoRow DEF CallKnows, Born
      <3>3. call[t].op = "removed" =>
              \A x \in messages' : x.match \in call[t].dropped => x \in call[t].doomed
        BY <3>1 DEF CallKnows, Locked
      <3> QED BY <2>2, <3>1, <3>2, <3>3 DEF CallKnows, Upto
    <2> QED BY <1>1, <2>1, <2>2
  <1>4. ASSUME NEW m \in Matches, NEW u \in Users PROVE WatermarkKnows(m, u)'
    <2>1. WatermarkKnows(m, u)
      BY DEF ChatInvariant
    <2>2. CASE matches'[m] = matches[m]
      BY <2>1, <2>2 DEF WatermarkKnows, Exists, Upto
    <2>3. CASE matches'[m] = Gone
      BY <2>3, UnbornIsNoRow DEF WatermarkKnows, Exists
    <2> QED BY <2>2, <2>3
  <1> QED BY <1>1, <1>2, <1>3, <1>4, <1>a DEF ChatInvariant, ChatTypeOK

-----------------------------------------------------------------------------
(***************************************************************************)
(* The actions                                                             *)
(***************************************************************************)
LEMMA ThreadActions ==
    ASSUME ChatInvariant, NEW s \in Sessions,
           \/ \E u \in Users, m \in Matches : OpenThread(s, u, m) \/ SendMessage(s, u, m)
           \/ list_for_match(s) \/ StartMark(s)
    PROVE  ChatInvariant'
  <1>a. ChatTypeOK
    BY DEF ChatInvariant
  <1>b. clock \in Nat /\ clock <= clock
    BY <1>a, TimesAreNat DEF ChatTypeOK
  <1>1. ASSUME NEW u \in Users, NEW m \in Matches, OpenThread(s, u, m) PROVE ChatInvariant'
    <2> DEFINE c == [op |-> "list", user |-> u, match |-> m, shown |-> {}]
    <2>1. c \in Calls
      BY DEF Calls
    <2>2. CallKnows(c)'
      BY <1>1, UnbornIsNoRow DEF OpenThread, CallKnows, Born, Exists, Upto
    <2>3. SetCall(s, c) /\ UNCHANGED <<group, matches, messages, opened, clock>>
      BY <1>1 DEF OpenThread
    <2> HIDE DEF c
    <2> QED BY <2>1, <2>2, <2>3, <1>a, <1>b, CallSteps DEF ChatTypeOK
  <1>2. ASSUME NEW u \in Users, NEW m \in Matches, SendMessage(s, u, m) PROVE ChatInvariant'
    <2> DEFINE c == [op |-> "sending", user |-> u, match |-> m, at |-> clock']
    <2>1. clock' \in Times /\ clock <= clock'
      BY <1>2, <1>a, Drawing DEF SendMessage, ChatTypeOK
    <2>2. PICK d \in Calls : d = c
      BY <2>1 DEF Calls
    <2>k. CallKnows(d)'
      BY <2>1, <2>2, TimesAreNat DEF CallKnows
    <2>3. SetCall(s, d) /\ UNCHANGED <<group, matches, messages, opened>>
      BY <1>2, <2>2 DEF SendMessage
    <2> HIDE DEF c
    <2> QED BY <2>1, <2>3, <2>k, CallSteps
  <1>3. ASSUME list_for_match(s) PROVE ChatInvariant'
    <2> DEFINE shown == FromPeer(call[s].match, call[s].user)
               c == [call[s] EXCEPT !.op = "stamp", !.shown = shown]
    <2>1. /\ call[s] \in [op: {"list", "stamp"}, user: Users, match: Matches, shown: SUBSET Times]
          /\ Born(call[s].match)
      BY <1>3, <1>a, CallByOp DEF list_for_match, ChatTypeOK, ChatInvariant, CallKnows
    <2>2. shown \in SUBSET Times /\ Upto(shown, clock)
      BY <1>a DEF FromPeer, Thread, ChatTypeOK, MessageRows, ChatInvariant, Upto
    <2>3. UNCHANGED <<group, matches, messages, opened, clock>> /\ SetCall(s, c)
      BY <1>3 DEF list_for_match
    <2> HIDE DEF shown
    <2>4. c \in [op: {"list", "stamp"}, user: Users, match: Matches, shown: SUBSET Times]
          /\ c.op = "stamp" /\ c.shown = shown /\ c.match = call[s].match
      BY <2>1, <2>2
    <2> HIDE DEF c
    <2>5. PICK d \in Calls : d = c
      BY <2>4 DEF Calls
    <2>6. CallKnows(d)'
      BY <2>1, <2>2, <2>3, <2>4, <2>5 DEF CallKnows, Born, Upto
    <2> QED BY <2>3, <2>5, <2>6, <1>a, <1>b, CallSteps DEF ChatTypeOK
  <1>4. ASSUME StartMark(s) PROVE ChatInvariant'
    <2> DEFINE c == [op |-> "marking", user |-> call[s].user, match |-> call[s].match,
                     shown |-> call[s].shown, at |-> clock']
    <2>1. /\ call[s] \in [op: {"list", "stamp"}, user: Users, match: Matches, shown: SUBSET Times]
          /\ Born(call[s].match) /\ Upto(call[s].shown, clock)
      BY <1>4, <1>a, CallByOp DEF StartMark, ChatTypeOK, ChatInvariant, CallKnows
    <2>2. clock' \in Times /\ clock <= clock'
      BY <1>4, <1>a, Drawing DEF StartMark, ChatTypeOK
    <2>3. \A x \in call[s].shown : x <= clock'
      <3> SUFFICES ASSUME NEW x \in call[s].shown PROVE x <= clock'
        OBVIOUS
      <3>1. x \in Nat /\ clock \in Nat /\ clock' \in Nat /\ x <= clock
        BY <2>1, <2>2, <1>b, TimesAreNat DEF Upto
      <3> QED BY <3>1, <2>2
    <2>4. SetCall(s, c) /\ UNCHANGED <<group, matches, messages, opened>>
      BY <1>4 DEF StartMark
    <2>5. c.match = call[s].match /\ c.shown = call[s].shown /\ c.at = clock' /\ c.op = "marking"
          /\ c \in Calls
      BY <2>1, <2>2 DEF Calls
    <2> HIDE DEF c
    <2>6. PICK d \in Calls : d = c
      BY <2>5
    <2>7. CallKnows(d)'
      BY <2>1, <2>3, <2>4, <2>5, <2>6 DEF CallKnows, Born, Upto
    <2> QED BY <2>2, <2>4, <2>6, <2>7, CallSteps
  <1> QED BY <1>1, <1>2, <1>3, <1>4

LEMMA MarkingActions ==
    ASSUME ChatInvariant, NEW s \in Sessions, mark_messages_read(s)
    PROVE  ChatInvariant'
  <1>a. ChatTypeOK
    BY DEF ChatInvariant
  <1>1. /\ call[s] \in [op: {"marking"}, user: Users, match: Matches, shown: SUBSET Times,
                        at: Times]
        /\ Born(call[s].match) /\ Upto(call[s].shown, call[s].at)
    BY <1>a, CallByOp DEF mark_messages_read, ChatTypeOK, ChatInvariant, CallKnows
  <1>2. PICK m \in Matches, u \in Users, shown \in SUBSET Times, at \in Times :
          /\ m = call[s].match /\ u = call[s].user
          /\ shown = call[s].shown /\ at = call[s].at
    BY <1>1
  <1> DEFINE row == [matches[m] EXCEPT !.readAt = [matches[m].readAt EXCEPT ![u] = at]]
             show == [last |-> shown, ever |-> opened[<<m, u>>].ever \cup shown]
  <1>3. /\ ~Locked(m)
        /\ matches' = IF Exists(m) THEN [matches EXCEPT ![m] = row] ELSE matches
        /\ opened' = [opened EXCEPT ![<<m, u>>] = show]
        /\ SetCall(s, Idle)
        /\ UNCHANGED <<group, messages, clock>>
    BY <1>2 DEF mark_messages_read, Shown
  <1>4. show \in [last: SUBSET Times, ever: SUBSET Times] /\ show.last = shown
    BY <1>a DEF ChatTypeOK
  <1>5. Exists(m) => /\ row \in MatchRows
                     /\ row.readAt[u] = at
                     /\ \A v \in Users \ {u} : row.readAt[v] = matches[m].readAt[v]
    BY DEF Exists, MatchRows
  <1> HIDE DEF row, show
  <1>6. /\ matches' \in [Matches -> MatchRows \cup {Unborn, Gone}]
        /\ \A n \in Matches : (Exists(n)' <=> Exists(n)) /\ (Born(n)' <=> Born(n))
    BY <1>3, <1>5, <1>a, UnbornIsNoRow DEF ChatTypeOK, Exists, Born
  <1>7. /\ opened' \in [Matches \X Users -> [last: SUBSET Times, ever: SUBSET Times]]
        /\ opened'[<<m, u>>] = show
        /\ \A n \in Matches, v \in Users :
                <<n, v>> # <<m, u>> => opened'[<<n, v>>] = opened[<<n, v>>]
    BY <1>3, <1>4, <1>a DEF ChatTypeOK
  <1>8. call' \in [Sessions -> Calls]
        /\ \A t \in Sessions : call'[t] = call[t] \/ call'[t] = Idle
    BY <1>3, <1>a, IdleKnows DEF SetCall, ChatTypeOK
  <1>9. ASSUME NEW t \in Sessions PROVE CallKnows(call[t])'
    <2>1. CASE call'[t] = Idle
      BY <2>1 DEF CallKnows, Idle
    <2>2. CASE call'[t] = call[t]
      <3>1. CallKnows(call[t]) /\ call[t] \in Calls
        BY <1>a DEF ChatInvariant, ChatTypeOK
      <3>2. call[t].op \in {"list", "stamp", "marking"} => Born(call[t].match)'
        BY <2>2, <3>1, <1>6, CallByOp DEF CallKnows
      <3> QED BY <2>2, <3>1, <3>2, <1>3 DEF CallKnows, Upto
    <2> QED BY <1>8, <2>1, <2>2
  <1>10. ASSUME NEW n \in Matches, NEW v \in Users PROVE WatermarkKnows(n, v)'
    <2>1. WatermarkKnows(n, v)
      BY DEF ChatInvariant
    <2>2. CASE n = m /\ v = u
      <3>1. matches'[m] # Unborn
        BY <1>1, <1>2, <1>6 DEF Born
      <3>2. Exists(m)' => matches'[m] = row
        BY <1>3, <1>6, <1>a DEF ChatTypeOK
      <3> QED BY <2>2, <3>1, <3>2, <1>1, <1>2, <1>4, <1>5, <1>6, <1>7
              DEF WatermarkKnows, Upto
    <2>3. CASE n = m /\ v # u
      <3>1. opened'[<<n, v>>] = opened[<<n, v>>]
        BY <2>3, <1>7
      <3>2. Exists(n)' => matches'[n].readAt[v] = matches[n].readAt[v]
        BY <2>3, <1>3, <1>5, <1>6, <1>a DEF ChatTypeOK
      <3> QED BY <2>1, <3>1, <3>2, <1>6 DEF WatermarkKnows, Upto, Born
    <2>4. CASE n # m
      <3>1. opened'[<<n, v>>] = opened[<<n, v>>]
        BY <2>4, <1>7
      <3>2. matches'[n] = matches[n]
        BY <2>4, <1>3, <1>a DEF ChatTypeOK
      <3> QED BY <2>1, <3>1, <3>2 DEF WatermarkKnows, Upto, Exists
    <2> QED BY <2>2, <2>3, <2>4
  <1>11. MessagesHaveAMatch'
    BY <1>3, <1>6, <1>a DEF ChatInvariant, MessagesHaveAMatch, ChatTypeOK, MessageRows
  <1> QED BY <1>3, <1>6, <1>7, <1>8, <1>9, <1>10, <1>11, <1>a DEF ChatInvariant, ChatTypeOK

LEMMA SendingActions ==
    ASSUME ChatInvariant, NEW s \in Sessions, send(s)
    PROVE  ChatInvariant'
  <1>a. ChatTypeOK
    BY DEF ChatInvariant
  <1>1. call[s] \in [op: {"sending"}, user: Users, match: Matches, at: Times]
    BY <1>a, CallByOp DEF send, ChatTypeOK
  <1>2. PICK m \in Matches, u \in Users, at \in Times :
          m = call[s].match /\ u = call[s].user /\ at = call[s].at
    BY <1>1
  <1>3. CASE ~Exists(m)
    <2>1. UNCHANGED <<group, matches, messages, opened, clock>> /\ SetCall(s, Idle)
      BY <1>2, <1>3 DEF send, MatchToReferTo
    <2>2. MessagesHaveAMatch'
      BY <2>1 DEF ChatInvariant, MessagesHaveAMatch, Exists
    <2> QED BY <2>1, <2>2, <1>a, MessageSteps DEF ChatTypeOK
  <1>4. CASE Exists(m)
    <2> DEFINE x == [match |-> m, sender |-> u, type |-> "TEXT", at |-> at]
    <2>1. x \in MessageRows /\ x.match = m /\ x.at = at
      BY DEF MessageRows
    <2>2. messages' = messages \cup {x}
      BY <1>2, <1>4 DEF send, MatchToReferTo
    <2> HIDE DEF x
    <2>3. UNCHANGED <<group, matches, opened, clock>> /\ SetCall(s, Idle) /\ ~Locked(m)
      BY <1>2 DEF send
    <2>4. at <= clock
      BY <1>1, <1>2 DEF ChatInvariant, CallKnows
    <2>5. MessagesHaveAMatch'
      BY <2>1, <2>2, <2>3, <1>4 DEF ChatInvariant, MessagesHaveAMatch, Exists
    <2> QED BY <2>1, <2>2, <2>3, <2>4, <2>5, <1>a, MessageSteps DEF ChatTypeOK
  <1> QED BY <1>3, <1>4

LEMMA LifeActions ==
    ASSUME ChatInvariant, NEW m \in Matches,
           \/ InsertMatch(m) \/ Accept(m) \/ Reject(m) \/ SystemCancel(m) \/ Reopen(m)
           \/ \E u \in Users : Offer(m, u) \/ Complete(m, u)
    PROVE  ChatInvariant'
  <1>1. ASSUME Exists(m), NEW row \in MatchRows, row.readAt = matches[m].readAt,
               Becomes(m, row), Quietly \/ Notice(m)
        PROVE  ChatInvariant'
    BY <1>1, RowSteps
  <1>2. CASE InsertMatch(m)
    <2>1. Fresh \in MatchRows
      BY TimesAreNat DEF Fresh, MatchRows, InProgress
    <2>2. Becomes(m, Fresh) /\ Quietly /\ matches[m] = Unborn
      BY <1>2 DEF InsertMatch
    <2> QED BY <2>1, <2>2, RowSteps
  <1>3. ASSUME NEW u \in Users, Offer(m, u) PROVE ChatInvariant'
    <2> DEFINE row == [matches[m] EXCEPT !.status = "OFFERED", !.offeredBy = u]
    <2>1. row \in MatchRows /\ row.readAt = matches[m].readAt
      BY <1>3 DEF Offer, Exists, MatchRows, InProgress
    <2>2. Becomes(m, row) /\ Quietly /\ Exists(m)
      BY <1>3 DEF Offer
    <2> HIDE DEF row
    <2> QED BY <1>1, <2>1, <2>2
  <1>4. CASE Accept(m)
    <2> DEFINE row == [matches[m] EXCEPT !.status = "ACCEPTED"]
    <2>1. row \in MatchRows /\ row.readAt = matches[m].readAt
      BY <1>4 DEF Accept, Exists, MatchRows, InProgress
    <2>2. Becomes(m, row) /\ Quietly /\ Exists(m)
      BY <1>4 DEF Accept
    <2> HIDE DEF row
    <2> QED BY <1>1, <2>1, <2>2
  <1>5. CASE Reject(m)
    <2> DEFINE row == [matches[m] EXCEPT !.status = "REJECTED"]
    <2>1. row \in MatchRows /\ row.readAt = matches[m].readAt
      BY <1>5 DEF Reject, Exists, MatchRows, InProgress
    <2>2. Becomes(m, row) /\ Quietly /\ Exists(m)
      BY <1>5 DEF Reject
    <2> HIDE DEF row
    <2> QED BY <1>1, <2>1, <2>2
  <1>6. ASSUME NEW u \in Users, Complete(m, u) PROVE ChatInvariant'
    <2> DEFINE row == [matches[m] EXCEPT !.status = "COMPLETED", !.completed = @ \cup {u}]
    <2>1. row \in MatchRows /\ row.readAt = matches[m].readAt
      BY <1>6 DEF Complete, Exists, MatchRows, InProgress
    <2>2. Becomes(m, row) /\ Quietly /\ Exists(m)
      BY <1>6 DEF Complete
    <2> HIDE DEF row
    <2> QED BY <1>1, <2>1, <2>2
  <1>7. CASE SystemCancel(m)
    <2> DEFINE row == [matches[m] EXCEPT !.status = "CANCELLED"]
    <2>1. row \in MatchRows /\ row.readAt = matches[m].readAt
      BY <1>7 DEF SystemCancel, Exists, MatchRows, InProgress
    <2>2. Becomes(m, row) /\ Notice(m) /\ Exists(m)
      BY <1>7 DEF SystemCancel
    <2> HIDE DEF row
    <2> QED BY <1>1, <2>1, <2>2
  <1>8. CASE Reopen(m)
    <2> DEFINE row == [matches[m] EXCEPT !.status = "PENDING", !.offeredBy = NoUser]
    <2>1. row \in MatchRows /\ row.readAt = matches[m].readAt
      BY <1>8 DEF Reopen, Exists, MatchRows, InProgress
    <2>2. Becomes(m, row) /\ Notice(m) /\ Exists(m)
      BY <1>8 DEF Reopen
    <2> HIDE DEF row
    <2> QED BY <1>1, <2>1, <2>2
  <1> QED BY <1>2, <1>3, <1>4, <1>5, <1>6, <1>7, <1>8

LEMMA RemovalActions ==
    ASSUME ChatInvariant,
           \/ \E m \in Matches : delete_match(m)
           \/ \E s \in Sessions : \/ BeginRemoval(s) \/ RemoveMessages(s)
                                  \/ RemoveMatches(s) \/ CommitRemoval(s)
    PROVE  ChatInvariant'
  <1>a. ChatTypeOK
    BY DEF ChatInvariant
  <1>b. clock \in Times /\ clock <= clock
    BY <1>a, TimesAreNat DEF ChatTypeOK
  <1>1. ASSUME NEW m \in Matches, delete_match(m) PROVE ChatInvariant'
    <2>1. /\ matches' = [matches EXCEPT ![m] = Gone] /\ Thread(m) = {} /\ Exists(m)
          /\ UNCHANGED <<group, messages, opened, clock, call>>
      BY <1>1 DEF delete_match
    <2>2. /\ matches' \in [Matches -> MatchRows \cup {Unborn, Gone}]
          /\ matches'[m] = Gone
          /\ \A n \in Matches \ {m} : matches'[n] = matches[n]
      BY <2>1, <1>a DEF ChatTypeOK
    <2>3. MessagesHaveAMatch'
      <3> SUFFICES ASSUME NEW x \in messages PROVE Exists(x.match)'
        BY <2>1 DEF MessagesHaveAMatch
      <3>1. x.match \in Matches \ {m} /\ Exists(x.match)
        BY <2>1, <1>a DEF Thread, ChatTypeOK, MessageRows, ChatInvariant, MessagesHaveAMatch
      <3> QED BY <3>1, <2>2 DEF Exists
    <2>4. /\ UNCHANGED call /\ UNCHANGED <<opened, clock>> /\ group' \in {"live", "gone"}
          /\ messages' \subseteq MessageRows /\ \A x \in messages' : x \in messages
          /\ \A n \in Matches : matches'[n] = matches[n] \/ matches'[n] = Gone
      BY <2>1, <2>2, <1>a DEF ChatTypeOK
    <2> QED BY <2>2, <2>3, <2>4, MessageSteps
  <1>2. ASSUME NEW s \in Sessions, BeginRemoval(s) PROVE ChatInvariant'
    <2> DEFINE c == [op |-> "clearing"]
    <2>1. c \in Calls /\ CallKnows(c)'
      BY DEF Calls, CallKnows
    <2> QED BY <1>2, <1>b, <2>1, CallSteps DEF BeginRemoval
  <1>3. ASSUME NEW s \in Sessions, RemoveMessages(s) PROVE ChatInvariant'
    <2> DEFINE c == [op |-> "removing", doomed |-> messages]
    <2>1. c \in Calls /\ CallKnows(c)'
      BY <1>a DEF Calls, CallKnows, ChatTypeOK
    <2> QED BY <1>3, <1>b, <2>1, CallSteps DEF RemoveMessages
  <1>4. ASSUME NEW s \in Sessions, RemoveMatches(s) PROVE ChatInvariant'
    <2>1. CASE StillReferenced(s)
      BY <1>4, <1>b, <2>1, IdleKnows, CallSteps DEF RemoveMatches, CallKnows, Idle
    <2>2. CASE ~StillReferenced(s)
      <3> DEFINE c == [op |-> "removed", doomed |-> call[s].doomed,
                       dropped |-> {m \in Matches : Exists(m)}]
      <3>1. call[s] \in [op: {"removing"}, doomed: SUBSET MessageRows]
        BY <1>4, <1>a, CallByOp DEF RemoveMatches, ChatTypeOK
      <3>2. c \in Calls
        BY <3>1 DEF Calls
      <3>3. \A x \in messages : x.match \in c.dropped => x \in c.doomed
        BY <2>2 DEF StillReferenced
      <3>4. SetCall(s, c) /\ UNCHANGED <<group, matches, messages, opened, clock>>
        BY <1>4, <2>2 DEF RemoveMatches
      <3>5. c.op = "removed"
        OBVIOUS
      <3> HIDE DEF c
      <3>6. PICK d \in Calls : d = c
        BY <3>2
      <3>7. CallKnows(d)'
        BY <3>3, <3>4, <3>5, <3>6 DEF CallKnows
      <3> QED BY <3>4, <3>6, <3>7, <1>b, CallSteps
    <2> QED BY <2>1, <2>2
  <1>5. ASSUME NEW s \in Sessions, CommitRemoval(s) PROVE ChatInvariant'
    <2>1. call[s] \in [op: {"removed"}, doomed: SUBSET MessageRows, dropped: SUBSET Matches]
          /\ call[s].op = "removed" /\ CallKnows(call[s])
      BY <1>5, <1>a, CallByOp DEF CommitRemoval, ChatTypeOK, ChatInvariant
    <2>2. /\ group' = "gone"
          /\ messages' = messages \ call[s].doomed
          /\ matches' = [m \in Matches |-> IF m \in call[s].dropped THEN Gone ELSE matches[m]]
          /\ SetCall(s, Idle) /\ UNCHANGED <<opened, clock>>
      BY <1>5 DEF CommitRemoval
    <2>3. MessagesHaveAMatch'
      <3> SUFFICES ASSUME NEW x \in messages' PROVE Exists(x.match)'
        BY DEF MessagesHaveAMatch
      <3>1. /\ x \in messages /\ x.match \in Matches /\ Exists(x.match)
            /\ x.match \notin call[s].dropped
        BY <2>1, <2>2, <1>a
           DEF CallKnows, ChatTypeOK, MessageRows, ChatInvariant, MessagesHaveAMatch
      <3> QED BY <3>1, <2>2 DEF Exists
    <2>4. /\ matches' \in [Matches -> MatchRows \cup {Unborn, Gone}]
          /\ \A m \in Matches : matches'[m] = matches[m] \/ matches'[m] = Gone
          /\ messages' \subseteq MessageRows /\ \A x \in messages' : x \in messages
      BY <2>2, <1>a DEF ChatTypeOK
    <2> QED BY <2>2, <2>3, <2>4, MessageSteps
  <1> QED BY <1>1, <1>2, <1>3, <1>4, <1>5

LEMMA ChatInductive == ChatInvariant /\ [ChatNext]_chatVars => ChatInvariant'
  <1> SUFFICES ASSUME ChatInvariant, [ChatNext]_chatVars PROVE ChatInvariant'
    OBVIOUS
  <1>1. CASE UNCHANGED chatVars
    BY <1>1 DEF chatVars, ChatInvariant, ChatTypeOK, MessagesHaveAMatch, CallKnows, Born,
       WatermarkKnows, Exists, Upto
  <1>2. CASE ChatNext
    BY <1>2, ThreadActions, MarkingActions, SendingActions, LifeActions, RemovalActions
       DEF ChatNext
  <1> QED BY <1>1, <1>2

-----------------------------------------------------------------------------
\* Matches, messages, watermarks and requests keep their types.
THEOREM ChatTypeCorrect == ChatSpec => []ChatTypeOK
  BY ChatInitially, ChatInductive, PTL DEF ChatSpec, ChatInvariant

\* However a removal and the messages of a match overlap, no message is left
\* that refers to a match that is gone.
THEOREM NoMessageIsOrphaned == ChatSpec => []MessagesHaveAMatch
  BY ChatInitially, ChatInductive, PTL DEF ChatSpec, ChatInvariant

\* What the last open of a thread has shown counts as read, however opens of
\* several devices overlap.
THEOREM OpeningClears == ChatSpec => []LastOpenClears
  <1>1. ChatInvariant => LastOpenClears
    <2> SUFFICES ASSUME ChatInvariant, NEW m \in Matches, NEW u \in Users, Exists(m),
                        NEW x \in Thread(m), x.at \in opened[<<m, u>>].last
                 PROVE  ~Unread(x, u)
      BY DEF LastOpenClears
    <2>1. x \in MessageRows /\ x.match = m
      BY DEF Thread, ChatInvariant, ChatTypeOK
    <2>2. x.at <= matches[m].readAt[u]
      BY DEF ChatInvariant, WatermarkKnows, Upto
    <2>3. x.at \in Nat /\ matches[m].readAt[u] \in Nat
      BY <2>1, TimesAreNat DEF MessageRows, Exists, MatchRows
    <2> QED BY <2>1, <2>2, <2>3 DEF Unread
  <1> QED BY <1>1, ChatInitially, ChatInductive, PTL DEF ChatSpec

\* What the badge counts, a card shows.
THEOREM BadgesCanBeCleared == ChatSpec => []BadgeHasACard
  <1>1. ChatInvariant => BadgeHasACard
    <2> SUFFICES ASSUME ChatInvariant, NEW u \in Users,
                        ~ \E m \in Cards(u) : NeedsAttention(m, u)
                 PROVE  ~(Total(u) > 0)
      BY DEF BadgeHasACard
    <2>1. PendingOrAccepted(u) = {} /\ OffersIn(u) = {}
      <3>1. PendingOrAccepted(u) \subseteq Cards(u) /\ OffersIn(u) \subseteq Cards(u)
        BY DEF PendingOrAccepted, OffersIn, Cards, OnlyPeerDone
      <3> QED BY <3>1 DEF NeedsAttention
    <2>2. UnreadBadge(u) = 0
      <3>1. Counted(u) \subseteq Cards(u)
        BY DEF Counted, Cards, OnlyPeerDone, InProgress
      <3> QED BY <3>1 DEF NeedsAttention, UnreadBadge
    <2>3. Total(u) = 0
      BY <2>1, <2>2, FS_EmptySet DEF Total
    <2> QED BY <2>3
  <1> QED BY <1>1, ChatInitially, ChatInductive, PTL DEF ChatSpec
=============================================================================
