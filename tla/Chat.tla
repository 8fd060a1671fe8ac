-------------------------------- MODULE Chat --------------------------------
(***************************************************************************)
(* The chat of a match: messages, the read watermark of each participant,  *)
(* the unread numbers on the match cards and on the navigation badge, and  *)
(* the two ways staff removes a match.                                     *)
(*                                                                         *)
(* Every statement outside a transaction commits by itself.  NOW() is the  *)
(* time its transaction began, so a row shows up later than its timestamp  *)
(* says: drawing the time and committing the row are two steps.  No two    *)
(* statements draw the same time.                                          *)
(*                                                                         *)
(* The status of a match is the business of TradeLifecycle; here it moves  *)
(* by the steps that module allows, whoever takes them.                    *)
(***************************************************************************)
EXTENDS Parties, Integers, FiniteSets

CONSTANTS
    Matches,      \* matches.id, all of one merchandise group
    Between,      \* per match: user1 and user2
    MaxMessages,  \* bound: messages ever sent, notices included
    MaxClock      \* bound: times ever drawn

ASSUME ChatAssumption ==
    /\ \A m \in Matches : Between[m] \in Users \X Users /\ Between[m][1] # Between[m][2]
    /\ MaxMessages \in Nat /\ MaxClock \in Nat

VARIABLES
    group,     \* merchandise_groups: the group's row
    matches,   \* matches: status, proposer, who completed, watermarks
    messages,  \* messages
    opened,    \* history: per match and user, what the opened threads showed
    clock,     \* the last time drawn
    call       \* per session: the request served and what it holds

chatVars == <<group, matches, messages, opened, clock, call>>

Never == 0
Times == 0..MaxClock

InProgress == {"PENDING", "OFFERED", "ACCEPTED"}
Unborn == [status |-> "unborn"]
Gone == [status |-> "gone"]
MatchRows ==
    [status: InProgress \cup {"COMPLETED", "REJECTED", "CANCELLED"},
     offeredBy: Users \cup {NoUser},
     completed: SUBSET Users,
     readAt: [Users -> Times]]
\* The time of a message serves as its id.
MessageRows == [match: Matches, sender: Users, type: {"TEXT", "SYSTEM"}, at: Times]

Exists(m) == matches[m] \in MatchRows
Participants(m) == {Between[m][1], Between[m][2]}
Thread(m) == {x \in messages : x.match = m}
Room == Cardinality(messages) < MaxMessages

Calls ==
    {Idle}
    \cup [op: {"list", "stamp"}, user: Users, match: Matches, shown: SUBSET Times]
    \cup [op: {"marking"}, user: Users, match: Matches, shown: SUBSET Times, at: Times]
    \cup [op: {"sending"}, user: Users, match: Matches, at: Times]
    \cup [op: {"clearing"}]
    \cup [op: {"removing"}, doomed: SUBSET MessageRows]
    \cup [op: {"removed"}, doomed: SUBSET MessageRows, dropped: SUBSET Matches]

ChatTypeOK ==
    /\ matches \in [Matches -> MatchRows \cup {Unborn, Gone}]
    /\ group \in {"live", "gone"}
    /\ messages \subseteq MessageRows
    /\ opened \in [Matches \X Users -> [last: SUBSET Times, ever: SUBSET Times]]
    /\ clock \in Times
    /\ call \in [Sessions -> Calls]

-----------------------------------------------------------------------------
(***************************************************************************)
(* What a user is told                                                     *)
(***************************************************************************)
\* The same condition in list_for_user and in notification_counts.
Unread(x, u) ==
    /\ x.sender # u
    /\ x.type # "SYSTEM"
    /\ x.at > matches[x.match].readAt[u]

UnreadCount(m, u) == Cardinality({x \in Thread(m) : Unread(x, u)})

\* The cards of list_for_user.
Cards(u) ==
    {m \in Matches : Exists(m) /\ u \in Participants(m) /\ matches[m].status # "REJECTED"}

\* Completed by the other side, not yet by this user.
OnlyPeerDone(m, u) == matches[m].status = "COMPLETED" /\ u \notin matches[m].completed

\* Mutant: whatever the status.
CountedAll(u) == {m \in Matches : Exists(m) /\ u \in Participants(m)}

\* The matches whose unread messages reach the badge of notification_counts.
Counted(u) ==
    {m \in Matches :
        /\ Exists(m)
        /\ u \in Participants(m)
        /\ matches[m].status \in InProgress \/ OnlyPeerDone(m, u)}

OffersIn(u) == {m \in Matches : /\ Exists(m)
                                /\ u \in Participants(m)
                                /\ matches[m].status = "OFFERED"
                                /\ matches[m].offeredBy \in Users \ {u}}

PendingOrAccepted(u) ==
    {m \in Matches :
        /\ Exists(m)
        /\ u \in Participants(m)
        /\ matches[m].status \in {"PENDING", "ACCEPTED"} \/ OnlyPeerDone(m, u)}

UnreadBadge(u) == IF \E m \in Counted(u) : UnreadCount(m, u) > 0 THEN 1 ELSE 0

Total(u) == Cardinality(PendingOrAccepted(u)) + Cardinality(OffersIn(u)) + UnreadBadge(u)

-----------------------------------------------------------------------------
Fresh == [status |-> "PENDING", offeredBy |-> NoUser, completed |-> {},
          readAt |-> [u \in Users |-> Never]]

ChatInit ==
    /\ group = "live"
    /\ matches = [m \in Matches |-> Unborn]
    /\ messages = {}
    /\ opened = [x \in Matches \X Users |-> [last |-> {}, ever |-> {}]]
    /\ clock = Never
    /\ call = [s \in Sessions |-> Idle]

Draw == clock < MaxClock /\ clock' = clock + 1

\* The removal that has deleted the match in its open transaction, if any,
\* makes every writer of the row and every new message wait.
Locked(m) == \E s \in Sessions : call[s].op = "removed" /\ m \in call[s].dropped

SetCall(s, c) == call' = [call EXCEPT ![s] = c]

(***************************************************************************)
(* list_messages: the participant check, the list, then the watermark.     *)
(***************************************************************************)
OpenThread(s, u, m) ==
    /\ call[s] = Idle
    /\ Exists(m) /\ u \in Participants(m)
    /\ SetCall(s, [op |-> "list", user |-> u, match |-> m, shown |-> {}])
    /\ UNCHANGED <<group, matches, messages, opened, clock>>

\* Of the whole thread, what is news to its reader.
FromPeer(m, u) == {x.at : x \in {y \in Thread(m) : y.sender # u}}

list_for_match(s) ==
    /\ call[s].op = "list"
    /\ SetCall(s, [call[s] EXCEPT !.op = "stamp",
                                  !.shown = FromPeer(call[s].match, call[s].user)])
    /\ UNCHANGED <<group, matches, messages, opened, clock>>

StartMark(s) ==
    /\ call[s].op = "stamp"
    /\ Draw
    /\ SetCall(s, [op |-> "marking", user |-> call[s].user, match |-> call[s].match,
                   shown |-> call[s].shown, at |-> clock'])
    /\ UNCHANGED <<group, matches, messages, opened>>

\* Mutant: the watermark first, the list after it.
ShownLate(s) == FromPeer(call[s].match, call[s].user)

\* What the thread shows by the time the answer is sent.
Shown(s) == call[s].shown

\* The update takes NOW() from its start, however long it waited for the row.
mark_messages_read(s) ==
    LET c == call[s] IN
    /\ c.op = "marking"
    /\ ~Locked(c.match)
    /\ matches' = IF Exists(c.match)
                  THEN [matches EXCEPT ![c.match].readAt[c.user] = c.at]
                  ELSE matches
    /\ opened' = [opened EXCEPT ![<<c.match, c.user>>] =
                    [last |-> Shown(s), ever |-> @.ever \cup Shown(s)]]
    /\ SetCall(s, Idle)
    /\ UNCHANGED <<group, messages, clock>>

(***************************************************************************)
(* send_message, from a participant                                        *)
(***************************************************************************)
SendMessage(s, u, m) ==
    /\ call[s] = Idle
    /\ Exists(m) /\ u \in Participants(m)
    /\ Room
    /\ Draw
    /\ SetCall(s, [op |-> "sending", user |-> u, match |-> m, at |-> clock'])
    /\ UNCHANGED <<group, matches, messages, opened>>

\* Mutant: no foreign key, the check at the start of the handler decides.
NoReference(m) == m \in Matches

\* messages.match_id REFERENCES matches: without the match the insert fails.
MatchToReferTo(m) == Exists(m)

send(s) ==
    LET c == call[s] IN
    /\ c.op = "sending"
    /\ ~Locked(c.match)
    /\ Room
    /\ messages' = IF MatchToReferTo(c.match)
                   THEN messages \cup {[match |-> c.match,
                                        sender |-> c.user, type |-> "TEXT", at |-> c.at]}
                   ELSE messages
    /\ SetCall(s, Idle)
    /\ UNCHANGED <<group, matches, opened, clock>>

-----------------------------------------------------------------------------
(***************************************************************************)
(* The life of the match, as far as the chat sees it                       *)
(***************************************************************************)
Becomes(m, row) ==
    /\ ~Locked(m)
    /\ matches' = [matches EXCEPT ![m] = row]
    /\ UNCHANGED <<group, opened, call>>

Quietly == UNCHANGED <<messages, clock>>

\* The system speaks in the name of user1.
Notice(m) ==
    /\ Room
    /\ Draw
    /\ messages' = messages \cup {[match |-> m, sender |-> Between[m][1],
                                   type |-> "SYSTEM", at |-> clock']}

\* The matcher, as long as it sees the merch of the group.
InsertMatch(m) ==
    /\ group = "live" /\ matches[m] = Unborn
    /\ Becomes(m, Fresh)
    /\ Quietly

Offer(m, u) ==
    /\ Exists(m) /\ u \in Participants(m)
    /\ matches[m].status \in {"PENDING", "OFFERED"}
    /\ Becomes(m, [matches[m] EXCEPT !.status = "OFFERED", !.offeredBy = u])
    /\ Quietly

Accept(m) ==
    /\ Exists(m) /\ matches[m].status = "OFFERED"
    /\ Becomes(m, [matches[m] EXCEPT !.status = "ACCEPTED"])
    /\ Quietly

Reject(m) ==
    /\ Exists(m) /\ matches[m].status \in {"PENDING", "OFFERED"}
    /\ Becomes(m, [matches[m] EXCEPT !.status = "REJECTED"])
    /\ Quietly

Complete(m, u) ==
    /\ Exists(m) /\ u \in Participants(m)
    /\ matches[m].status = "ACCEPTED" \/ OnlyPeerDone(m, u)
    /\ Becomes(m, [matches[m] EXCEPT !.status = "COMPLETED", !.completed = @ \cup {u}])
    /\ Quietly

SystemCancel(m) ==
    /\ Exists(m) /\ matches[m].status \in InProgress
    /\ Becomes(m, [matches[m] EXCEPT !.status = "CANCELLED"])
    /\ Notice(m)

Reopen(m) ==
    /\ Exists(m) /\ matches[m].status \in {"REJECTED", "CANCELLED"}
    /\ Becomes(m, [matches[m] EXCEPT !.status = "PENDING", !.offeredBy = NoUser])
    /\ Notice(m)

-----------------------------------------------------------------------------
(***************************************************************************)
(* Removal: delete_match is one statement and the foreign key of messages  *)
(* refuses it for a match with a chat.  remove_for_admin deletes messages, *)
(* then matches, in one transaction; a message that arrived in between     *)
(* makes the second delete fail and undoes the first.                      *)
(***************************************************************************)
delete_match(m) ==
    /\ Exists(m) /\ ~Locked(m)
    /\ Thread(m) = {}
    /\ matches' = [matches EXCEPT ![m] = Gone]
    /\ UNCHANGED <<group, messages, opened, clock, call>>

BeginRemoval(s) ==
    /\ call[s] = Idle
    /\ group = "live"
    /\ \A t \in Sessions : call[t].op \notin {"clearing", "removing", "removed"}
    /\ SetCall(s, [op |-> "clearing"])
    /\ UNCHANGED <<group, matches, messages, opened, clock>>

RemoveMessages(s) ==
    /\ call[s].op = "clearing"
    /\ SetCall(s, [op |-> "removing", doomed |-> messages])
    /\ UNCHANGED <<group, matches, messages, opened, clock>>

StillReferenced(s) == \E x \in messages \ call[s].doomed : Exists(x.match)

RemoveMatches(s) ==
    /\ call[s].op = "removing"
    /\ IF StillReferenced(s)
       THEN SetCall(s, Idle)
       ELSE SetCall(s, [op |-> "removed", doomed |-> call[s].doomed,
                        dropped |-> {m \in Matches : Exists(m)}])
    /\ UNCHANGED <<group, matches, messages, opened, clock>>

CommitRemoval(s) ==
    /\ call[s].op = "removed"
    /\ group' = "gone"
    /\ messages' = messages \ call[s].doomed
    /\ matches' = [m \in Matches |-> IF m \in call[s].dropped THEN Gone ELSE matches[m]]
    /\ SetCall(s, Idle)
    /\ UNCHANGED <<opened, clock>>

ChatNext ==
    \/ \E s \in Sessions :
        \/ \E u \in Users, m \in Matches : OpenThread(s, u, m) \/ SendMessage(s, u, m)
        \/ list_for_match(s) \/ StartMark(s) \/ mark_messages_read(s) \/ send(s)
        \/ BeginRemoval(s) \/ RemoveMessages(s) \/ RemoveMatches(s) \/ CommitRemoval(s)
    \/ \E m \in Matches :
        \/ InsertMatch(m) \/ Accept(m) \/ Reject(m) \/ SystemCancel(m) \/ Reopen(m) \/ delete_match(m)
        \/ \E u \in Users : Offer(m, u) \/ Complete(m, u)

ChatSpec == ChatInit /\ [][ChatNext]_chatVars
=============================================================================
