--------------------------- MODULE ChatProperties ---------------------------
(***************************************************************************)
(* What a user may conclude from badges, cards and threads.                *)
(***************************************************************************)
EXTENDS Chat

\* A match cannot be removed from under its chat: no message refers to a match
\* that is gone, whether the message or the removal came first.
MessagesHaveAMatch == \A x \in messages : Exists(x.match)

\* What the navigation badge counts, a card shows: a status to act on or
\* unread messages.  Otherwise the user could never make the badge go away.
NeedsAttention(m, u) ==
    \/ m \in PendingOrAccepted(u) \cup OffersIn(u)
    \/ UnreadCount(m, u) > 0
BadgeHasACard ==
    \A u \in Users : Total(u) > 0 => \E m \in Cards(u) : NeedsAttention(m, u)

\* Whatever the open that stamped last has shown counts as read (#535), also
\* when opens of two devices overlap and the earlier stamp comes last.
LastOpenClears ==
    \A m \in Matches, u \in Users : Exists(m) =>
        \A x \in Thread(m) : x.at \in opened[<<m, u>>].last => ~Unread(x, u)

\* A message of the peer counts as read only after it has been shown.
ReadMeansSeen ==
    \A m \in Matches : Exists(m) =>
        \A u \in Participants(m) : \A x \in Thread(m) :
            x.type # "SYSTEM" /\ x.sender # u /\ ~Unread(x, u)
                => x.at \in opened[<<m, u>>].ever
=============================================================================
