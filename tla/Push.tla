-------------------------------- MODULE Push --------------------------------
(***************************************************************************)
(* Web push: the browsers that subscribe, and the tasks that tell a user   *)
(* what the other side of a match did.  A task is spawned beside the       *)
(* request, reads the subscriptions of its reader once and posts to one    *)
(* endpoint after the other, while browsers come, go and change hands.     *)
(*                                                                         *)
(* External: the push service.  It accepts a message, reports an endpoint  *)
(* gone (404 or 410) for good, or fails.                                   *)
(***************************************************************************)
EXTENDS Parties

CONSTANTS
    Endpoints,  \* push_subscriptions.endpoint, https URLs of browsers
    Deals       \* the matches: pairs of user1 and user2

ASSUME DealAssumption == Deals \subseteq {d \in Users \X Users : d[1] # d[2]}

VARIABLES
    enabled,     \* VAPID is configured: sender.is_enabled()
    owner,       \* push_subscriptions: the user of each endpoint
    dead,        \* the endpoints the push service has given up
    registered,  \* history: the users each endpoint was registered for
    delivered,   \* history: what was delivered where, to whom, from whom
    job          \* per session: the request or task

pushVars == <<enabled, owner, dead, registered, delivered, job>>

Notices == [op: {"spawned", "sending"}, reader: Users, actor: Users,
            left: SUBSET Endpoints]
PushJobs == {Idle} \cup Notices
            \cup [op: {"pruning"}, reader: Users, actor: Users,
                  left: SUBSET Endpoints, endpoint: Endpoints]
            \cup [op: {"unsubscribe"}, user: Users, endpoint: Endpoints]

PushTypeOK ==
    /\ enabled \in BOOLEAN
    /\ owner \in [Endpoints -> Users \cup {NoUser}]
    /\ dead \subseteq Endpoints
    /\ registered \in [Endpoints -> SUBSET Users]
    /\ delivered \subseteq [at: Endpoints, reader: Users, actor: Users]
    /\ job \in [Sessions -> PushJobs]

PushInit ==
    /\ enabled \in BOOLEAN
    /\ owner = [e \in Endpoints |-> NoUser]
    /\ dead = {}
    /\ registered = [e \in Endpoints |-> {}]
    /\ delivered = {}
    /\ job = [s \in Sessions |-> Idle]

SetJob(s, j) == job' = [job EXCEPT ![s] = j]

-----------------------------------------------------------------------------
(***************************************************************************)
(* Subscriptions                                                           *)
(***************************************************************************)
\* One row per endpoint: a later registration takes it over.
upsert_push_subscription(u, e) ==
    /\ owner' = [owner EXCEPT ![e] = u]
    /\ registered' = [registered EXCEPT ![e] = @ \cup {u}]
    /\ UNCHANGED <<enabled, dead, delivered, job>>

Unsubscribe(s, u, e) ==
    /\ job[s] = Idle
    /\ SetJob(s, [op |-> "unsubscribe", user |-> u, endpoint |-> e])
    /\ UNCHANGED <<enabled, owner, dead, registered, delivered>>

delete_by_endpoint(u, e) ==
    IF owner[e] = u THEN [owner EXCEPT ![e] = NoUser] ELSE owner

delete_push_subscription(s) ==
    /\ job[s].op = "unsubscribe"
    /\ owner' = delete_by_endpoint(job[s].user, job[s].endpoint)
    /\ SetJob(s, Idle)
    /\ UNCHANGED <<enabled, dead, registered, delivered>>

EndpointDies(e) ==
    /\ dead' = dead \cup {e}
    /\ UNCHANGED <<enabled, owner, registered, delivered, job>>

-----------------------------------------------------------------------------
(***************************************************************************)
(* Notices                                                                 *)
(***************************************************************************)
other_participant(d, actor) == IF actor = d[1] THEN d[2] ELSE d[1]

\* An offer, an acceptance, a message or a match of d, on actor's part.
schedule_notify_from_actor(s, d, actor) ==
    /\ job[s] = Idle
    /\ actor \in {d[1], d[2]}
    /\ SetJob(s, [op |-> "spawned", reader |-> other_participant(d, actor),
                  actor |-> actor, left |-> {}])
    /\ UNCHANGED <<enabled, owner, dead, registered, delivered>>

\* Mutant: every subscription there is.
ListAll(u) == {e \in Endpoints : owner[e] \in Users /\ u \in Users}

list_by_user(u) == {e \in Endpoints : owner[e] = u}

Rest(s, e) == IF job[s].left = {e} THEN Idle
              ELSE [op |-> "sending", reader |-> job[s].reader, actor |-> job[s].actor,
                    left |-> job[s].left \ {e}]

notify_user(s) ==
    LET subs == list_by_user(job[s].reader) IN
    /\ job[s].op = "spawned"
    /\ SetJob(s, IF enabled /\ subs # {}
                 THEN [job[s] EXCEPT !.op = "sending", !.left = subs]
                 ELSE Idle)
    /\ UNCHANGED <<enabled, owner, dead, registered, delivered>>

Delivered(s) ==
    /\ job[s].op = "sending"
    /\ \E e \in job[s].left \ dead :
        /\ delivered' = delivered \cup
             {[at |-> e, reader |-> job[s].reader, actor |-> job[s].actor]}
        /\ SetJob(s, Rest(s, e))
    /\ UNCHANGED <<enabled, owner, dead, registered>>

SendFails(s) ==
    /\ job[s].op = "sending"
    /\ \E e \in job[s].left : SetJob(s, Rest(s, e))
    /\ UNCHANGED <<enabled, owner, dead, registered, delivered>>

\* Mutant: any answer that is no success.
AnyFailure(e) == e \in Endpoints

\* The answers of the push service that make the row go.
GoneFor(e) == e \in dead

SubscriptionGone(s) ==
    /\ job[s].op = "sending"
    /\ \E e \in job[s].left :
        /\ GoneFor(e)
        /\ SetJob(s, [op |-> "pruning", reader |-> job[s].reader,
                      actor |-> job[s].actor, left |-> job[s].left, endpoint |-> e])
    /\ UNCHANGED <<enabled, owner, dead, registered, delivered>>

Prune(s) ==
    /\ job[s].op = "pruning"
    /\ owner' = delete_by_endpoint(job[s].reader, job[s].endpoint)
    /\ SetJob(s, Rest(s, job[s].endpoint))
    /\ UNCHANGED <<enabled, dead, registered, delivered>>

PushNext ==
    \/ \E e \in Endpoints : EndpointDies(e) \/ \E u \in Users : upsert_push_subscription(u, e)
    \/ \E s \in Sessions :
        \/ \E u \in Users, e \in Endpoints : Unsubscribe(s, u, e)
        \/ \E d \in Deals, u \in Users : schedule_notify_from_actor(s, d, u)
        \/ delete_push_subscription(s) \/ notify_user(s)
        \/ Delivered(s) \/ SendFails(s) \/ SubscriptionGone(s) \/ Prune(s)

PushSpec == PushInit /\ [][PushNext]_pushVars

-----------------------------------------------------------------------------
\* A subscription goes because its owner says so or because the push service
\* has given the endpoint up, and never because of another user's call or a
\* failure that may pass (ADR 0015).
RowsGoForACause ==
    [][\A e \in Endpoints :
        owner[e] \in Users /\ owner'[e] = NoUser =>
            \/ e \in dead
            \/ \E s \in Sessions : job[s] = [op |-> "unsubscribe", user |-> owner[e],
                                             endpoint |-> e]]_pushVars

\* A notice is delivered to browsers its reader registered, and tells what
\* somebody else did, also when browsers change hands while it is on its way.
NoticesReachTheirReader ==
    \A n \in delivered : n.reader \in registered[n.at] /\ n.reader # n.actor

=============================================================================
