------------------------------- MODULE Access -------------------------------
(***************************************************************************)
(* Users, bans, roles, events and merchandise groups: the requests that    *)
(* change them, each a chain of statements of its own.  A handler verifies *)
(* its caller, reads the row it is about, asks for a permission, looks at  *)
(* the target and writes; nothing holds what an earlier statement has read *)
(* until a later one uses it, so other requests run in between.  Only the  *)
(* ownership transfers and the removals lock a row, and read it again.     *)
(*                                                                         *)
(* A transaction whose outcome depends on rows it locks is one step.       *)
(***************************************************************************)
EXTENDS AccessRules, Sequences

CONSTANTS
    Sessions,    \* concurrent requests
    GroupNames,  \* group names without blanks around them
    RawNames,    \* group names as requests spell them
    Trim,        \* str::trim of a raw name, NoName when nothing is left
    NoName,
    MerchIds,    \* merchandise.id
    MerchNames,  \* merchandise.name
    Labels,      \* the texts of an event's name or a group's description
    NoLabel,     \* the empty text
    Settings,    \* the situations to look at
    Start,       \* per setting: the tables it starts from
    Workload,    \* per setting: the requests that are sent
    Servers      \* per setting: the sessions that serve them

ASSUME NameAssumption ==
    /\ NoName \notin GroupNames
    /\ NoLabel \in Labels
    /\ GroupNames \subseteq RawNames
    /\ Trim \in [RawNames -> GroupNames \cup {NoName}]
    /\ \A n \in GroupNames : Trim[n] = n

VARIABLES
    roles,   \* user_roles
    bans,    \* users.is_banned and banned_until
    events,  \* events
    groups,  \* merchandise_groups
    merch,   \* merchandise, written by Catalog
    tx,      \* per session: the request served and what it has read
    setting  \* which of Settings this is

tables == <<roles, bans, events, groups, merch, setting>>
vars == <<tables, tx>>

-----------------------------------------------------------------------------
(***************************************************************************)
(* Rows.  Ids are serial: an id is used once and never again.              *)
(***************************************************************************)
Owners == Users \cup {NoUser}
Unused == [state |-> "unused"]
Gone == [state |-> "gone"]
EventRows == [state: {"draft", "published"}, creator: Owners, label: Labels]
GroupRows == [state: {"live"}, event: Events, name: GroupNames, creator: Owners,
              label: Labels]
MerchRows == [state: {"draft", "published", "deleted"}, event: Events,
              name: MerchNames, group: RawNames, creator: Owners]

StartingTables ==
    [roles: SUBSET Assignments,
     events: [Events -> EventRows \cup {Unused}],
     groups: [GroupIds -> GroupRows \cup {Unused}]]

ASSUME StartAssumption ==
    /\ Settings \subseteq DOMAIN Start
    /\ \A x \in Settings : Start[x] \in StartingTables

\* The backfill of the RBAC migrations: the owner of a row, and nobody else,
\* holds its creator role.
HoldersOf(rows, scope) == {u \in Users : <<u, "creator", scope>> \in rows}
OwnerSet(row) == IF row = Unused THEN {} ELSE {row.creator} \ {NoUser}
ASSUME BackfillAssumption ==
    \A x \in Settings :
        /\ \A e \in Events :
            HoldersOf(Start[x].roles, EventScope(e)) = OwnerSet(Start[x].events[e])
        /\ \A g \in GroupIds :
            HoldersOf(Start[x].roles, GroupScope(g)) = OwnerSet(Start[x].groups[g])

EventExists(e) == events[e] \in EventRows
GroupExists(g) == groups[g] \in GroupRows
MerchExists(m) == merch[m] \in MerchRows

\* The rows of a group name: at most one, by UNIQUE (event_id, group_name).
GroupAt(e, n) ==
    {g \in GroupIds : GroupExists(g) /\ groups[g].event = e /\ groups[g].name = n}

CreatorRole(owner, scope) == IF owner = NoUser THEN {} ELSE {<<owner, "creator", scope>>}

(***************************************************************************)
(* Bans.  get_verified lets a temporary ban expire; the flag stays set.    *)
(***************************************************************************)
BanStates == {"none", "temporary", "permanent", "expired"}
EffectivelyBanned(u) == bans[u] \in {"temporary", "permanent"}
FlaggedBanned(u) == bans[u] # "none"

-----------------------------------------------------------------------------
(***************************************************************************)
(* Requests                                                                *)
(***************************************************************************)
Requests ==
    [op: {"setRole"}, user: Users, target: Users, role: GlobalRoles]
    \cup [op: {"ban"}, user: Users, target: Users, until: BanStates \ {"none"}]
    \cup [op: {"unban"}, user: Users, target: Users]
    \cup [op: {"createEvent"}, user: Users, state: {"draft", "published"},
          label: Labels]
    \cup [op: {"updateEvent"}, user: Users, event: Events, label: Labels]
    \cup [op: {"publishEvent", "deleteEvent"}, user: Users, event: Events]
    \cup [op: {"transferEvent", "adminTransferEvent", "assignEventEditor",
                     "revokeEventEditor", "adminAssignEventEditor",
                     "adminRevokeEventEditor"},
          user: Users, event: Events, target: Users]
    \cup [op: {"createGroup", "updateGroup"}, user: Users, event: Events,
          name: RawNames, label: Labels]
    \cup [op: {"removeGroup"}, user: Users, event: Events, name: RawNames]
    \cup [op: {"transferGroup", "adminTransferGroup", "assignGroupEditor",
                     "revokeGroupEditor"},
          user: Users, event: Events, name: RawNames, target: Users]
    \cup [op: {"createMerch"}, user: Users, event: Events, name: MerchNames,
          group: RawNames, state: {"draft", "published"}]
    \cup [op: {"renameMerch"}, user: Users, event: Events, merch: MerchIds,
          name: MerchNames]
    \cup [op: {"moveMerch"}, user: Users, event: Events, merch: MerchIds,
          group: RawNames]
    \cup [op: {"publishMerch", "deleteMerch"}, user: Users, event: Events,
          merch: MerchIds]
    \cup [op: {"adminDeleteMerch"}, user: Users, merch: MerchIds]

ASSUME WorkloadAssumption ==
    /\ Workload \in [Settings -> SUBSET Requests]
    /\ Servers \in [Settings -> SUBSET Sessions]

(***************************************************************************)
(* Handlers: the statements each one runs after it has verified its        *)
(* caller, the permission it asks for, and the scope it asks for it in.    *)
(* "allow" is a check, "own" a check that ownership replaces.              *)
(***************************************************************************)
Handler(steps, asks, scope) == [steps |-> steps, asks |-> asks, scope |-> scope]

\* Shared prologues, after verify_active.
require_global == <<"allow">>
require_event_member_manage == <<"event", "allow">>
require_group_member_manage == <<"group", "allow">>
require_active_target_user == <<"target">>

update_user_role ==
    Handler(require_global \o <<"clear", "write">>, "user.role.manage", "global")
ban_user == Handler(require_global \o <<"write">>, "user.ban", "global")
unban_user == Handler(require_global \o <<"write">>, "user.unban", "global")

create_event == Handler(require_global \o <<"write">>, "event.create", "global")
update_event == Handler(<<"event", "allow", "write">>, "event.edit", "event")
publish_event == Handler(<<"event", "allow", "write">>, "event.edit", "event")
delete_event == Handler(<<"event", "allow", "write">>, "event.delete", "event")
self_transfer_event_creator ==
    Handler(<<"event">> \o require_active_target_user \o <<"write">>, "", "")
transfer_event_creator ==
    Handler(require_global \o <<"event">> \o require_active_target_user \o <<"write">>,
            "event.creator.transfer", "global")
assign_event_member ==
    Handler(require_event_member_manage \o <<"write">>, "event.member.manage", "event")
revoke_event_member ==
    Handler(require_event_member_manage \o <<"write">>, "event.member.manage", "event")
admin_assign_event_member ==
    Handler(require_global \o <<"event", "write">>, "event.member.manage.any", "global")
admin_revoke_event_member ==
    Handler(require_global \o <<"event", "write">>, "event.member.manage.any", "global")

create_event_group == Handler(<<"event", "allow", "write">>, "merch.create", "event")
update_event_group == Handler(<<"group", "own", "write">>, "group.edit", "event and group")
delete_group == Handler(require_global \o <<"write">>, "group.delete", "global")
self_transfer_group_creator ==
    Handler(<<"group">> \o require_active_target_user \o <<"write">>, "", "")
transfer_group_creator ==
    Handler(require_global \o <<"group">> \o require_active_target_user \o <<"write">>,
            "group.creator.transfer", "global")
assign_group_member ==
    Handler(require_group_member_manage \o <<"write">>, "group.member.manage", "group")
revoke_group_member ==
    Handler(require_group_member_manage \o <<"write">>, "group.member.manage", "group")

create_merch ==
    Handler(<<"event", "allow", "name", "ensure", "write">>, "merch.create", "event")
update_merch == Handler(<<"merch", "own", "name", "write">>, "merch.edit", "event")
publish_merch == Handler(<<"merch", "own", "write">>, "merch.edit", "event")
delete_merch_by_creator == Handler(<<"merch", "own", "write">>, "merch.delete", "event")
delete_merch == Handler(require_global \o <<"write">>, "merch.delete.any", "global")

HandlerOf(op) ==
    CASE op = "setRole" -> update_user_role
      [] op = "ban" -> ban_user
      [] op = "unban" -> unban_user
      [] op = "createEvent" -> create_event
      [] op = "updateEvent" -> update_event
      [] op = "publishEvent" -> publish_event
      [] op = "deleteEvent" -> delete_event
      [] op = "transferEvent" -> self_transfer_event_creator
      [] op = "adminTransferEvent" -> transfer_event_creator
      [] op = "assignEventEditor" -> assign_event_member
      [] op = "revokeEventEditor" -> revoke_event_member
      [] op = "adminAssignEventEditor" -> admin_assign_event_member
      [] op = "adminRevokeEventEditor" -> admin_revoke_event_member
      [] op = "createGroup" -> create_event_group
      [] op = "updateGroup" -> update_event_group
      [] op = "removeGroup" -> delete_group
      [] op = "transferGroup" -> self_transfer_group_creator
      [] op = "adminTransferGroup" -> transfer_group_creator
      [] op = "assignGroupEditor" -> assign_group_member
      [] op = "revokeGroupEditor" -> revoke_group_member
      [] op = "createMerch" -> create_merch
      [] op \in {"renameMerch", "moveMerch"} -> update_merch
      [] op = "publishMerch" -> publish_merch
      [] op = "deleteMerch" -> delete_merch_by_creator
      [] OTHER -> delete_merch

\* A handler asks for a permission the code knows, or for none.
ASSUME PermissionAssumption ==
    \A x \in Settings : \A r \in Workload[x] :
        HandlerOf(r.op).asks \in Permissions \cup {""}

Steps == {"event", "group", "merch", "allow", "own", "target", "name", "ensure",
          "clear", "write"}
NoGroup == "no group"
Idle == [todo |-> <<>>]
Busy == [req: Requests,
         todo: Seq(Steps),
         owner: Owners,                 \* the owner read
         gid: GroupIds \cup {NoGroup},  \* the group read
         seen: SUBSET Assignments]      \* the role rows a statement has found

(***************************************************************************)
(* Every table and request keeps its type.                                 *)
(***************************************************************************)
TypeOK ==
    /\ roles \in SUBSET Assignments
    /\ bans \in [Users -> BanStates]
    /\ events \in [Events -> EventRows \cup {Unused, Gone}]
    /\ groups \in [GroupIds -> GroupRows \cup {Unused, Gone}]
    /\ merch \in [MerchIds -> MerchRows \cup {Unused}]
    /\ tx \in [Sessions -> Busy \cup {Idle}]
    /\ setting \in Settings

Init ==
    /\ setting \in Settings
    /\ roles = Start[setting].roles
    /\ bans = [u \in Users |-> "none"]
    /\ events = Start[setting].events
    /\ groups = Start[setting].groups
    /\ merch = [m \in MerchIds |-> Unused]
    /\ tx = [s \in Sessions |-> Idle]

-----------------------------------------------------------------------------
(***************************************************************************)
(* The statements before the write                                         *)
(***************************************************************************)
At(s, step) == tx[s] # Idle /\ Head(tx[s].todo) = step
Writes(s, ops) == At(s, "write") /\ tx[s].req.op \in ops

Continue(s, owner, gid) ==
    tx' = [tx EXCEPT ![s].todo = Tail(@), ![s].owner = owner, ![s].gid = gid]
Finish(s) == tx' = [tx EXCEPT ![s] = Idle]

\* verify_active: a banned caller is turned away.
Receive(s, r) ==
    /\ tx[s] = Idle
    /\ s \in Servers[setting]
    /\ ~EffectivelyBanned(r.user)
    /\ tx' = [tx EXCEPT ![s] = [req |-> r, todo |-> HandlerOf(r.op).steps, owner |-> NoUser,
                                gid |-> NoGroup, seen |-> {}]]
    /\ UNCHANGED tables

\* A transfer needs another owner than the present one, and a self-service
\* transfer the present owner.
MayTransfer(r, owner) ==
    /\ r.op \in {"transferEvent", "transferGroup"} => owner = r.user
    /\ r.op \in {"transferEvent", "transferGroup", "adminTransferEvent",
                 "adminTransferGroup"} => owner # r.target

ReadEvent(s) ==
    /\ At(s, "event")
    /\ LET e == tx[s].req.event
       IN  /\ EventExists(e)
           /\ MayTransfer(tx[s].req, events[e].creator)
           /\ Continue(s, events[e].creator, NoGroup)
    /\ UNCHANGED tables

ReadGroup(s) ==
    /\ At(s, "group")
    /\ \E g \in GroupAt(tx[s].req.event, tx[s].req.name) :
        /\ MayTransfer(tx[s].req, groups[g].creator)
        /\ Continue(s, groups[g].creator, g)
    /\ UNCHANGED tables

ScopeOf(s) ==
    CASE HandlerOf(tx[s].req.op).scope = "event" -> EventScope(tx[s].req.event)
      [] HandlerOf(tx[s].req.op).scope = "group" -> GroupScope(tx[s].gid)
      [] OTHER -> Global

Authorize(s) ==
    /\ At(s, "allow")
    /\ Check(roles, tx[s].req.user, ScopeOf(s), HandlerOf(tx[s].req.op).asks)
    /\ Continue(s, tx[s].owner, tx[s].gid)
    /\ UNCHANGED tables

\* The scopes in which a permission may replace ownership.
FallbackScopes(s) ==
    {EventScope(tx[s].req.event)}
      \cup (IF HandlerOf(tx[s].req.op).scope = "event and group"
            THEN {GroupScope(tx[s].gid)} ELSE {})

AuthorizeOwner(s) ==
    /\ At(s, "own")
    /\ RequireOwnerOr(roles, tx[s].req.user, tx[s].owner, HandlerOf(tx[s].req.op).asks,
                      FallbackScopes(s))
    /\ Continue(s, tx[s].owner, tx[s].gid)
    /\ UNCHANGED tables

\* The new owner must not carry the ban flag.
ReadTarget(s) ==
    /\ At(s, "target")
    /\ ~FlaggedBanned(tx[s].req.target)
    /\ Continue(s, tx[s].owner, tx[s].gid)
    /\ UNCHANGED tables

\* A check fails, a statement returns an error, or the client hangs up.
Abandon(s) ==
    /\ tx[s] # Idle
    /\ Finish(s)
    /\ UNCHANGED tables

-----------------------------------------------------------------------------
(***************************************************************************)
(* Global roles and bans                                                   *)
(***************************************************************************)
GlobalRows(u) == {r \in roles : r[1] = u /\ r[3] = Global}

\* set_role, first statement: DELETE the global rows the target has.
ClearRoles(s) ==
    /\ At(s, "clear")
    /\ tx' = [tx EXCEPT ![s].todo = Tail(@), ![s].seen = GlobalRows(tx[s].req.target)]
    /\ UNCHANGED tables

\* Second statement and commit: INSERT the new one.  Another set_role whose
\* DELETE ran before this commit does not see the row inserted here.
SetRole(s) ==
    /\ Writes(s, {"setRole"})
    /\ LET r == tx[s].req
       IN  roles' = (roles \ tx[s].seen) \cup {<<r.target, r.role, Global>>}
    /\ tx' = [t \in Sessions |-> IF t = s THEN Idle
                                 ELSE IF tx[t] = Idle THEN Idle
                                 ELSE [tx[t] EXCEPT !.seen = @ \ tx[s].seen]]
    /\ UNCHANGED <<bans, events, groups, merch, setting>>

SetBan(s) ==
    /\ Writes(s, {"ban"})
    /\ bans' = [bans EXCEPT ![tx[s].req.target] = tx[s].req.until]
    /\ Finish(s)
    /\ UNCHANGED <<roles, events, groups, merch, setting>>

LiftBan(s) ==
    /\ Writes(s, {"unban"})
    /\ bans' = [bans EXCEPT ![tx[s].req.target] = "none"]
    /\ Finish(s)
    /\ UNCHANGED <<roles, events, groups, merch, setting>>

\* banned_until passes.
BanExpires(u) ==
    /\ bans[u] = "temporary"
    /\ bans' = [bans EXCEPT ![u] = "expired"]
    /\ UNCHANGED <<roles, events, groups, merch, tx, setting>>

-----------------------------------------------------------------------------
(***************************************************************************)
(* Events                                                                  *)
(***************************************************************************)
CreateEvent(s) ==
    /\ Writes(s, {"createEvent"})
    /\ LET r == tx[s].req
       IN  \E e \in Events :
            /\ events[e] = Unused
            /\ events' = [events EXCEPT ![e] = [state |-> r.state, creator |-> r.user,
                                                label |-> r.label]]
            /\ roles' = roles \cup CreatorRole(r.user, EventScope(e))
    /\ Finish(s)
    /\ UNCHANGED <<bans, groups, merch, setting>>

UpdateEvent(s) ==
    /\ Writes(s, {"updateEvent"})
    /\ EventExists(tx[s].req.event)
    /\ events' = [events EXCEPT ![tx[s].req.event].label = tx[s].req.label]
    /\ Finish(s)
    /\ UNCHANGED <<roles, bans, groups, merch, setting>>

PublishEvent(s) ==
    /\ Writes(s, {"publishEvent"})
    /\ EventExists(tx[s].req.event)
    /\ events' = [events EXCEPT ![tx[s].req.event].state = "published"]
    /\ Finish(s)
    /\ UNCHANGED <<roles, bans, groups, merch, setting>>

\* Merchandise keeps its event, its groups go with it, its roles stay behind.
DeleteEvent(s) ==
    /\ Writes(s, {"deleteEvent"})
    /\ LET e == tx[s].req.event
       IN  /\ EventExists(e)
           /\ \A m \in MerchIds : MerchExists(m) => merch[m].event # e
           /\ events' = [events EXCEPT ![e] = Gone]
           /\ groups' = [g \in GroupIds |-> IF GroupExists(g) /\ groups[g].event = e
                                            THEN Gone ELSE groups[g]]
    /\ Finish(s)
    /\ UNCHANGED <<roles, bans, merch, setting>>

\* Mutant: the previous creator keeps the role.
GrantEventCreator(e, previous, owner) == roles' = roles \cup CreatorRole(owner, EventScope(e))

\* The role moves with the ownership column, in one transaction.
TransferEventRole(e, previous, owner) ==
    roles' = (roles \ CreatorRole(previous, EventScope(e)))
                \cup CreatorRole(owner, EventScope(e))

\* Mutant: the row is not locked, the owner read before the write is trusted.
TransferEventUnlocked(s) ==
    /\ Writes(s, {"transferEvent", "adminTransferEvent"})
    /\ LET r == tx[s].req
       IN  /\ EventExists(r.event)
           /\ events' = [events EXCEPT ![r.event].creator = r.target]
           /\ TransferEventRole(r.event, tx[s].owner, r.target)
    /\ Finish(s)
    /\ UNCHANGED <<bans, groups, merch, setting>>

\* The row is locked, and the conditions of the request are tested on it again.
TransferEvent(s) ==
    /\ Writes(s, {"transferEvent", "adminTransferEvent"})
    /\ LET r == tx[s].req
       IN  /\ EventExists(r.event)
           /\ MayTransfer(r, events[r.event].creator)
           /\ events' = [events EXCEPT ![r.event].creator = r.target]
           /\ TransferEventRole(r.event, events[r.event].creator, r.target)
    /\ Finish(s)
    /\ UNCHANGED <<bans, groups, merch, setting>>

\* The insert has no look at the event any more.
AssignEventEditor(s) ==
    /\ Writes(s, {"assignEventEditor", "adminAssignEventEditor"})
    /\ roles' = roles \cup {<<tx[s].req.target, "editor", EventScope(tx[s].req.event)>>}
    /\ Finish(s)
    /\ UNCHANGED <<bans, events, groups, merch, setting>>

RevokeEventEditor(s) ==
    /\ Writes(s, {"revokeEventEditor", "adminRevokeEventEditor"})
    /\ roles' = roles \ {<<tx[s].req.target, "editor", EventScope(tx[s].req.event)>>}
    /\ Finish(s)
    /\ UNCHANGED <<bans, events, groups, merch, setting>>

-----------------------------------------------------------------------------
(***************************************************************************)
(* Merchandise groups                                                      *)
(***************************************************************************)
NewGroup(e, n, owner, label) ==
    [state |-> "live", event |-> e, name |-> n, creator |-> owner, label |-> label]

\* Mutant: the caller gets the role of a group that is there already (#491).
CreateGroupForCaller(s) ==
    /\ Writes(s, {"createGroup"})
    /\ LET r == tx[s].req
           n == Trim[r.name]
       IN  /\ n # NoName
           /\ EventExists(r.event)
           /\ \/ \E g \in GroupAt(r.event, n) :
                  /\ groups' = [groups EXCEPT ![g].label = r.label]
                  /\ roles' = roles \cup CreatorRole(r.user, GroupScope(g))
              \/ \E g \in GroupIds :
                  /\ GroupAt(r.event, n) = {}
                  /\ groups[g] = Unused
                  /\ groups' = [groups EXCEPT ![g] = NewGroup(r.event, n, r.user, r.label)]
                  /\ roles' = roles \cup CreatorRole(r.user, GroupScope(g))
    /\ Finish(s)
    /\ UNCHANGED <<bans, events, merch, setting>>

\* The upsert keeps the creator of an existing row and makes sure of its role.
CreateGroup(s) ==
    /\ Writes(s, {"createGroup"})
    /\ LET r == tx[s].req
           n == Trim[r.name]
       IN  /\ n # NoName
           /\ EventExists(r.event)
           /\ \/ \E g \in GroupAt(r.event, n) :
                  /\ groups' = [groups EXCEPT ![g].label = r.label]
                  /\ roles' = roles \cup CreatorRole(groups[g].creator, GroupScope(g))
              \/ \E g \in GroupIds :
                  /\ GroupAt(r.event, n) = {}
                  /\ groups[g] = Unused
                  /\ groups' = [groups EXCEPT ![g] = NewGroup(r.event, n, r.user, r.label)]
                  /\ roles' = roles \cup CreatorRole(r.user, GroupScope(g))
    /\ Finish(s)
    /\ UNCHANGED <<bans, events, merch, setting>>

\* The write finds its row by name again.
UpdateGroup(s) ==
    /\ Writes(s, {"updateGroup"})
    /\ \E g \in GroupAt(tx[s].req.event, Trim[tx[s].req.name]) :
        groups' = [groups EXCEPT ![g].label = tx[s].req.label]
    /\ Finish(s)
    /\ UNCHANGED <<roles, bans, events, merch, setting>>

\* The group, the roles in it and the merchandise under its name.
RemoveGroup(s) ==
    /\ Writes(s, {"removeGroup"})
    /\ LET r == tx[s].req
       IN  \E g \in GroupAt(r.event, r.name) :
            /\ groups' = [groups EXCEPT ![g] = Gone]
            /\ roles' = {x \in roles : x[3] # GroupScope(g)}
            /\ merch' = [m \in MerchIds |->
                            IF MerchExists(m) /\ merch[m].event = r.event
                                 /\ merch[m].group = r.name
                            THEN [merch[m] EXCEPT !.state = "deleted"]
                            ELSE merch[m]]
    /\ Finish(s)
    /\ UNCHANGED <<bans, events, setting>>

TransferGroupRole(g, previous, owner) ==
    roles' = (roles \ CreatorRole(previous, GroupScope(g)))
                \cup CreatorRole(owner, GroupScope(g))

TransferGroup(s) ==
    /\ Writes(s, {"transferGroup", "adminTransferGroup"})
    /\ LET r == tx[s].req
       IN  \E g \in GroupAt(r.event, r.name) :
            /\ MayTransfer(r, groups[g].creator)
            /\ groups' = [groups EXCEPT ![g].creator = r.target]
            /\ TransferGroupRole(g, groups[g].creator, r.target)
    /\ Finish(s)
    /\ UNCHANGED <<bans, events, merch, setting>>

\* Both use the id that the permission check was about.
AssignGroupEditor(s) ==
    /\ Writes(s, {"assignGroupEditor"})
    /\ roles' = roles \cup {<<tx[s].req.target, "editor", GroupScope(tx[s].gid)>>}
    /\ Finish(s)
    /\ UNCHANGED <<bans, events, groups, merch, setting>>

RevokeGroupEditor(s) ==
    /\ Writes(s, {"revokeGroupEditor"})
    /\ roles' = roles \ {<<tx[s].req.target, "editor", GroupScope(tx[s].gid)>>}
    /\ Finish(s)
    /\ UNCHANGED <<bans, events, groups, merch, setting>>

=============================================================================
