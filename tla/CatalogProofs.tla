---------------------------- MODULE CatalogProofs ---------------------------
(***************************************************************************)
(* Users, roles, events, groups and merchandise, for any number of them    *)
(* and any requests at the same time.                                      *)
(***************************************************************************)
EXTENDS CatalogProperties, SequenceTheorems, TLAPS

-----------------------------------------------------------------------------
(***************************************************************************)
(* The inductive invariant.  Of a request on its way: its statements end   *)
(* with the write, only set_role clears roles and only create_merch makes  *)
(* sure of a group, each has found the rows it may have found, an update   *)
(* of an item is about an item of its event, and a set_role that has been  *)
(* allowed was so in a system with an admin.  Of an event that was not     *)
(* deleted: its owner, and nobody else, holds its creator role, before it  *)
(* exists too.                                                             *)
(***************************************************************************)
GroupEditorOps == {"assignGroupEditor", "revokeGroupEditor"}
MerchUpdateOps == {"renameMerch", "moveMerch"}

Chain(todo, op) ==
    /\ todo \in Seq(Steps)
    /\ Len(todo) > 0
    /\ todo[Len(todo)] = "write"
    /\ \A i \in 1..Len(todo) :
        /\ todo[i] = "write" => i = Len(todo)
        /\ todo[i] = "clear" => op = "setRole"
        /\ todo[i] = "ensure" => op = "createMerch"
        /\ op \in GroupEditorOps => todo[i] \in {"group", "allow", "write"}

OfEvent(r) == MerchExists(r.merch) /\ merch[r.merch].event = r.event

AdminAtStart == HasAdmin(Start[setting].roles)

SeenBy(op, seen) ==
    /\ op = "setRole" => \A r \in seen : r[3] = Global
    /\ op = "createMerch" => \A r \in seen : r[2] = "creator" /\ r[3] \in GroupScopes

Knows(b) ==
    /\ Chain(b.todo, b.req.op)
    /\ SeenBy(b.req.op, b.seen)
    /\ b.req.op = "setRole" => Head(b.todo) = "allow" \/ AdminAtStart
    /\ b.req.op \in GroupEditorOps => Head(b.todo) = "group" \/ b.gid \in GroupIds
    /\ b.req.op \in MerchUpdateOps => Head(b.todo) = "merch" \/ OfEvent(b.req)
    /\ b.req.op = "createMerch" =>
        (\E i \in 1..Len(b.todo) : b.todo[i] = "name") \/ Trim[b.req.group] # NoName

RequestsKnow == \A s \in Sessions : tx[s] # Idle => Knows(tx[s])

EventOwnersKnown ==
    \A e \in Events : events[e] # Gone => Holders(EventScope(e)) = OwnerSet(events[e])

CatalogInvariant ==
    /\ TypeOK
    /\ LiveNamesUnique
    /\ EventOwnersKnown
    /\ HasAdmin(roles) => AdminAtStart
    /\ RequestsKnow

-----------------------------------------------------------------------------
(***************************************************************************)
(* The chains of statements                                                *)
(***************************************************************************)
LEMMA Chains ==
    ASSUME NEW op
    PROVE  /\ Chain(<<"write">>, op)
           /\ op = "setRole" => Chain(<<"clear", "write">>, op)
           /\ op \notin GroupEditorOps =>
                /\ Chain(<<"event", "write">>, op)
                /\ Chain(<<"event", "allow", "write">>, op)
                /\ Chain(<<"group", "own", "write">>, op)
                /\ Chain(<<"merch", "own", "write">>, op)
                /\ Chain(<<"merch", "own", "name", "write">>, op)
           /\ op = "createMerch" => Chain(<<"event", "allow", "name", "ensure", "write">>, op)
  BY DEF Chain, Steps, GroupEditorOps

LEMMA LongerChain ==
    ASSUME NEW a \in Seq({"event", "group", "allow", "target"}), NEW b, NEW op, Chain(b, op),
           op \in GroupEditorOps => a \in Seq({"group", "allow"})
    PROVE  Chain(a \o b, op)
  <1>1. a \in Seq(Steps) /\ b \in Seq(Steps)
    <2>1. \A i \in 1..Len(a) : a[i] \in Steps
      BY DEF Steps
    <2> QED BY <2>1 DEF Chain
  <1>2. /\ a \o b \in Seq(Steps)
        /\ Len(a \o b) = Len(a) + Len(b)
        /\ \A i \in 1..Len(a) + Len(b) :
                (a \o b)[i] = IF i <= Len(a) THEN a[i] ELSE b[i - Len(a)]
    BY <1>1, ConcatProperties
  <1>3. Len(a) \in Nat /\ Len(b) \in Nat /\ Len(b) > 0
    BY <1>1 DEF Chain
  <1>4. (a \o b)[Len(a \o b)] = "write"
    BY <1>2, <1>3 DEF Chain
  <1>5. ASSUME NEW i \in 1..Len(a \o b)
        PROVE  /\ (a \o b)[i] = "write" => i = Len(a \o b)
               /\ (a \o b)[i] = "clear" => op = "setRole"
               /\ (a \o b)[i] = "ensure" => op = "createMerch"
               /\ op \in GroupEditorOps => (a \o b)[i] \in {"group", "allow", "write"}
    <2>1. CASE i <= Len(a)
      <3>1. (a \o b)[i] = a[i] /\ i \in 1..Len(a)
        BY <1>2, <1>3, <2>1
      <3>2. a[i] \in {"event", "group", "allow", "target"}
        BY <3>1
      <3>3. op \in GroupEditorOps => a[i] \in {"group", "allow"}
        BY <3>1
      <3> QED BY <3>1, <3>2, <3>3
    <2>2. CASE i > Len(a)
      <3>1. (a \o b)[i] = b[i - Len(a)] /\ i - Len(a) \in 1..Len(b)
        BY <1>2, <1>3, <2>2
      <3> QED BY <1>2, <1>3, <3>1 DEF Chain
    <2> QED BY <1>2, <1>3, <2>1, <2>2
  <1> QED BY <1>2, <1>3, <1>4, <1>5 DEF Chain

LEMMA ShorterChain ==
    ASSUME NEW todo, NEW op, Chain(todo, op), Head(todo) # "write"
    PROVE  /\ Chain(Tail(todo), op)
           /\ (\E i \in 1..Len(todo) : todo[i] = "name") /\ Head(todo) # "name" =>
                \E i \in 1..Len(Tail(todo)) : Tail(todo)[i] = "name"
  <1>1. Chain(Tail(todo), op)
    BY DEF Chain
  <1>2. ASSUME NEW i \in 1..Len(todo), todo[i] = "name", Head(todo) # "name"
        PROVE  \E j \in 1..Len(Tail(todo)) : Tail(todo)[j] = "name"
    <2>1. i - 1 \in 1..Len(Tail(todo)) /\ Tail(todo)[i - 1] = "name"
      BY <1>2 DEF Chain
    <2> QED BY <2>1
  <1> QED BY <1>1, <1>2

LEMMA FirstOfChain ==
    ASSUME NEW todo, NEW op, Chain(todo, op)
    PROVE  /\ Head(todo) = "clear" => op = "setRole"
           /\ Head(todo) = "ensure" => op = "createMerch"
           /\ op \in GroupEditorOps => Head(todo) \in {"group", "allow", "write"}
           /\ Head(todo) = "write" => \A i \in 1..Len(todo) : todo[i] # "name"
  BY DEF Chain

Ops == {"setRole", "ban", "unban", "createEvent", "updateEvent", "publishEvent", "deleteEvent",
        "transferEvent", "adminTransferEvent", "assignEventEditor", "revokeEventEditor",
        "adminAssignEventEditor", "adminRevokeEventEditor", "createGroup", "updateGroup",
        "removeGroup", "transferGroup", "adminTransferGroup", "assignGroupEditor",
        "revokeGroupEditor", "createMerch", "renameMerch", "moveMerch", "publishMerch",
        "deleteMerch", "adminDeleteMerch"}

LEMMA OpsOfRequests == \A r \in Requests : r.op \in Ops
  BY DEF Requests, Ops

LEMMA HandlerChains ==
    ASSUME NEW op \in Ops
    PROVE  /\ Chain(HandlerOf(op).steps, op)
           /\ op = "setRole" => Head(HandlerOf(op).steps) = "allow"
           /\ op \in GroupEditorOps => Head(HandlerOf(op).steps) = "group"
           /\ op \in MerchUpdateOps => Head(HandlerOf(op).steps) = "merch"
           /\ op = "createMerch" =>
                \E i \in 1..Len(HandlerOf(op).steps) : HandlerOf(op).steps[i] = "name"
  <1> DEFINE Prefix == Seq({"event", "group", "allow", "target"})
  <1>1. ASSUME op \in {"updateEvent", "publishEvent", "deleteEvent", "createGroup"}
        PROVE  Chain(HandlerOf(op).steps, op)
    <2>1. HandlerOf(op).steps = <<"event", "allow", "write">> /\ op \notin GroupEditorOps
      BY <1>1 DEF HandlerOf, Handler, update_event, publish_event, delete_event,
         create_event_group, GroupEditorOps
    <2> QED BY <2>1, Chains
  <1>2. ASSUME op \in {"ban", "unban", "createEvent", "removeGroup", "adminDeleteMerch"}
        PROVE  Chain(HandlerOf(op).steps, op)
    <2>1. HandlerOf(op).steps = <<"allow">> \o <<"write">> /\ op \notin GroupEditorOps
      BY <1>2 DEF HandlerOf, Handler, ban_user, unban_user, create_event, delete_group,
         delete_merch, require_global, GroupEditorOps
    <2>2. <<"allow">> \in Prefix
      OBVIOUS
    <2> QED BY <2>1, <2>2, Chains, LongerChain
  <1>3. ASSUME op = "setRole"
        PROVE  Chain(HandlerOf(op).steps, op) /\ Head(HandlerOf(op).steps) = "allow"
    <2>1. HandlerOf(op).steps = <<"allow">> \o <<"clear", "write">> /\ op \notin GroupEditorOps
      BY <1>3 DEF HandlerOf, Handler, update_user_role, require_global, GroupEditorOps
    <2>2. <<"allow">> \in Prefix
      OBVIOUS
    <2>3. Head(<<"allow">> \o <<"clear", "write">>) = "allow"
      OBVIOUS
    <2> QED BY <1>3, <2>1, <2>2, <2>3, Chains, LongerChain
  <1>4. ASSUME op \in {"transferEvent", "transferGroup", "adminTransferEvent",
                       "adminTransferGroup"}
        PROVE  Chain(HandlerOf(op).steps, op)
    <2>1. op \notin GroupEditorOps
      BY <1>4 DEF GroupEditorOps
    <2>2. <<"event">> \in Prefix /\ <<"group">> \in Prefix /\ <<"allow">> \in Prefix
          /\ <<"target">> \in Prefix
      OBVIOUS
    <2>3. Chain(<<"target">> \o <<"write">>, op)
      BY <2>1, <2>2, Chains, LongerChain
    <2>4. /\ HandlerOf("transferEvent").steps = <<"event">> \o <<"target">> \o <<"write">>
          /\ HandlerOf("transferGroup").steps = <<"group">> \o <<"target">> \o <<"write">>
          /\ HandlerOf("adminTransferEvent").steps
                = <<"allow">> \o <<"event">> \o <<"target">> \o <<"write">>
          /\ HandlerOf("adminTransferGroup").steps
                = <<"allow">> \o <<"group">> \o <<"target">> \o <<"write">>
      BY DEF HandlerOf, Handler, self_transfer_event_creator, self_transfer_group_creator,
         transfer_event_creator, transfer_group_creator, require_global,
         require_active_target_user
    <2>5. ASSUME NEW a \in Prefix, NEW b \in Prefix, NEW c \in Prefix
          PROVE  Chain(b \o c \o <<"write">>, op) /\ Chain(a \o b \o c \o <<"write">>, op)
      <3>1. b \o c \in Prefix /\ a \o b \in Prefix /\ (a \o b) \o c \in Prefix
        BY ConcatProperties
      <3> HIDE DEF Prefix
      <3> QED BY <3>1, <2>1, Chains, LongerChain DEF Prefix
    <2> QED BY <1>4, <2>2, <2>4, <2>5
  <1>5. ASSUME op \in {"assignEventEditor", "revokeEventEditor"}
        PROVE  Chain(HandlerOf(op).steps, op)
    <2>1. HandlerOf(op).steps = <<"event", "allow">> \o <<"write">> /\ op \notin GroupEditorOps
      BY <1>5 DEF HandlerOf, Handler, assign_event_member, revoke_event_member,
         require_event_member_manage, GroupEditorOps
    <2>2. <<"event", "allow">> \in Prefix
      OBVIOUS
    <2> QED BY <2>1, <2>2, Chains, LongerChain
  <1>6. ASSUME op \in {"adminAssignEventEditor", "adminRevokeEventEditor"}
        PROVE  Chain(HandlerOf(op).steps, op)
    <2>1. HandlerOf(op).steps = <<"allow">> \o <<"event", "write">> /\ op \notin GroupEditorOps
      BY <1>6 DEF HandlerOf, Handler, admin_assign_event_member, admin_revoke_event_member,
         require_global, GroupEditorOps
    <2>2. <<"allow">> \in Prefix
      OBVIOUS
    <2> QED BY <2>1, <2>2, Chains, LongerChain
  <1>7. ASSUME op \in GroupEditorOps
        PROVE  Chain(HandlerOf(op).steps, op) /\ Head(HandlerOf(op).steps) = "group"
    <2>1. HandlerOf(op).steps = <<"group", "allow">> \o <<"write">>
      BY <1>7 DEF HandlerOf, Handler, assign_group_member, revoke_group_member,
         require_group_member_manage, GroupEditorOps
    <2>2. <<"group", "allow">> \in Prefix /\ <<"group", "allow">> \in Seq({"group", "allow"})
      OBVIOUS
    <2>3. Head(<<"group", "allow">> \o <<"write">>) = "group"
      OBVIOUS
    <2> QED BY <2>1, <2>2, <2>3, Chains, LongerChain
  <1>8. ASSUME op \in {"updateGroup", "createMerch", "renameMerch", "moveMerch", "publishMerch",
                       "deleteMerch"}
        PROVE  Chain(HandlerOf(op).steps, op)
    BY <1>8, Chains
       DEF HandlerOf, Handler, update_event_group, create_merch, update_merch, publish_merch,
       delete_merch_by_creator, GroupEditorOps
  <1>9. op \in MerchUpdateOps => Head(HandlerOf(op).steps) = "merch"
    BY DEF HandlerOf, Handler, update_merch, MerchUpdateOps
  <1>10. ASSUME op = "createMerch"
         PROVE  \E i \in 1..Len(HandlerOf(op).steps) : HandlerOf(op).steps[i] = "name"
    <2>1. HandlerOf(op).steps = <<"event", "allow", "name", "ensure", "write">>
      BY <1>10 DEF HandlerOf, Handler, create_merch
    <2>2. 3 \in 1..Len(HandlerOf(op).steps) /\ HandlerOf(op).steps[3] = "name"
      BY <2>1
    <2> QED BY <2>2
  <1> QED BY <1>1, <1>2, <1>3, <1>4, <1>5, <1>6, <1>7, <1>8, <1>9, <1>10
          DEF Ops, GroupEditorOps, MerchUpdateOps

-----------------------------------------------------------------------------
(***************************************************************************)
(* Steps of one request before its write                                   *)
(***************************************************************************)
LEMMA RequestFields ==
    ASSUME NEW r \in Requests
    PROVE  /\ r.user \in Users
           /\ r.op = "setRole" => r.target \in Users /\ r.role \in GlobalRoles
           /\ r.op = "ban" => r.target \in Users /\ r.until \in BanStates
           /\ r.op = "createEvent" => r.state \in {"draft", "published"} /\ r.label \in Labels
           /\ r.op = "updateEvent" => r.event \in Events /\ r.label \in Labels
           /\ r.op \in {"publishEvent", "deleteEvent", "removeGroup"} => r.event \in Events
           /\ r.op \in {"transferEvent", "adminTransferEvent", "assignEventEditor",
                        "revokeEventEditor", "adminAssignEventEditor",
                        "adminRevokeEventEditor", "transferGroup", "adminTransferGroup",
                        "assignGroupEditor", "revokeGroupEditor"} =>
                r.event \in Events /\ r.target \in Users
           /\ r.op \in {"createGroup", "updateGroup"} =>
                r.event \in Events /\ r.name \in RawNames /\ r.label \in Labels
           /\ r.op = "createMerch" => /\ r.event \in Events /\ r.name \in MerchNames
                                      /\ r.group \in RawNames
                                      /\ r.state \in {"draft", "published"}
           /\ r.op = "renameMerch" => r.merch \in MerchIds /\ r.name \in MerchNames
           /\ r.op = "moveMerch" => r.merch \in MerchIds /\ r.group \in RawNames
           /\ r.op \in {"publishMerch", "deleteMerch", "adminDeleteMerch"} => r.merch \in MerchIds
  BY DEF Requests, BanStates

LEMMA BusyRequest ==
    ASSUME TypeOK, NEW s \in Sessions, tx[s] # Idle
    PROVE  /\ tx[s] \in Busy
           /\ tx[s].req \in Requests /\ tx[s].owner \in Owners
           /\ tx[s].gid \in GroupIds \cup {NoGroup}
           /\ tx[s].seen \in SUBSET Assignments
           /\ tx[s].req.op \in Ops
  BY OpsOfRequests DEF TypeOK, Busy

\* The request changes, the tables do not.
LEMMA RequestStep ==
    ASSUME CatalogInvariant, NEW s \in Sessions, NEW b \in Busy,
           tx' = [tx EXCEPT ![s] = b], UNCHANGED tables, Knows(b)
    PROVE  CatalogInvariant'
  <1>1. Knows(b)'
    BY DEF Knows, SeenBy, AdminAtStart, HasAdmin, OfEvent, MerchExists, tables
  <1>2. ASSUME NEW t \in Sessions, tx'[t] # Idle PROVE Knows(tx[t])'
    <2>1. CASE t = s
      BY <1>1, <2>1 DEF CatalogInvariant, TypeOK
    <2>2. CASE t # s
      BY <1>2, <2>2 DEF CatalogInvariant, TypeOK, RequestsKnow, Knows, SeenBy, AdminAtStart,
         HasAdmin, OfEvent, MerchExists, tables
    <2> QED BY <2>1, <2>2
  <1>3. TypeOK'
    BY DEF CatalogInvariant, TypeOK, tables
  <1>4. LiveNamesUnique' /\ EventOwnersKnown' /\ (HasAdmin(roles) => AdminAtStart)'
    BY DEF CatalogInvariant, LiveNamesUnique, NameTaken, Live, MerchExists, EventOwnersKnown,
       Holders, AdminAtStart, HasAdmin, tables
  <1> QED BY <1>2, <1>3, <1>4 DEF CatalogInvariant, RequestsKnow

\* The statement at the head is done and has read the owner, group and rows.
LEMMA StatementDone ==
    ASSUME CatalogInvariant, NEW s \in Sessions, tx[s] # Idle, Head(tx[s].todo) # "write",
           NEW owner \in Owners, NEW gid \in GroupIds \cup {NoGroup},
           NEW seen \in SUBSET Assignments,
           tx' = [tx EXCEPT ![s].todo = Tail(tx[s].todo), ![s].owner = owner,
                            ![s].gid = gid, ![s].seen = seen],
           UNCHANGED tables,
           SeenBy(tx[s].req.op, seen),
           tx[s].req.op = "setRole" => AdminAtStart,
           tx[s].req.op \in GroupEditorOps => gid \in GroupIds,
           tx[s].req.op \in MerchUpdateOps => OfEvent(tx[s].req),
           tx[s].req.op = "createMerch" =>
                Head(tx[s].todo) # "name" \/ Trim[tx[s].req.group] # NoName
    PROVE  CatalogInvariant'
  <1> DEFINE b == [tx[s] EXCEPT !.todo = Tail(tx[s].todo), !.owner = owner,
                                !.gid = gid, !.seen = seen]
  <1>1. tx[s] \in Busy /\ Knows(tx[s])
    BY BusyRequest DEF CatalogInvariant, RequestsKnow
  <1>2. /\ Chain(Tail(tx[s].todo), tx[s].req.op)
        /\ tx[s].req.op = "createMerch" =>
            \/ \E i \in 1..Len(Tail(tx[s].todo)) : Tail(tx[s].todo)[i] = "name"
            \/ Trim[tx[s].req.group] # NoName
    BY <1>1, ShorterChain DEF Knows
  <1>3. /\ b \in Busy /\ b.todo = Tail(tx[s].todo) /\ b.req = tx[s].req
        /\ b.gid = gid /\ b.seen = seen
    BY <1>1, <1>2 DEF Busy, Chain
  <1>4. Knows(b)
    BY <1>2, <1>3 DEF Knows
  <1>5. tx' = [tx EXCEPT ![s] = b]
    BY <1>1 DEF CatalogInvariant, TypeOK, Busy
  <1> HIDE DEF b
  <1> QED BY <1>3, <1>4, <1>5, RequestStep

LEMMA Continuing ==
    ASSUME CatalogInvariant, NEW s \in Sessions, tx[s] # Idle, Head(tx[s].todo) # "write",
           NEW owner \in Owners, NEW gid \in GroupIds \cup {NoGroup},
           Continue(s, owner, gid), UNCHANGED tables,
           tx[s].req.op = "setRole" => AdminAtStart,
           tx[s].req.op \in GroupEditorOps => gid \in GroupIds,
           tx[s].req.op \in MerchUpdateOps => OfEvent(tx[s].req),
           tx[s].req.op = "createMerch" =>
                Head(tx[s].todo) # "name" \/ Trim[tx[s].req.group] # NoName
    PROVE  CatalogInvariant'
  <1>1. tx[s] \in Busy /\ SeenBy(tx[s].req.op, tx[s].seen)
    BY BusyRequest DEF CatalogInvariant, RequestsKnow, Knows
  <1>2. PICK seen \in SUBSET Assignments : seen = tx[s].seen
    BY <1>1 DEF Busy
  <1>3. tx' = [tx EXCEPT ![s].todo = Tail(tx[s].todo), ![s].owner = owner,
                         ![s].gid = gid, ![s].seen = seen]
    BY <1>1, <1>2 DEF Continue, CatalogInvariant, TypeOK, Busy
  <1> QED BY <1>1, <1>2, <1>3, StatementDone

\* Only an admin may set a role.
LEMMA OnlyAdminsSetRoles ==
    ASSUME TypeOK, NEW u, Check(roles, u, Global, "user.role.manage")
    PROVE  HasAdmin(roles)
  <1>1. SatisfyingNames("user.role.manage") = {"user.role.manage"}
    BY DEF SatisfyingNames, Override
  <1>2. CASE IsAdmin(RolesForUser(roles, u, Global))
    BY <1>2 DEF IsAdmin, RolesForUser, HasAdmin
  <1>3. ASSUME NEW r \in RolesForUser(roles, u, Global),
               Grants(r[2], r[3]) \cap SatisfyingNames("user.role.manage") # {}
        PROVE  HasAdmin(roles)
    <2>1. "user.role.manage" \in Grants(r[2], r[3]) /\ r[3] = Global /\ r \in roles
      BY <1>1, <1>3 DEF RolesForUser
    <2>2. r[2] \in GlobalRoles
      <3>1. Global \notin EventScopes \cup GroupScopes
        BY DEF Global, EventScopes, GroupScopes, EventScope, GroupScope
      <3> QED BY <2>1, <3>1 DEF TypeOK, Assignments
    <2>3. r[2] = "admin"
      BY <2>1, <2>2 DEF Grants, GlobalRoles, EditorGrants, ModeratorGrants, EventEditorGrants,
         EventCreatorGrants, GroupMemberGrants
    <2> QED BY <2>1, <2>3 DEF HasAdmin
  <1> QED BY <1>2, <1>3 DEF Check, Evaluate

LEMMA Receiving ==
    ASSUME CatalogInvariant, NEW s \in Sessions, NEW r \in Workload[setting], Receive(s, r)
    PROVE  CatalogInvariant'
  <1> DEFINE b == [req |-> r, todo |-> HandlerOf(r.op).steps, owner |-> NoUser,
                   gid |-> NoGroup, seen |-> {}]
  <1>1. r \in Requests /\ r.op \in Ops
    BY WorkloadAssumption, OpsOfRequests DEF CatalogInvariant, TypeOK
  <1>2. /\ Chain(HandlerOf(r.op).steps, r.op)
        /\ r.op = "setRole" => Head(HandlerOf(r.op).steps) = "allow"
        /\ r.op \in GroupEditorOps => Head(HandlerOf(r.op).steps) = "group"
        /\ r.op \in MerchUpdateOps => Head(HandlerOf(r.op).steps) = "merch"
        /\ r.op = "createMerch" =>
             \E i \in 1..Len(HandlerOf(r.op).steps) : HandlerOf(r.op).steps[i] = "name"
    BY <1>1, HandlerChains
  <1>3. b \in Busy
    BY <1>1, <1>2 DEF Busy, Owners, Chain
  <1>4. Knows(b)
    BY <1>2 DEF Knows, SeenBy
  <1>5. tx' = [tx EXCEPT ![s] = b] /\ UNCHANGED tables
    BY DEF Receive
  <1> HIDE DEF b
  <1> QED BY <1>3, <1>4, <1>5, RequestStep

\* An item is of one event, deleted or not.
ItemsKeepEvent ==
    \A m \in MerchIds :
        MerchExists(m) => MerchExists(m)' /\ merch'[m].event = merch[m].event

LEMMA Abandoning ==
    ASSUME CatalogInvariant, NEW s \in Sessions, Finish(s),
           setting' = setting, ItemsKeepEvent
    PROVE  /\ tx' \in [Sessions -> Busy \cup {Idle}]
           /\ setting' \in Settings
           /\ RequestsKnow'
  <1>1. /\ tx' \in [Sessions -> Busy \cup {Idle}]
        /\ \A t \in Sessions : tx'[t] \in {tx[t], Idle}
    BY DEF Finish, CatalogInvariant, TypeOK
  <1>2. ASSUME NEW t \in Sessions, tx'[t] # Idle PROVE Knows(tx[t])'
    <2>1. tx'[t] = tx[t] /\ tx[t].req \in Requests /\ Knows(tx[t])
      BY <1>1, <1>2, BusyRequest DEF CatalogInvariant, RequestsKnow
    <2>2. tx[t].req.op \in MerchUpdateOps => tx[t].req.merch \in MerchIds
      BY <2>1, RequestFields DEF MerchUpdateOps
    <2> QED BY <2>1, <2>2 DEF Knows, SeenBy, AdminAtStart, HasAdmin, OfEvent, ItemsKeepEvent
  <1> QED BY <1>1, <1>2 DEF CatalogInvariant, TypeOK, RequestsKnow

LEMMA ReadingOrChecking ==
    ASSUME CatalogInvariant, NEW s \in Sessions, ReadOrCheck(s)
    PROVE  CatalogInvariant'
  <1>a. TypeOK
    BY DEF CatalogInvariant
  <1>1. CASE Abandon(s)
    <2>1. Finish(s) /\ UNCHANGED tables
      BY <1>1 DEF Abandon
    <2>2. ItemsKeepEvent
      BY <2>1 DEF ItemsKeepEvent, MerchExists, tables
    <2> QED BY <2>1, <2>2, Abandoning
            DEF CatalogInvariant, LiveNamesUnique, NameTaken, Live, MerchExists,
                EventOwnersKnown, Holders, AdminAtStart, HasAdmin, tables, TypeOK
  <1>2. SUFFICES ASSUME ~Abandon(s) PROVE CatalogInvariant'
    BY <1>1
  <1>3. tx[s] # Idle /\ UNCHANGED tables
    BY <1>2 DEF ReadOrCheck, At, ReadEvent, ReadGroup, ReadMerch, ReadTarget, Authorize,
       AuthorizeOwner, CheckNewName, CheckChangedName, EnsureGroup, ClearRoles
  <1>4. /\ tx[s] \in Busy /\ Knows(tx[s])
        /\ tx[s].owner \in Owners /\ tx[s].gid \in GroupIds \cup {NoGroup}
    BY <1>3, <1>a, BusyRequest DEF CatalogInvariant, RequestsKnow
  <1>5. /\ Head(tx[s].todo) = "clear" => tx[s].req.op = "setRole"
        /\ Head(tx[s].todo) = "ensure" => tx[s].req.op = "createMerch"
        /\ tx[s].req.op \in GroupEditorOps => Head(tx[s].todo) \in {"group", "allow", "write"}
        /\ tx[s].req.op = "setRole" => Head(tx[s].todo) = "allow" \/ AdminAtStart
        /\ tx[s].req.op \in GroupEditorOps => Head(tx[s].todo) = "group" \/ tx[s].gid \in GroupIds
        /\ tx[s].req.op \in MerchUpdateOps => Head(tx[s].todo) = "merch" \/ OfEvent(tx[s].req)
    BY <1>4, FirstOfChain DEF Knows
  <1>6. CASE ReadEvent(s)
    <2>1. PICK owner \in Owners : Continue(s, owner, NoGroup)
      BY <1>6 DEF ReadEvent, EventExists, EventRows
    <2> QED BY <1>3, <1>5, <1>6, <2>1, Continuing DEF ReadEvent, At
  <1>7. CASE ReadGroup(s)
    <2>1. PICK owner \in Owners, g \in GroupIds : Continue(s, owner, g)
      BY <1>7 DEF ReadGroup, GroupAt, GroupExists, GroupRows
    <2> QED BY <1>3, <1>5, <1>7, <2>1, Continuing DEF ReadGroup, At
  <1>8. CASE ReadMerch(s)
    <2>1. PICK owner \in Owners : Continue(s, owner, NoGroup)
      BY <1>8 DEF ReadMerch, MerchExists, MerchRows
    <2>2. OfEvent(tx[s].req)
      BY <1>8 DEF ReadMerch, OfEvent
    <2> QED BY <1>3, <1>5, <1>8, <2>1, <2>2, Continuing DEF ReadMerch, At
  <1>9. CASE ReadTarget(s) \/ AuthorizeOwner(s) \/ CheckNewName(s) \/ CheckChangedName(s)
    <2>1. /\ Continue(s, tx[s].owner, tx[s].gid)
          /\ Head(tx[s].todo) \in {"target", "own", "name"}
          /\ tx[s].req.op = "createMerch" =>
                Head(tx[s].todo) # "name" \/ Trim[tx[s].req.group] # NoName
      BY <1>9 DEF ReadTarget, AuthorizeOwner, CheckNewName, CheckChangedName, At
    <2> QED BY <1>3, <1>4, <1>5, <2>1, Continuing
  <1>10. CASE Authorize(s)
    <2>1. Continue(s, tx[s].owner, tx[s].gid) /\ Head(tx[s].todo) = "allow"
      BY <1>10 DEF Authorize, At
    <2>2. ASSUME tx[s].req.op = "setRole" PROVE AdminAtStart
      <3>1. HandlerOf("setRole").scope = "global" /\ HandlerOf("setRole").asks = "user.role.manage"
        BY DEF HandlerOf, update_user_role, Handler
      <3>2. Check(roles, tx[s].req.user, Global, "user.role.manage")
        BY <1>10, <2>2, <3>1 DEF Authorize, ScopeOf
      <3> QED BY <3>2, <1>a, OnlyAdminsSetRoles DEF CatalogInvariant
    <2> QED BY <1>3, <1>4, <1>5, <2>1, <2>2, Continuing
  <1>11. CASE EnsureGroup(s)
    <2>1. Head(tx[s].todo) = "ensure" /\ tx[s].req.op = "createMerch"
      BY <1>5, <1>11 DEF EnsureGroup, At
    <2>2. CASE Continue(s, tx[s].owner, NoGroup)
      BY <1>3, <1>4, <1>5, <2>1, <2>2, Continuing DEF GroupEditorOps, MerchUpdateOps
    <2>3. CASE \E g \in GroupAt(tx[s].req.event, Trim[tx[s].req.group]) :
                tx' = [tx EXCEPT ![s].todo = Tail(@), ![s].gid = g,
                                 ![s].seen = CreatorRole(groups[g].creator, GroupScope(g))]
      <3>1. PICK g \in GroupIds :
              /\ GroupExists(g)
              /\ tx' = [tx EXCEPT ![s].todo = Tail(@), ![s].gid = g,
                                  ![s].seen = CreatorRole(groups[g].creator, GroupScope(g))]
        BY <2>3 DEF GroupAt
      <3>2. groups[g].creator \in Owners
        BY <3>1 DEF GroupExists, GroupRows
      <3>3. PICK seen \in SUBSET Assignments :
              /\ seen = CreatorRole(groups[g].creator, GroupScope(g))
              /\ \A r \in seen : r[2] = "creator" /\ r[3] \in GroupScopes
        <4>1. CreatorRole(groups[g].creator, GroupScope(g)) \in SUBSET Assignments
          BY <3>2 DEF CreatorRole, Owners, Assignments, ScopedRoles, GroupScopes
        <4>2. ASSUME NEW r \in CreatorRole(groups[g].creator, GroupScope(g))
              PROVE  r[2] = "creator" /\ r[3] \in GroupScopes
          <5>1. r = <<groups[g].creator, "creator", GroupScope(g)>>
            BY DEF CreatorRole
          <5>2. r[2] = "creator" /\ r[3] = GroupScope(g)
            BY <5>1
          <5> QED BY <5>2 DEF GroupScopes
        <4> QED BY <4>1, <4>2
      <3>4. PICK owner \in Owners : owner = tx[s].owner
        BY <1>4
      <3>5. tx' = [tx EXCEPT ![s].todo = Tail(tx[s].todo), ![s].owner = owner,
                             ![s].gid = g, ![s].seen = seen]
        BY <3>1, <3>3, <3>4, <1>4, <1>a DEF TypeOK, Busy
      <3>6. SeenBy(tx[s].req.op, seen)
        BY <2>1, <3>3 DEF SeenBy
      <3> QED BY <1>3, <2>1, <3>5, <3>6, StatementDone DEF GroupEditorOps, MerchUpdateOps
    <2> QED BY <1>11, <2>2, <2>3 DEF EnsureGroup
  <1>12. CASE ClearRoles(s)
    <2>1. Head(tx[s].todo) = "clear" /\ tx[s].req.op = "setRole"
      BY <1>5, <1>12 DEF ClearRoles, At
    <2>2. PICK seen \in SUBSET Assignments :
            seen = GlobalRows(tx[s].req.target) /\ \A r \in seen : r[3] = Global
      <3>1. /\ GlobalRows(tx[s].req.target) \in SUBSET Assignments
            /\ \A r \in GlobalRows(tx[s].req.target) : r[3] = Global
        BY <1>a DEF GlobalRows, TypeOK
      <3> QED BY <3>1
    <2>3. PICK owner \in Owners, gid \in GroupIds \cup {NoGroup} :
            owner = tx[s].owner /\ gid = tx[s].gid
      BY <1>4
    <2>4. tx' = [tx EXCEPT ![s].todo = Tail(tx[s].todo), ![s].owner = owner,
                           ![s].gid = gid, ![s].seen = seen]
      BY <1>12, <2>2, <2>3, <1>4, <1>a DEF ClearRoles, TypeOK, Busy
    <2>5. SeenBy(tx[s].req.op, seen)
      BY <2>1, <2>2 DEF SeenBy
    <2> QED BY <1>3, <1>5, <2>1, <2>4, <2>5, StatementDone DEF GroupEditorOps, MerchUpdateOps
  <1> QED BY <1>2, <1>6, <1>7, <1>8, <1>9, <1>10, <1>11, <1>12 DEF ReadOrCheck

-----------------------------------------------------------------------------
(***************************************************************************)
(* What the writes have in common                                          *)
(***************************************************************************)
LEMMA RowsAreRows ==
    /\ Unused \notin EventRows /\ Gone \notin EventRows
    /\ Unused \notin GroupRows /\ Gone \notin GroupRows
    /\ Unused \notin MerchRows /\ Unused # Gone
  <1>1. DOMAIN Unused = {"state"} /\ DOMAIN Gone = {"state"} /\ Unused.state # Gone.state
    BY DEF Unused, Gone
  <1>2. /\ \A r \in EventRows : DOMAIN r = {"state", "creator", "label"}
        /\ \A r \in GroupRows : DOMAIN r = {"state", "event", "name", "creator", "label"}
        /\ \A r \in MerchRows : DOMAIN r = {"state", "event", "name", "group", "creator"}
    BY DEF EventRows, GroupRows, MerchRows
  <1> QED BY <1>1, <1>2

LEMMA ScopesDiffer ==
    ASSUME NEW e, NEW g
    PROVE  EventScope(e) # GroupScope(g) /\ EventScope(e) # Global /\ GroupScope(g) # Global
  BY DEF EventScope, GroupScope, Global

\* A write that gives nobody the admin role and keeps the rest of the
\* invariant, whichever tables it changes.
LEMMA WriteDone ==
    ASSUME CatalogInvariant, NEW s \in Sessions, Finish(s), setting' = setting,
           roles' \in SUBSET Assignments, \A r \in roles' : r[2] = "admin" => r \in roles,
           bans' \in [Users -> BanStates],
           events' \in [Events -> EventRows \cup {Unused, Gone}],
           groups' \in [GroupIds -> GroupRows \cup {Unused, Gone}],
           merch' \in [MerchIds -> MerchRows \cup {Unused}],
           LiveNamesUnique', EventOwnersKnown', ItemsKeepEvent
    PROVE  CatalogInvariant'
  <1>1. (HasAdmin(roles) => AdminAtStart)'
    BY DEF CatalogInvariant, HasAdmin, AdminAtStart
  <1> QED BY <1>1, Abandoning DEF CatalogInvariant, TypeOK

LEMMA SameMerch ==
    ASSUME LiveNamesUnique, merch' = merch
    PROVE  LiveNamesUnique' /\ ItemsKeepEvent
  BY DEF LiveNamesUnique, NameTaken, Live, MerchExists, ItemsKeepEvent

LEMMA SameEventRoles ==
    ASSUME EventOwnersKnown, events' = events,
           \A u \in Users, e \in Events :
               <<u, "creator", EventScope(e)>> \in roles' <=> <<u, "creator", EventScope(e)>> \in roles
    PROVE  EventOwnersKnown'
  <1>1. \A e \in Events : Holders(EventScope(e))' = Holders(EventScope(e))
    BY DEF Holders, HoldersOf
  <1> QED BY <1>1 DEF EventOwnersKnown

\* Roles added or removed that are no creator roles of events.
LEMMA OtherRoles ==
    ASSUME EventOwnersKnown, events' = events,
           NEW added, NEW removed, roles' = (roles \ removed) \cup added,
           \A r \in added \cup removed : r[2] # "creator" \/ r[3] \in GroupScopes
    PROVE  EventOwnersKnown'
  <1>1. ASSUME NEW u \in Users, NEW e \in Events PROVE <<u, "creator", EventScope(e)>> \notin added \cup removed
    <2>1. EventScope(e) \notin GroupScopes
      BY ScopesDiffer DEF GroupScopes
    <2> QED BY <2>1
  <1> QED BY <1>1, SameEventRoles

\* One item changes; if it lives, its name is free.
LEMMA MerchRowChanges ==
    ASSUME CatalogInvariant, NEW m \in MerchIds, NEW row \in MerchRows,
           merch' = [merch EXCEPT ![m] = row],
           MerchExists(m) => row.event = merch[m].event,
           row.state # "deleted" => ~NameTaken(m, row.event, row.group, row.name)
    PROVE  /\ merch' \in [MerchIds -> MerchRows \cup {Unused}]
           /\ LiveNamesUnique' /\ ItemsKeepEvent
  <1>1. /\ merch' \in [MerchIds -> MerchRows \cup {Unused}]
        /\ merch'[m] = row
        /\ \A x \in MerchIds \ {m} : merch'[x] = merch[x]
    BY DEF CatalogInvariant, TypeOK
  <1>2. ASSUME NEW a \in MerchIds, NEW b \in MerchIds \ {a}, Live(a)', Live(b)',
               merch'[a].event = merch'[b].event, merch'[a].group = merch'[b].group,
               merch'[a].name = merch'[b].name
        PROVE  FALSE
    <2>1. CASE a # m /\ b # m
      BY <1>1, <1>2, <2>1 DEF CatalogInvariant, LiveNamesUnique, NameTaken, Live, MerchExists
    <2>2. CASE a = m
      BY <1>1, <1>2, <2>2 DEF NameTaken, Live, MerchExists
    <2>3. CASE b = m
      BY <1>1, <1>2, <2>3 DEF NameTaken, Live, MerchExists
    <2> QED BY <2>1, <2>2, <2>3
  <1>3. LiveNamesUnique'
    BY <1>2 DEF LiveNamesUnique, NameTaken
  <1>4. ItemsKeepEvent
    BY <1>1 DEF ItemsKeepEvent, MerchExists
  <1> QED BY <1>1, <1>3, <1>4

\* The creator role of a person in a scope is at most one row.
LEMMA CreatorRows ==
    ASSUME NEW owner, NEW scope
    PROVE  /\ \A r \in CreatorRole(owner, scope) :
                r = <<owner, "creator", scope>> /\ r[2] = "creator" /\ r[3] = scope
           /\ owner \in Owners /\ scope \in EventScopes \cup GroupScopes =>
                CreatorRole(owner, scope) \subseteq Assignments
           /\ \A u \in Users : \A c : <<u, "creator", c>> \in CreatorRole(owner, scope)
                                    <=> u = owner /\ c = scope
  <1>1. \A r \in CreatorRole(owner, scope) : r = <<owner, "creator", scope>>
    BY DEF CreatorRole
  <1>2. owner \in Owners /\ scope \in EventScopes \cup GroupScopes =>
            CreatorRole(owner, scope) \subseteq Assignments
    BY DEF CreatorRole, Owners, Assignments, ScopedRoles
  <1>3. ASSUME NEW u \in Users, NEW c
        PROVE  <<u, "creator", c>> \in CreatorRole(owner, scope) <=> u = owner /\ c = scope
    BY <1>1, NoOwnerAssumption DEF CreatorRole
  <1>4. ASSUME NEW r \in CreatorRole(owner, scope) PROVE r[2] = "creator" /\ r[3] = scope
    BY <1>1
  <1> QED BY <1>1, <1>2, <1>3, <1>4

-----------------------------------------------------------------------------
(***************************************************************************)
(* The writes                                                              *)
(***************************************************************************)
LEMMA UserWrites ==
    ASSUME CatalogInvariant, NEW s \in Sessions, WriteUsers(s)
    PROVE  CatalogInvariant'
  <1>a. TypeOK /\ LiveNamesUnique /\ EventOwnersKnown
    BY DEF CatalogInvariant
  <1>b. tx[s] # Idle
    BY DEF WriteUsers, SetRole, SetBan, LiftBan, Writes, At
  <1>c. /\ tx[s] \in Busy /\ tx[s].req \in Requests /\ Knows(tx[s])
    BY <1>a, <1>b, BusyRequest DEF CatalogInvariant, RequestsKnow
  <1>1. CASE SetRole(s)
    <2> DEFINE r == tx[s].req
               row == <<r.target, r.role, Global>>
    <2>1. /\ tx[s].req.op = "setRole" /\ Head(tx[s].todo) = "write"
          /\ roles' = (roles \ tx[s].seen) \cup {row}
          /\ UNCHANGED <<bans, events, groups, merch, setting>>
      BY <1>1 DEF SetRole, Writes, At
    <2>2. AdminAtStart /\ \A x \in tx[s].seen : x[3] = Global
      BY <1>c, <2>1 DEF Knows, SeenBy
    <2>3. row \in Assignments /\ row[3] = Global /\ row[2] \in GlobalRoles
      BY <1>c, <2>1, RequestFields DEF Assignments
    <2> HIDE DEF row
    <2>4. EventOwnersKnown'
      <3>1. ASSUME NEW u \in Users, NEW e \in Events
            PROVE  <<u, "creator", EventScope(e)>> \notin tx[s].seen \cup {row}
        <4>1. <<u, "creator", EventScope(e)>>[3] # Global
          BY ScopesDiffer
        <4> QED BY <4>1, <2>2, <2>3
      <3> QED BY <2>1, <3>1, <1>a, SameEventRoles
    <2>5. ASSUME NEW t \in Sessions, tx'[t] # Idle
          PROVE  tx'[t] \in Busy /\ Knows(tx[t])'
      <3>1. PICK seen \in SUBSET tx[t].seen :
              tx[t] # Idle /\ tx'[t] = [tx[t] EXCEPT !.seen = seen]
        BY <1>1, <2>5 DEF SetRole
      <3>2. tx[t] \in Busy /\ Knows(tx[t])
        BY <3>1, <1>a, BusyRequest DEF CatalogInvariant, RequestsKnow
      <3>3. /\ tx'[t] \in Busy /\ tx'[t].req = tx[t].req /\ tx'[t].todo = tx[t].todo
            /\ tx'[t].gid = tx[t].gid /\ tx'[t].seen = seen
        BY <3>1, <3>2 DEF Busy
      <3> QED BY <2>1, <3>1, <3>2, <3>3
              DEF Knows, SeenBy, AdminAtStart, HasAdmin, OfEvent, MerchExists
    <2>6. tx' \in [Sessions -> Busy \cup {Idle}]
      <3>1. \A t \in Sessions : tx'[t] \in Busy \cup {Idle}
        BY <2>5
      <3> QED BY <1>1, <3>1 DEF SetRole
    <2>7. roles' \in SUBSET Assignments
      BY <2>1, <2>3, <1>a DEF TypeOK
    <2>8. AdminAtStart'
      BY <2>1, <2>2 DEF AdminAtStart, HasAdmin
    <2>9. LiveNamesUnique' /\ ItemsKeepEvent
      BY <1>a, <2>1, SameMerch
    <2> QED BY <1>a, <2>1, <2>4, <2>5, <2>6, <2>7, <2>8, <2>9
            DEF CatalogInvariant, TypeOK, RequestsKnow
  <1>2. CASE SetBan(s) \/ LiftBan(s)
    <2>1. bans' \in [Users -> BanStates]
      BY <1>2, <1>a, <1>c, RequestFields
         DEF SetBan, LiftBan, Writes, TypeOK, BanStates
    <2>2. UNCHANGED <<roles, events, groups, merch, setting>> /\ Finish(s)
      BY <1>2 DEF SetBan, LiftBan
    <2>3. LiveNamesUnique' /\ EventOwnersKnown' /\ ItemsKeepEvent
      BY <1>a, <2>2, SameMerch, SameEventRoles
    <2> QED BY <1>a, <2>1, <2>2, <2>3, WriteDone DEF TypeOK
  <1> QED BY <1>1, <1>2 DEF WriteUsers

LEMMA WriterKnows ==
    ASSUME CatalogInvariant, NEW s \in Sessions, At(s, "write")
    PROVE  /\ tx[s] # Idle /\ tx[s].req \in Requests
           /\ Head(tx[s].todo) = "write" /\ Knows(tx[s])
  BY BusyRequest DEF At, CatalogInvariant, RequestsKnow

\* The creator role of an event moves to an owner, or comes into being.
LEMMA EventRoleMoves ==
    ASSUME CatalogInvariant, NEW e \in Events, NEW row \in EventRows, row.creator \in Users,
           events[e] # Gone,
           events' = [events EXCEPT ![e] = row],
           NEW previous \in Owners, OwnerSet(events[e]) = {previous} \ {NoUser},
           roles' = (roles \ CreatorRole(previous, EventScope(e)))
                        \cup CreatorRole(row.creator, EventScope(e))
    PROVE  /\ events' \in [Events -> EventRows \cup {Unused, Gone}]
           /\ roles' \in SUBSET Assignments
           /\ \A r \in roles' : r[2] = "admin" => r \in roles
           /\ EventOwnersKnown'
  <1>1. /\ events' \in [Events -> EventRows \cup {Unused, Gone}]
        /\ events'[e] = row
        /\ \A f \in Events \ {e} : events'[f] = events[f]
    BY DEF CatalogInvariant, TypeOK
  <1>2. row.creator \in Owners /\ EventScope(e) \in EventScopes
    BY DEF Owners, EventScopes
  <1>3. roles' \in SUBSET Assignments /\ \A r \in roles' : r[2] = "admin" => r \in roles
    BY <1>2, CreatorRows DEF CatalogInvariant, TypeOK
  <1>4. ASSUME NEW f \in Events, events'[f] # Gone
        PROVE  Holders(EventScope(f))' = OwnerSet(events'[f])
    <2>1. CASE f = e
      <3>1. \A u \in Users : <<u, "creator", EventScope(e)>> \in roles' <=> u = row.creator
        <4> SUFFICES ASSUME NEW u \in Users
                     PROVE  <<u, "creator", EventScope(e)>> \in roles' <=> u = row.creator
          OBVIOUS
        <4>1. <<u, "creator", EventScope(e)>> \in roles <=> u \in {previous} \ {NoUser}
          BY DEF CatalogInvariant, EventOwnersKnown, Holders, HoldersOf
        <4>2. /\ <<u, "creator", EventScope(e)>> \in CreatorRole(previous, EventScope(e)) <=> u = previous
              /\ <<u, "creator", EventScope(e)>> \in CreatorRole(row.creator, EventScope(e))
                    <=> u = row.creator
          BY CreatorRows
        <4> QED BY <4>1, <4>2
      <3>2. OwnerSet(row) = {row.creator}
        BY RowsAreRows, NoOwnerAssumption DEF OwnerSet
      <3> QED BY <1>1, <2>1, <3>1, <3>2 DEF Holders, HoldersOf
    <2>2. CASE f # e
      <3>1. EventScope(f) # EventScope(e)
        BY <2>2 DEF EventScope
      <3>2. \A u \in Users : <<u, "creator", EventScope(f)>> \in roles'
                                <=> <<u, "creator", EventScope(f)>> \in roles
        BY <3>1, CreatorRows
      <3> QED BY <1>1, <1>4, <2>2, <3>2 DEF CatalogInvariant, EventOwnersKnown, Holders, HoldersOf
    <2> QED BY <2>1, <2>2
  <1> QED BY <1>1, <1>3, <1>4 DEF EventOwnersKnown

\* An event keeps its owner, or goes; the roles stay.
LEMMA EventKeepsOwner ==
    ASSUME CatalogInvariant, UNCHANGED roles,
           events' \in [Events -> EventRows \cup {Unused, Gone}],
           \A e \in Events : \/ events'[e] \in {events[e], Gone}
                             \/ EventExists(e) /\ EventExists(e)'
                                  /\ events'[e].creator = events[e].creator
    PROVE  EventOwnersKnown'
  BY RowsAreRows DEF CatalogInvariant, EventOwnersKnown, Holders, OwnerSet, EventExists

LEMMA EventWrites ==
    ASSUME CatalogInvariant, NEW s \in Sessions, WriteEvents(s)
    PROVE  CatalogInvariant'
  <1>a. TypeOK /\ LiveNamesUnique /\ EventOwnersKnown
    BY DEF CatalogInvariant
  <1>b. At(s, "write")
    BY DEF WriteEvents, CreateEvent, UpdateEvent, PublishEvent, DeleteEvent, TransferEvent,
       AssignEventEditor, RevokeEventEditor, Writes
  <1>c. tx[s].req \in Requests /\ tx[s].req.user \in Users
    BY <1>b, WriterKnows, RequestFields
  <1>1. CASE CreateEvent(s)
    <2> DEFINE row == [state |-> tx[s].req.state, creator |-> tx[s].req.user,
                       label |-> tx[s].req.label]
    <2>1. PICK e \in Events :
            /\ events[e] = Unused
            /\ events' = [events EXCEPT ![e] = row]
            /\ roles' = roles \cup CreatorRole(tx[s].req.user, EventScope(e))
      BY <1>1 DEF CreateEvent
    <2>2. tx[s].req.op = "createEvent" /\ Finish(s) /\ UNCHANGED <<bans, groups, merch, setting>>
      BY <1>1 DEF CreateEvent, Writes
    <2>3. row \in EventRows /\ row.creator = tx[s].req.user
      BY <1>c, <2>2, RequestFields DEF EventRows, Owners
    <2>4. PICK previous \in Owners : previous = NoUser
      BY DEF Owners
    <2>5. /\ OwnerSet(events[e]) = {previous} \ {NoUser}
          /\ roles' = (roles \ CreatorRole(previous, EventScope(e)))
                        \cup CreatorRole(row.creator, EventScope(e))
      BY <2>1, <2>3, <2>4 DEF OwnerSet, CreatorRole
    <2> HIDE DEF row
    <2>6. /\ events' \in [Events -> EventRows \cup {Unused, Gone}]
          /\ roles' \in SUBSET Assignments
          /\ \A r \in roles' : r[2] = "admin" => r \in roles
          /\ EventOwnersKnown'
      BY <2>1, <2>3, <2>5, <1>c, RowsAreRows, EventRoleMoves
    <2>7. LiveNamesUnique' /\ ItemsKeepEvent
      BY <1>a, <2>2, SameMerch
    <2> QED BY <1>a, <2>2, <2>6, <2>7, WriteDone DEF TypeOK
  <1>2. CASE UpdateEvent(s) \/ PublishEvent(s)
    <2>1. PICK e \in Events, row \in EventRows :
            /\ EventExists(e)
            /\ events' = [events EXCEPT ![e] = row]
            /\ row.creator = events[e].creator
      <3>1. CASE UpdateEvent(s)
        <4>1. PICK e \in Events, l \in Labels :
                EventExists(e) /\ events' = [events EXCEPT ![e].label = l]
          BY <1>c, <3>1, RequestFields DEF UpdateEvent, Writes
        <4> DEFINE row == [events[e] EXCEPT !.label = l]
        <4>2. row \in EventRows /\ row.creator = events[e].creator
          BY <4>1 DEF EventExists, EventRows
        <4>3. events' = [events EXCEPT ![e] = row]
          BY <4>1
        <4> HIDE DEF row
        <4> QED BY <4>1, <4>2, <4>3
      <3>2. CASE PublishEvent(s)
        <4>1. PICK e \in Events :
                EventExists(e) /\ events' = [events EXCEPT ![e].state = "published"]
          BY <1>c, <3>2, RequestFields DEF PublishEvent, Writes
        <4> DEFINE row == [events[e] EXCEPT !.state = "published"]
        <4>2. row \in EventRows /\ row.creator = events[e].creator
          BY <4>1 DEF EventExists, EventRows
        <4>3. events' = [events EXCEPT ![e] = row]
          BY <4>1
        <4> HIDE DEF row
        <4> QED BY <4>1, <4>2, <4>3
      <3> QED BY <1>2, <3>1, <3>2
    <2>2. Finish(s) /\ UNCHANGED <<roles, bans, groups, merch, setting>>
      BY <1>2 DEF UpdateEvent, PublishEvent
    <2>3. events' \in [Events -> EventRows \cup {Unused, Gone}]
      BY <1>a, <2>1 DEF TypeOK
    <2>4. LiveNamesUnique' /\ EventOwnersKnown' /\ ItemsKeepEvent
      <3>1. \A f \in Events : \/ events'[f] \in {events[f], Gone}
                              \/ EventExists(f) /\ EventExists(f)'
                                  /\ events'[f].creator = events[f].creator
        BY <1>a, <2>1 DEF TypeOK, EventExists
      <3> QED BY <1>a, <2>2, <2>3, <3>1, SameMerch, EventKeepsOwner
    <2> QED BY <1>a, <2>2, <2>3, <2>4, WriteDone DEF TypeOK
  <1>3. CASE DeleteEvent(s)
    <2>1. PICK e \in Events :
            /\ events' = [events EXCEPT ![e] = Gone]
            /\ groups' = [g \in GroupIds |-> IF GroupExists(g) /\ groups[g].event = e
                                             THEN Gone ELSE groups[g]]
      BY <1>3, <1>c, RequestFields DEF DeleteEvent, Writes
    <2>2. Finish(s) /\ UNCHANGED <<roles, bans, merch, setting>>
      BY <1>3 DEF DeleteEvent
    <2>3. /\ events' \in [Events -> EventRows \cup {Unused, Gone}]
          /\ groups' \in [GroupIds -> GroupRows \cup {Unused, Gone}]
          /\ \A f \in Events : events'[f] \in {events[f], Gone}
      BY <1>a, <2>1 DEF TypeOK
    <2>4. LiveNamesUnique' /\ EventOwnersKnown' /\ ItemsKeepEvent
      BY <1>a, <2>2, <2>3, SameMerch, EventKeepsOwner
    <2> QED BY <1>a, <2>2, <2>3, <2>4, WriteDone DEF TypeOK
  <1>4. CASE TransferEvent(s)
    <2>1. PICK e \in Events, v \in Users :
            /\ EventExists(e)
            /\ events' = [events EXCEPT ![e].creator = v]
            /\ TransferEventRole(e, events[e].creator, v)
      BY <1>4, <1>c, RequestFields DEF TransferEvent, Writes
    <2> DEFINE row == [events[e] EXCEPT !.creator = v]
    <2>2. Finish(s) /\ UNCHANGED <<bans, groups, merch, setting>>
      BY <1>4 DEF TransferEvent
    <2>3. row \in EventRows /\ row.creator = v /\ events' = [events EXCEPT ![e] = row]
      BY <2>1 DEF EventExists, EventRows, Owners
    <2>4. PICK previous \in Owners : previous = events[e].creator
      BY <2>1 DEF EventExists, EventRows
    <2>5. /\ OwnerSet(events[e]) = {previous} \ {NoUser}
          /\ roles' = (roles \ CreatorRole(previous, EventScope(e)))
                        \cup CreatorRole(row.creator, EventScope(e))
          /\ events[e] # Gone
      BY <2>1, <2>3, <2>4, RowsAreRows DEF OwnerSet, TransferEventRole, EventExists
    <2> HIDE DEF row
    <2>6. /\ events' \in [Events -> EventRows \cup {Unused, Gone}]
          /\ roles' \in SUBSET Assignments
          /\ \A r \in roles' : r[2] = "admin" => r \in roles
          /\ EventOwnersKnown'
      BY <2>3, <2>5, EventRoleMoves
    <2>7. LiveNamesUnique' /\ ItemsKeepEvent
      BY <1>a, <2>2, SameMerch
    <2> QED BY <1>a, <2>2, <2>6, <2>7, WriteDone DEF TypeOK
  <1>5. CASE AssignEventEditor(s) \/ RevokeEventEditor(s)
    <2>1. PICK e \in Events, v \in Users :
            \/ roles' = roles \cup {<<v, "editor", EventScope(e)>>}
            \/ roles' = roles \ {<<v, "editor", EventScope(e)>>}
      BY <1>5, <1>c, RequestFields DEF AssignEventEditor, RevokeEventEditor, Writes
    <2>2. Finish(s) /\ UNCHANGED <<bans, events, groups, merch, setting>>
      BY <1>5 DEF AssignEventEditor, RevokeEventEditor
    <2>3. <<v, "editor", EventScope(e)>> \in Assignments
      BY DEF Assignments, ScopedRoles, EventScopes
    <2>4. roles' \in SUBSET Assignments /\ \A r \in roles' : r[2] = "admin" => r \in roles
      BY <1>a, <2>1, <2>3 DEF TypeOK
    <2>5. LiveNamesUnique' /\ EventOwnersKnown' /\ ItemsKeepEvent
      <3>1. \A u \in Users, f \in Events :
                <<u, "creator", EventScope(f)>> # <<v, "editor", EventScope(e)>>
        OBVIOUS
      <3> QED BY <1>a, <2>1, <2>2, <3>1, SameMerch, SameEventRoles
    <2> QED BY <1>a, <2>2, <2>4, <2>5, WriteDone DEF TypeOK
  <1> QED BY <1>1, <1>2, <1>3, <1>4, <1>5 DEF WriteEvents

\* The upsert of a group: an existing row gets a label, or a new one is made.
LEMMA GroupRowChanges ==
    ASSUME TypeOK, NEW g \in GroupIds, NEW row \in GroupRows,
           groups' = [groups EXCEPT ![g] = row]
    PROVE  groups' \in [GroupIds -> GroupRows \cup {Unused, Gone}]
  BY DEF TypeOK

LEMMA GroupRolesChange ==
    ASSUME CatalogInvariant, events' = events, NEW g \in GroupIds,
           NEW previous, NEW owner \in Owners,
           roles' = (roles \ CreatorRole(previous, GroupScope(g)))
                        \cup CreatorRole(owner, GroupScope(g))
    PROVE  /\ roles' \in SUBSET Assignments
           /\ \A r \in roles' : r[2] = "admin" => r \in roles
           /\ EventOwnersKnown'
  <1>1. GroupScope(g) \in GroupScopes
    BY DEF GroupScopes
  <1>2. roles' \in SUBSET Assignments /\ \A r \in roles' : r[2] = "admin" => r \in roles
    BY <1>1, CreatorRows DEF CatalogInvariant, TypeOK
  <1>3. \A r \in CreatorRole(owner, GroupScope(g)) \cup CreatorRole(previous, GroupScope(g)) :
            r[3] \in GroupScopes
    BY <1>1, CreatorRows
  <1> QED BY <1>2, <1>3, OtherRoles DEF CatalogInvariant

\* A group made for its creator, or one that is there and gets a label.
LEMMA UpsertedGroup ==
    ASSUME CatalogInvariant, events' = events,
           NEW e \in Events, NEW n \in GroupNames, NEW u \in Users, NEW l \in Labels,
           NEW g \in GroupIds,
           \/ /\ GroupExists(g)
              /\ groups' = [groups EXCEPT ![g].label = l]
              /\ roles' = roles \cup CreatorRole(groups[g].creator, GroupScope(g))
           \/ /\ groups' = [groups EXCEPT ![g] = NewGroup(e, n, u, l)]
              /\ roles' = roles \cup CreatorRole(u, GroupScope(g))
    PROVE  /\ groups' \in [GroupIds -> GroupRows \cup {Unused, Gone}]
           /\ roles' \in SUBSET Assignments
           /\ \A r \in roles' : r[2] = "admin" => r \in roles
           /\ EventOwnersKnown'
  <1>1. PICK owner \in Owners, row \in GroupRows :
          /\ groups' = [groups EXCEPT ![g] = row]
          /\ roles' = roles \cup CreatorRole(owner, GroupScope(g))
    <2>1. CASE /\ GroupExists(g)
               /\ groups' = [groups EXCEPT ![g].label = l]
               /\ roles' = roles \cup CreatorRole(groups[g].creator, GroupScope(g))
      <3> DEFINE row == [groups[g] EXCEPT !.label = l]
      <3>1. row \in GroupRows /\ groups[g].creator \in Owners
        BY <2>1 DEF GroupExists, GroupRows
      <3>2. groups' = [groups EXCEPT ![g] = row]
        BY <2>1
      <3> HIDE DEF row
      <3> QED BY <2>1, <3>1, <3>2
    <2>2. CASE /\ groups' = [groups EXCEPT ![g] = NewGroup(e, n, u, l)]
               /\ roles' = roles \cup CreatorRole(u, GroupScope(g))
      <3>1. NewGroup(e, n, u, l) \in GroupRows /\ u \in Owners
        BY DEF NewGroup, GroupRows, Owners
      <3> QED BY <2>2, <3>1
    <2> QED BY <2>1, <2>2
  <1>2. roles' = (roles \ CreatorRole(NoUser, GroupScope(g))) \cup CreatorRole(owner, GroupScope(g))
    BY <1>1 DEF CreatorRole
  <1> QED BY <1>1, <1>2, GroupRowChanges, GroupRolesChange DEF CatalogInvariant

LEMMA GroupWrites ==
    ASSUME CatalogInvariant, NEW s \in Sessions, WriteGroups(s)
    PROVE  CatalogInvariant'
  <1>a. TypeOK /\ LiveNamesUnique /\ EventOwnersKnown
    BY DEF CatalogInvariant
  <1>b. At(s, "write") /\ Finish(s) /\ UNCHANGED <<bans, events, setting>>
    BY DEF WriteGroups, CreateGroup, UpdateGroup, RemoveGroup, TransferGroup,
       AssignGroupEditor, RevokeGroupEditor, Writes
  <1>c. /\ tx[s].req \in Requests /\ tx[s].req.user \in Users
        /\ Head(tx[s].todo) = "write" /\ Knows(tx[s])
    BY <1>b, WriterKnows, RequestFields
  <1>1. CASE CreateGroup(s)
    <2>1. /\ tx[s].req.event \in Events /\ tx[s].req.name \in RawNames
          /\ tx[s].req.label \in Labels /\ UNCHANGED merch
      BY <1>1, <1>c, RequestFields DEF CreateGroup, Writes
    <2>2. PICK e \in Events, u \in Users, l \in Labels, n \in GroupNames :
            /\ e = tx[s].req.event /\ u = tx[s].req.user /\ l = tx[s].req.label
            /\ n = Trim[tx[s].req.name]
      BY <1>1, <1>c, <2>1, NameAssumption DEF CreateGroup
    <2>3. PICK g \in GroupIds :
            \/ /\ GroupExists(g)
               /\ groups' = [groups EXCEPT ![g].label = l]
               /\ roles' = roles \cup CreatorRole(groups[g].creator, GroupScope(g))
            \/ /\ groups' = [groups EXCEPT ![g] = NewGroup(e, n, u, l)]
               /\ roles' = roles \cup CreatorRole(u, GroupScope(g))
      BY <1>1, <2>2 DEF CreateGroup, GroupAt
    <2>4. /\ groups' \in [GroupIds -> GroupRows \cup {Unused, Gone}]
          /\ roles' \in SUBSET Assignments
          /\ \A r \in roles' : r[2] = "admin" => r \in roles
          /\ EventOwnersKnown'
      BY <1>b, <2>3, UpsertedGroup
    <2>5. LiveNamesUnique' /\ ItemsKeepEvent
      BY <1>a, <2>1, SameMerch
    <2> QED BY <1>a, <1>b, <2>1, <2>4, <2>5, WriteDone DEF TypeOK
  <1>2. CASE UpdateGroup(s)
    <2>1. tx[s].req.label \in Labels /\ UNCHANGED <<roles, merch>>
      BY <1>2, <1>c, RequestFields DEF UpdateGroup, Writes
    <2>2. PICK g \in GroupIds, l \in Labels :
            GroupExists(g) /\ groups' = [groups EXCEPT ![g].label = l]
      BY <1>2, <2>1 DEF UpdateGroup, GroupAt
    <2>3. groups' \in [GroupIds -> GroupRows \cup {Unused, Gone}]
      <3> DEFINE row == [groups[g] EXCEPT !.label = l]
      <3>1. row \in GroupRows
        BY <2>2 DEF GroupExists, GroupRows
      <3>2. groups' = [groups EXCEPT ![g] = row]
        BY <2>2
      <3> HIDE DEF row
      <3> QED BY <1>a, <3>1, <3>2, GroupRowChanges
    <2>4. LiveNamesUnique' /\ EventOwnersKnown' /\ ItemsKeepEvent
      BY <1>a, <1>b, <2>1, SameMerch, SameEventRoles
    <2> QED BY <1>a, <1>b, <2>1, <2>3, <2>4, WriteDone DEF TypeOK
  <1>3. CASE RemoveGroup(s)
    <2>1. PICK g \in GroupIds :
            /\ groups' = [groups EXCEPT ![g] = Gone]
            /\ roles' = {x \in roles : x[3] # GroupScope(g)}
      BY <1>3 DEF RemoveGroup, GroupAt
    <2>2. \A m \in MerchIds : \/ merch'[m] = merch[m]
                              \/ /\ MerchExists(m)
                                 /\ merch'[m] = [merch[m] EXCEPT !.state = "deleted"]
      BY <1>3 DEF RemoveGroup
    <2>3. \A m \in MerchIds : \/ merch'[m] = merch[m]
                              \/ merch'[m] \in MerchRows /\ merch'[m].state = "deleted"
      BY <2>2 DEF MerchExists, MerchRows
    <2>4. merch' \in [MerchIds -> MerchRows \cup {Unused}]
      <3>1. \A m \in MerchIds : merch'[m] \in MerchRows \cup {Unused}
        BY <1>a, <2>3 DEF TypeOK
      <3> QED BY <1>3, <3>1 DEF RemoveGroup
    <2>5. LiveNamesUnique' /\ ItemsKeepEvent
      <3>1. \A m \in MerchIds : Live(m)' => Live(m) /\ merch'[m] = merch[m]
        BY <2>3 DEF Live, MerchExists
      <3>2. ItemsKeepEvent
        BY <2>2, <2>3 DEF ItemsKeepEvent, MerchExists, MerchRows
      <3> QED BY <1>a, <3>1, <3>2 DEF LiveNamesUnique, NameTaken
    <2>6. EventOwnersKnown'
      <3>1. \A u \in Users, e \in Events : <<u, "creator", EventScope(e)>>[3] # GroupScope(g)
        BY ScopesDiffer
      <3> QED BY <1>a, <1>b, <2>1, <3>1, SameEventRoles
    <2>7. groups' \in [GroupIds -> GroupRows \cup {Unused, Gone}] /\ roles' \subseteq roles
      BY <1>a, <2>1 DEF TypeOK
    <2> QED BY <1>a, <1>b, <2>4, <2>5, <2>6, <2>7, WriteDone DEF TypeOK
  <1>4. CASE TransferGroup(s)
    <2>1. tx[s].req.target \in Users /\ UNCHANGED merch
      BY <1>4, <1>c, RequestFields DEF TransferGroup, Writes
    <2>2. PICK g \in GroupIds, v \in Owners :
            /\ GroupExists(g)
            /\ groups' = [groups EXCEPT ![g].creator = v]
            /\ TransferGroupRole(g, groups[g].creator, v)
      BY <1>4, <2>1 DEF TransferGroup, GroupAt, Owners
    <2>3. groups' \in [GroupIds -> GroupRows \cup {Unused, Gone}]
      <3> DEFINE row == [groups[g] EXCEPT !.creator = v]
      <3>1. row \in GroupRows
        BY <2>2 DEF GroupExists, GroupRows
      <3>2. groups' = [groups EXCEPT ![g] = row]
        BY <2>2
      <3> HIDE DEF row
      <3> QED BY <1>a, <3>1, <3>2, GroupRowChanges
    <2>4. PICK previous : previous = groups[g].creator
      OBVIOUS
    <2>5. /\ roles' \in SUBSET Assignments
          /\ \A r \in roles' : r[2] = "admin" => r \in roles
          /\ EventOwnersKnown'
      BY <1>b, <2>2, <2>4, GroupRolesChange DEF TransferGroupRole
    <2>6. LiveNamesUnique' /\ ItemsKeepEvent
      BY <1>a, <2>1, SameMerch
    <2> QED BY <1>a, <1>b, <2>1, <2>3, <2>5, <2>6, WriteDone DEF TypeOK
  <1>5. CASE AssignGroupEditor(s) \/ RevokeGroupEditor(s)
    <2>1. tx[s].req.op \in GroupEditorOps /\ UNCHANGED <<groups, merch>>
      BY <1>5 DEF AssignGroupEditor, RevokeGroupEditor, Writes, GroupEditorOps
    <2>2. tx[s].gid \in GroupIds /\ tx[s].req.target \in Users
      BY <2>1, <1>c, RequestFields DEF Knows, GroupEditorOps
    <2>3. PICK g \in GroupIds, v \in Users :
            \/ roles' = roles \cup {<<v, "editor", GroupScope(g)>>}
            \/ roles' = roles \ {<<v, "editor", GroupScope(g)>>}
      BY <1>5, <2>2 DEF AssignGroupEditor, RevokeGroupEditor
    <2>4. <<v, "editor", GroupScope(g)>> \in Assignments
      BY DEF Assignments, ScopedRoles, GroupScopes
    <2>5. roles' \in SUBSET Assignments /\ \A r \in roles' : r[2] = "admin" => r \in roles
      BY <1>a, <2>3, <2>4 DEF TypeOK
    <2>6. LiveNamesUnique' /\ EventOwnersKnown' /\ ItemsKeepEvent
      <3>1. \A u \in Users, f \in Events :
                <<u, "creator", EventScope(f)>> # <<v, "editor", GroupScope(g)>>
        OBVIOUS
      <3> QED BY <1>a, <1>b, <2>1, <2>3, <3>1, SameMerch, SameEventRoles
    <2> QED BY <1>a, <1>b, <2>1, <2>5, <2>6, WriteDone DEF TypeOK
  <1> QED BY <1>1, <1>2, <1>3, <1>4, <1>5 DEF WriteGroups

LEMMA MerchWrites ==
    ASSUME CatalogInvariant, NEW s \in Sessions, WriteMerch(s)
    PROVE  CatalogInvariant'
  <1>a. TypeOK /\ LiveNamesUnique /\ EventOwnersKnown
    BY DEF CatalogInvariant
  <1>b. At(s, "write") /\ Finish(s) /\ UNCHANGED <<bans, events, setting>>
    BY DEF WriteMerch, CreateMerch, ChangeMerch, PublishMerch, DeleteMerch, Writes
  <1>c. /\ tx[s].req \in Requests /\ tx[s].req.user \in Users
        /\ Knows(tx[s]) /\ tx[s].seen \in SUBSET Assignments
    BY <1>a, <1>b, WriterKnows, RequestFields, BusyRequest
  <1>d. ASSUME UNCHANGED <<roles, groups>>, NEW m \in MerchIds, NEW row \in MerchRows,
               merch' = [merch EXCEPT ![m] = row],
               MerchExists(m) => row.event = merch[m].event,
               row.state # "deleted" => ~NameTaken(m, row.event, row.group, row.name)
        PROVE  CatalogInvariant'
    <2>1. /\ merch' \in [MerchIds -> MerchRows \cup {Unused}]
          /\ LiveNamesUnique' /\ ItemsKeepEvent
      BY <1>d, MerchRowChanges
    <2>2. EventOwnersKnown'
      BY <1>a, <1>b, <1>d, SameEventRoles
    <2> QED BY <1>a, <1>b, <1>d, <2>1, <2>2, WriteDone DEF TypeOK
  <1>1. CASE CreateMerch(s)
    <2> DEFINE r == tx[s].req
               row == [state |-> r.state, event |-> r.event, name |-> r.name,
                       group |-> r.group, creator |-> r.user]
    <2>1. /\ tx[s].req.op = "createMerch"
          /\ r.event \in Events /\ r.name \in MerchNames /\ r.group \in RawNames
          /\ r.state \in {"draft", "published"} /\ r.user \in Users
      BY <1>1, <1>c, RequestFields DEF CreateMerch, Writes
    <2>2. PICK m \in MerchIds :
            /\ ~NameTaken(m, r.event, r.group, r.name)
            /\ merch' = [merch EXCEPT ![m] = row]
            /\ ~MerchExists(m)
      BY <1>1, RowsAreRows DEF CreateMerch, InsertMerch, MerchExists
    <2>3. /\ row \in MerchRows /\ row.event = r.event /\ row.group = r.group
          /\ row.name = r.name
      BY <2>1 DEF MerchRows, Owners
    <2> HIDE DEF row
    <2>4. /\ merch' \in [MerchIds -> MerchRows \cup {Unused}]
          /\ LiveNamesUnique' /\ ItemsKeepEvent
      BY <2>2, <2>3, MerchRowChanges
    <2>5. Trim[r.group] \in GroupNames
      <3>1. Head(tx[s].todo) = "write"
        BY <1>b, WriterKnows
      <3>2. Trim[r.group] # NoName
        BY <1>c, <2>1, <3>1, FirstOfChain DEF Knows
      <3> QED BY <2>1, <3>2, NameAssumption
    <2>k. \A x \in tx[s].seen : x[2] = "creator" /\ x[3] \in GroupScopes
      BY <1>c, <2>1 DEF Knows, SeenBy
    <2>6. /\ groups' \in [GroupIds -> GroupRows \cup {Unused, Gone}]
          /\ roles' \in SUBSET Assignments
          /\ \A x \in roles' : x[2] = "admin" => x \in roles
          /\ EventOwnersKnown'
      <3>1. CASE groups' = groups /\ roles' \in {roles, roles \cup tx[s].seen}
        <4>1. roles' \in SUBSET Assignments /\ \A x \in roles' : x[2] = "admin" => x \in roles
          BY <1>a, <1>c, <2>k, <3>1 DEF TypeOK
        <4>2. EventOwnersKnown'
          <5>1. \A u \in Users, e \in Events : <<u, "creator", EventScope(e)>> \notin tx[s].seen
            <6> SUFFICES ASSUME NEW u \in Users, NEW e \in Events,
                                <<u, "creator", EventScope(e)>> \in tx[s].seen
                         PROVE  FALSE
              OBVIOUS
            <6>1. <<u, "creator", EventScope(e)>>[3] \in GroupScopes
              BY <2>k
            <6> QED BY <6>1, ScopesDiffer DEF GroupScopes
          <5> QED BY <1>a, <1>b, <3>1, <5>1, SameEventRoles
        <4> QED BY <1>a, <3>1, <4>1, <4>2 DEF TypeOK
      <3>2. CASE \E g \in GroupIds :
                    /\ groups' = [groups EXCEPT ![g] = NewGroup(r.event, Trim[r.group], r.user, NoLabel)]
                    /\ roles' = roles \cup CreatorRole(r.user, GroupScope(g))
        <4>1. PICK e \in Events, u \in Users, l \in Labels, n \in GroupNames :
                e = r.event /\ u = r.user /\ l = NoLabel /\ n = Trim[r.group]
          BY <2>1, <2>5, NameAssumption
        <4>2. PICK g \in GroupIds :
                /\ groups' = [groups EXCEPT ![g] = NewGroup(e, n, u, l)]
                /\ roles' = roles \cup CreatorRole(u, GroupScope(g))
          BY <3>2, <4>1
        <4> QED BY <1>b, <4>2, UpsertedGroup
      <3> QED BY <1>1, <3>1, <3>2 DEF CreateMerch, WithGroup
    <2> QED BY <1>a, <1>b, <2>4, <2>6, WriteDone DEF TypeOK
  <1>2. CASE ChangeMerch(s)
    <2> DEFINE r == tx[s].req
    <2>1. /\ r.merch \in MerchIds
          /\ EffectiveName(r) \in MerchNames \/ EffectiveName(r) = merch[r.merch].name
          /\ EffectiveGroup(r) \in RawNames \/ EffectiveGroup(r) = merch[r.merch].group
      BY <1>2, <1>c, RequestFields DEF ChangeMerch, Writes, EffectiveName, EffectiveGroup
    <2>2. PICK m \in MerchIds, name \in MerchNames, group \in RawNames :
            /\ Live(m) /\ merch[m].event = r.event
            /\ ~NameTaken(m, r.event, group, name)
            /\ merch' = [merch EXCEPT ![m].name = name, ![m].group = group]
      <3>1. Head(tx[s].todo) = "write" /\ tx[s].req.op \in MerchUpdateOps
        BY <1>2, <1>b, WriterKnows DEF ChangeMerch, Writes, MerchUpdateOps
      <3>2. merch[r.merch].event = r.event
        BY <1>c, <3>1 DEF Knows, OfEvent
      <3> QED BY <1>2, <2>1, <3>2 DEF ChangeMerch, Live, MerchExists, MerchRows
    <2> DEFINE row == [merch[m] EXCEPT !.name = name, !.group = group]
    <2>3. /\ row \in MerchRows /\ row.event = merch[m].event
          /\ row.group = group /\ row.name = name
      BY <2>2 DEF Live, MerchExists, MerchRows
    <2>4. merch' = [merch EXCEPT ![m] = row]
      BY <2>2, <1>a DEF Live, MerchExists, MerchRows, TypeOK
    <2>5. UNCHANGED <<roles, groups>>
      BY <1>2 DEF ChangeMerch
    <2> HIDE DEF row
    <2> QED BY <1>d, <2>2, <2>3, <2>4, <2>5
  <1>3. CASE PublishMerch(s)
    <2>1. PICK m \in MerchIds :
            Live(m) /\ merch' = [merch EXCEPT ![m].state = "published"]
      BY <1>3, <1>c, RequestFields DEF PublishMerch, Writes
    <2> DEFINE row == [merch[m] EXCEPT !.state = "published"]
    <2>2. /\ row \in MerchRows /\ row.event = merch[m].event
          /\ row.group = merch[m].group /\ row.name = merch[m].name
      BY <2>1 DEF Live, MerchExists, MerchRows
    <2>3. merch' = [merch EXCEPT ![m] = row]
      BY <2>1
    <2> HIDE DEF row
    <2>4. ~NameTaken(m, row.event, row.group, row.name)
      BY <1>a, <2>1, <2>2 DEF LiveNamesUnique
    <2>5. UNCHANGED <<roles, groups>>
      BY <1>3 DEF PublishMerch
    <2> QED BY <1>d, <2>2, <2>3, <2>4, <2>5
  <1>4. CASE DeleteMerch(s)
    <2>1. PICK m \in MerchIds :
            MerchExists(m) /\ merch' = [merch EXCEPT ![m].state = "deleted"]
      BY <1>4, <1>c, RequestFields DEF DeleteMerch, Writes
    <2> DEFINE row == [merch[m] EXCEPT !.state = "deleted"]
    <2>2. row \in MerchRows /\ row.state = "deleted" /\ row.event = merch[m].event
      BY <2>1 DEF MerchExists, MerchRows
    <2>3. merch' = [merch EXCEPT ![m] = row]
      BY <2>1
    <2> HIDE DEF row
    <2>4. UNCHANGED <<roles, groups>>
      BY <1>4 DEF DeleteMerch
    <2> QED BY <1>d, <2>2, <2>3, <2>4
  <1> QED BY <1>1, <1>2, <1>3, <1>4 DEF WriteMerch

-----------------------------------------------------------------------------
LEMMA CatalogInitially == Init => CatalogInvariant
  <1> SUFFICES ASSUME Init PROVE CatalogInvariant
    OBVIOUS
  <1>1. TypeOK
    <2>1. Start[setting] \in StartingTables
      BY StartAssumption DEF Init
    <2> QED BY <2>1 DEF Init, TypeOK, StartingTables, BanStates
  <1>2. LiveNamesUnique
    BY RowsAreRows DEF Init, LiveNamesUnique, Live, MerchExists
  <1>3. EventOwnersKnown
    BY BackfillAssumption DEF Init, EventOwnersKnown, Holders
  <1>4. (HasAdmin(roles) => AdminAtStart) /\ RequestsKnow
    BY DEF Init, AdminAtStart, HasAdmin, RequestsKnow
  <1> QED BY <1>1, <1>2, <1>3, <1>4 DEF CatalogInvariant

LEMMA NothingMoves ==
    ASSUME CatalogInvariant, UNCHANGED <<roles, events, groups, merch, tx, setting>>,
           bans' \in [Users -> BanStates]
    PROVE  CatalogInvariant'
  <1>1. TypeOK'
    BY DEF CatalogInvariant, TypeOK
  <1>2. LiveNamesUnique' /\ EventOwnersKnown' /\ ItemsKeepEvent
    BY SameMerch, SameEventRoles DEF CatalogInvariant
  <1>3. (HasAdmin(roles) => AdminAtStart)' /\ RequestsKnow'
    BY DEF CatalogInvariant, AdminAtStart, HasAdmin, RequestsKnow, Knows, OfEvent, MerchExists
  <1> QED BY <1>1, <1>2, <1>3 DEF CatalogInvariant

LEMMA CatalogInductive == CatalogInvariant /\ [Next]_vars => CatalogInvariant'
  <1> SUFFICES ASSUME CatalogInvariant, [Next]_vars PROVE CatalogInvariant'
    OBVIOUS
  <1>1. ASSUME NEW s \in Sessions, NEW r \in Workload[setting], Receive(s, r)
        PROVE  CatalogInvariant'
    BY <1>1, Receiving
  <1>2. ASSUME NEW s \in Sessions,
               \/ ReadOrCheck(s)
               \/ WriteUsers(s) \/ WriteEvents(s) \/ WriteGroups(s) \/ WriteMerch(s)
        PROVE  CatalogInvariant'
    BY <1>2, ReadingOrChecking, UserWrites, EventWrites, GroupWrites, MerchWrites
  <1>3. ASSUME NEW u \in Users, BanExpires(u) PROVE CatalogInvariant'
    <2>1. bans' \in [Users -> BanStates]
      BY <1>3 DEF BanExpires, CatalogInvariant, TypeOK, BanStates
    <2> QED BY <1>3, <2>1, NothingMoves DEF BanExpires
  <1>4. CASE UNCHANGED vars
    BY <1>4, NothingMoves DEF vars, tables, CatalogInvariant, TypeOK
  <1> QED BY <1>1, <1>2, <1>3, <1>4 DEF Next

LEMMA CatalogStays == Spec => []CatalogInvariant
  BY CatalogInitially, CatalogInductive, PTL DEF Spec

(***************************************************************************)
(* Every table keeps its type, and every request on its way.               *)
(***************************************************************************)
THEOREM CatalogTypeCorrect == Spec => []TypeOK
  <1>1. CatalogInvariant => TypeOK
    BY DEF CatalogInvariant
  <1> QED BY <1>1, CatalogStays, PTL

(***************************************************************************)
(* However many requests create, rename, move and delete items at the same *)
(* time, two live items of one group name never share a name: the test is  *)
(* a statement of its own, the index decides (repositories/merch.rs).      *)
(***************************************************************************)
THEOREM LiveNamesStayUnique == Spec => []LiveNamesUnique
  <1>1. CatalogInvariant => LiveNamesUnique
    BY DEF CatalogInvariant
  <1> QED BY <1>1, CatalogStays, PTL

(***************************************************************************)
(* No sequence of requests makes an admin in a system that starts without  *)
(* one, whatever roles are granted, whoever owns what (services/rbac.rs).  *)
(***************************************************************************)
THEOREM AdminsComeFromAdmins == Spec => []NoAdminFromNowhere
  <1>1. CatalogInvariant => NoAdminFromNowhere
    BY DEF CatalogInvariant, NoAdminFromNowhere, AdminAtStart
  <1> QED BY <1>1, CatalogStays, PTL

-----------------------------------------------------------------------------
(***************************************************************************)
(* What a step does to an item that was deleted                            *)
(***************************************************************************)
LEMMA DeletedItemStays ==
    ASSUME CatalogInvariant, [Next]_vars, NEW m \in MerchIds,
           MerchExists(m), merch[m].state = "deleted"
    PROVE  merch'[m] = merch[m]
  <1>a. merch \in [MerchIds -> MerchRows \cup {Unused}] /\ merch[m] # Unused /\ ~Live(m)
    BY RowsAreRows DEF CatalogInvariant, TypeOK, MerchExists, Live
  <1>b. [merch[m] EXCEPT !.state = "deleted"] = merch[m]
    BY DEF MerchExists, MerchRows
  <1>1. ASSUME NEW s \in Sessions, WriteMerch(s) PROVE merch'[m] = merch[m]
    <2>1. CASE CreateMerch(s)
      BY <1>a, <2>1 DEF CreateMerch, InsertMerch
    <2>2. CASE ChangeMerch(s)
      <3>1. tx[s].req.merch # m
        BY <1>a, <2>2 DEF ChangeMerch
      <3> QED BY <1>a, <2>2, <3>1 DEF ChangeMerch
    <2>3. CASE PublishMerch(s)
      BY <1>a, <2>3 DEF PublishMerch
    <2>4. CASE DeleteMerch(s)
      BY <1>a, <1>b, <2>4 DEF DeleteMerch
    <2> QED BY <1>1, <2>1, <2>2, <2>3, <2>4 DEF WriteMerch
  <1>2. ASSUME NEW s \in Sessions, WriteGroups(s) PROVE merch'[m] = merch[m]
    <2>1. CASE RemoveGroup(s)
      BY <1>b, <2>1 DEF RemoveGroup
    <2> QED BY <1>2, <2>1 DEF WriteGroups, CreateGroup, UpdateGroup, TransferGroup,
                              AssignGroupEditor, RevokeGroupEditor
  <1>3. ASSUME NEW s \in Sessions, WriteUsers(s) \/ WriteEvents(s) PROVE merch'[m] = merch[m]
    BY <1>3 DEF WriteUsers, SetRole, SetBan, LiftBan, WriteEvents, CreateEvent, UpdateEvent,
                PublishEvent, DeleteEvent, TransferEvent, AssignEventEditor, RevokeEventEditor
  <1>4. ASSUME UNCHANGED merch PROVE merch'[m] = merch[m]
    BY <1>4
  <1>5. \A s \in Sessions : ReadOrCheck(s) => UNCHANGED merch
    BY DEF ReadOrCheck, ReadEvent, ReadGroup, ReadMerch, ReadTarget, Authorize, AuthorizeOwner,
           CheckNewName, CheckChangedName, EnsureGroup, ClearRoles, Abandon, tables
  <1> QED BY <1>1, <1>2, <1>3, <1>4, <1>5 DEF Next, Receive, BanExpires, vars, tables

(***************************************************************************)
(* A deleted item is never changed again: an update that found it alive    *)
(* tests the row it writes, and a removal rewrites what is there.          *)
(***************************************************************************)
THEOREM DeletedMerchStaysFrozen == Spec => DeletedMerchIsFrozen
  <1>1. CatalogInvariant /\ [Next]_vars =>
          [\A m \in MerchIds :
            MerchExists(m) /\ merch[m].state = "deleted" => merch'[m] = merch[m]]_vars
    BY DeletedItemStays
  <1> QED BY <1>1, CatalogStays, PTL DEF Spec, DeletedMerchIsFrozen

-----------------------------------------------------------------------------
(***************************************************************************)
(* What a step does to an event and to its creator role: nothing, a change *)
(* that keeps the owner, creation, removal, or a transfer that looks at    *)
(* the owner of that moment.                                               *)
(***************************************************************************)
SameCreatorRole(e) ==
    \A u \in Users : <<u, "creator", EventScope(e)>> \in roles'
                        <=> <<u, "creator", EventScope(e)>> \in roles

TransferredBy(e, s) ==
    /\ tx[s] # Idle /\ tx'[s] = Idle
    /\ \/ tx[s].req.op = "adminTransferEvent"
       \/ tx[s].req.op = "transferEvent" /\ tx[s].req.user = events[e].creator

EventMove(e) ==
    \/ events'[e] = events[e] /\ (events[e] = Gone => SameCreatorRole(e))
    \/ EventExists(e) /\ EventExists(e)' /\ events'[e].creator = events[e].creator
    \/ events[e] = Unused /\ EventExists(e)' /\ events'[e].creator \in Users
    \/ EventExists(e) /\ events'[e] = Gone /\ SameCreatorRole(e)
    \/ /\ EventExists(e) /\ EventExists(e)'
       /\ events'[e].creator \in Users
       /\ \E s \in Sessions : TransferredBy(e, s)

LEMMA ElsewhereNothingMoves ==
    ASSUME NEW e, NEW added, NEW removed, roles' = (roles \ removed) \cup added,
           \A r \in added \cup removed : r[2] # "creator" \/ r[3] # EventScope(e)
    PROVE  SameCreatorRole(e)
  <1>1. ASSUME NEW u \in Users PROVE <<u, "creator", EventScope(e)>> \notin added \cup removed
    OBVIOUS
  <1> QED BY <1>1 DEF SameCreatorRole

LEMMA UsersLeaveEvents ==
    ASSUME CatalogInvariant, NEW s \in Sessions, WriteUsers(s), NEW e \in Events
    PROVE  events' = events /\ SameCreatorRole(e)
  <1>1. CASE SetRole(s)
    <2> DEFINE row == <<tx[s].req.target, tx[s].req.role, Global>>
    <2>1. tx[s].req.op = "setRole" /\ Knows(tx[s])
      BY <1>1, WriterKnows DEF SetRole, Writes
    <2>2. roles' = (roles \ tx[s].seen) \cup {row} /\ events' = events
      BY <1>1 DEF SetRole
    <2>3. \A r \in tx[s].seen \cup {row} : r[3] # EventScope(e)
      BY <2>1, ScopesDiffer DEF Knows, SeenBy
    <2> HIDE DEF row
    <2> QED BY <2>2, <2>3, ElsewhereNothingMoves
  <1>2. CASE SetBan(s) \/ LiftBan(s)
    BY <1>2 DEF SetBan, LiftBan, SameCreatorRole
  <1> QED BY <1>1, <1>2 DEF WriteUsers

LEMMA GroupsLeaveEvents ==
    ASSUME NEW s \in Sessions, WriteGroups(s), NEW e \in Events
    PROVE  events' = events /\ SameCreatorRole(e)
  <1>0. events' = events
    BY DEF WriteGroups, CreateGroup, UpdateGroup, RemoveGroup, TransferGroup,
           AssignGroupEditor, RevokeGroupEditor
  <1>1. CASE CreateGroup(s)
    <2>1. PICK g, u : roles' = roles \cup CreatorRole(u, GroupScope(g))
      BY <1>1 DEF CreateGroup, GroupAt
    <2>2. \A r \in CreatorRole(u, GroupScope(g)) : r[3] # EventScope(e)
      BY CreatorRows, ScopesDiffer
    <2>3. roles' = (roles \ {}) \cup CreatorRole(u, GroupScope(g))
      BY <2>1
    <2> QED BY <1>0, <2>2, <2>3, ElsewhereNothingMoves
  <1>2. CASE UpdateGroup(s)
    BY <1>0, <1>2 DEF UpdateGroup, SameCreatorRole
  <1>3. CASE RemoveGroup(s)
    <2>1. PICK g : roles' = {x \in roles : x[3] # GroupScope(g)}
      BY <1>3 DEF RemoveGroup
    <2>2. EventScope(e) # GroupScope(g)
      BY ScopesDiffer
    <2> QED BY <1>0, <2>1, <2>2 DEF SameCreatorRole
  <1>4. CASE TransferGroup(s)
    <2>1. PICK g, u, v :
            roles' = (roles \ CreatorRole(u, GroupScope(g))) \cup CreatorRole(v, GroupScope(g))
      BY <1>4 DEF TransferGroup, TransferGroupRole, GroupAt
    <2>2. \A r \in CreatorRole(u, GroupScope(g)) \cup CreatorRole(v, GroupScope(g)) :
            r[3] # EventScope(e)
      BY CreatorRows, ScopesDiffer
    <2> QED BY <1>0, <2>1, <2>2, ElsewhereNothingMoves
  <1>5. CASE AssignGroupEditor(s) \/ RevokeGroupEditor(s)
    <2>1. PICK v, g : \/ roles' = roles \cup {<<v, "editor", GroupScope(g)>>}
                      \/ roles' = roles \ {<<v, "editor", GroupScope(g)>>}
      BY <1>5 DEF AssignGroupEditor, RevokeGroupEditor
    <2>2. \A u \in Users : <<u, "creator", EventScope(e)>> # <<v, "editor", GroupScope(g)>>
      OBVIOUS
    <2> QED BY <1>0, <2>1, <2>2 DEF SameCreatorRole
  <1> QED BY <1>1, <1>2, <1>3, <1>4, <1>5 DEF WriteGroups

LEMMA MerchLeavesEvents ==
    ASSUME CatalogInvariant, NEW s \in Sessions, WriteMerch(s), NEW e \in Events
    PROVE  events' = events /\ SameCreatorRole(e)
  <1>1. CASE CreateMerch(s)
    <2>1. tx[s].req.op = "createMerch" /\ Knows(tx[s])
      BY <1>1, WriterKnows DEF CreateMerch, Writes
    <2>2. CASE roles' = roles
      BY <1>1, <2>2 DEF CreateMerch, SameCreatorRole
    <2>3. CASE roles' = roles \cup tx[s].seen
      <3>1. \A r \in tx[s].seen : r[3] # EventScope(e)
        BY <2>1, ScopesDiffer DEF Knows, SeenBy, GroupScopes
      <3>2. roles' = (roles \ {}) \cup tx[s].seen
        BY <2>3
      <3> QED BY <1>1, <3>1, <3>2, ElsewhereNothingMoves DEF CreateMerch
    <2>4. ASSUME NEW g \in GroupIds,
                 roles' = roles \cup CreatorRole(tx[s].req.user, GroupScope(g))
          PROVE  SameCreatorRole(e)
      <3>1. \A r \in CreatorRole(tx[s].req.user, GroupScope(g)) : r[3] # EventScope(e)
        BY CreatorRows, ScopesDiffer
      <3>2. roles' = (roles \ {}) \cup CreatorRole(tx[s].req.user, GroupScope(g))
        BY <2>4
      <3> QED BY <3>1, <3>2, ElsewhereNothingMoves
    <2> QED BY <1>1, <2>2, <2>3, <2>4 DEF CreateMerch, WithGroup
  <1>2. CASE ChangeMerch(s) \/ PublishMerch(s) \/ DeleteMerch(s)
    BY <1>2 DEF ChangeMerch, PublishMerch, DeleteMerch, SameCreatorRole
  <1> QED BY <1>1, <1>2 DEF WriteMerch

LEMMA EventsMove ==
    ASSUME CatalogInvariant, NEW s \in Sessions, WriteEvents(s), NEW e \in Events
    PROVE  EventMove(e)
  <1>a. events \in [Events -> EventRows \cup {Unused, Gone}]
    BY DEF CatalogInvariant, TypeOK
  <1>b. At(s, "write")
    BY DEF WriteEvents, CreateEvent, UpdateEvent, PublishEvent, DeleteEvent, TransferEvent,
       AssignEventEditor, RevokeEventEditor, Writes
  <1>c. tx[s].req \in Requests /\ tx[s].req.user \in Users /\ tx[s] # Idle
    BY <1>b, WriterKnows, RequestFields
  <1>1. CASE CreateEvent(s)
    <2> DEFINE row == [state |-> tx[s].req.state, creator |-> tx[s].req.user,
                       label |-> tx[s].req.label]
    <2>1. PICK f \in Events :
            /\ events[f] = Unused
            /\ events' = [events EXCEPT ![f] = row]
            /\ roles' = roles \cup CreatorRole(tx[s].req.user, EventScope(f))
      BY <1>1 DEF CreateEvent
    <2>2. row \in EventRows /\ row.creator \in Users
      BY <1>1, <1>c, RequestFields DEF CreateEvent, Writes, EventRows, Owners
    <2> HIDE DEF row
    <2>3. CASE f = e
      BY <1>a, <2>1, <2>2, <2>3 DEF EventMove, EventExists
    <2>4. CASE f # e
      <3>1. \A r \in CreatorRole(tx[s].req.user, EventScope(f)) : r[3] # EventScope(e)
        BY <2>4, CreatorRows DEF EventScope
      <3>2. roles' = (roles \ {}) \cup CreatorRole(tx[s].req.user, EventScope(f))
        BY <2>1
      <3>3. SameCreatorRole(e)
        BY <3>1, <3>2, ElsewhereNothingMoves
      <3> QED BY <1>a, <2>1, <2>4, <3>3 DEF EventMove
    <2> QED BY <2>3, <2>4
  <1>2. CASE UpdateEvent(s) \/ PublishEvent(s)
    <2>1. PICK f \in Events, row \in EventRows :
            EventExists(f) /\ events' = [events EXCEPT ![f] = row]
              /\ row.creator = events[f].creator
      <3>1. CASE UpdateEvent(s)
        <4>1. PICK f \in Events, l \in Labels :
                EventExists(f) /\ events' = [events EXCEPT ![f].label = l]
          BY <1>c, <3>1, RequestFields DEF UpdateEvent, Writes
        <4> DEFINE row == [events[f] EXCEPT !.label = l]
        <4>2. row \in EventRows /\ row.creator = events[f].creator
          BY <4>1 DEF EventExists, EventRows
        <4>3. events' = [events EXCEPT ![f] = row]
          BY <4>1
        <4> HIDE DEF row
        <4> QED BY <4>1, <4>2, <4>3
      <3>2. CASE PublishEvent(s)
        <4>1. PICK f \in Events :
                EventExists(f) /\ events' = [events EXCEPT ![f].state = "published"]
          BY <1>c, <3>2, RequestFields DEF PublishEvent, Writes
        <4> DEFINE row == [events[f] EXCEPT !.state = "published"]
        <4>2. row \in EventRows /\ row.creator = events[f].creator
          BY <4>1 DEF EventExists, EventRows
        <4>3. events' = [events EXCEPT ![f] = row]
          BY <4>1
        <4> HIDE DEF row
        <4> QED BY <4>1, <4>2, <4>3
      <3> QED BY <1>2, <3>1, <3>2
    <2>2. SameCreatorRole(e)
      BY <1>2 DEF UpdateEvent, PublishEvent, SameCreatorRole
    <2> QED BY <1>a, <2>1, <2>2 DEF EventMove, EventExists
  <1>3. CASE DeleteEvent(s)
    <2>1. PICK f \in Events : EventExists(f) /\ events' = [events EXCEPT ![f] = Gone]
      BY <1>3, <1>c, RequestFields DEF DeleteEvent, Writes
    <2>2. SameCreatorRole(e)
      BY <1>3 DEF DeleteEvent, SameCreatorRole
    <2> QED BY <1>a, <2>1, <2>2 DEF EventMove
  <1>4. CASE TransferEvent(s)
    <2>1. PICK f \in Events, v \in Users :
            /\ EventExists(f)
            /\ events' = [events EXCEPT ![f].creator = v]
            /\ TransferEventRole(f, events[f].creator, v)
            /\ MayTransfer(tx[s].req, events[f].creator)
      BY <1>4, <1>c, RequestFields DEF TransferEvent, Writes
    <2> DEFINE row == [events[f] EXCEPT !.creator = v]
    <2>2. row \in EventRows /\ row.creator = v /\ events' = [events EXCEPT ![f] = row]
      BY <2>1 DEF EventExists, EventRows, Owners
    <2> HIDE DEF row
    <2>3. CASE f = e
      <3>1. tx' = [tx EXCEPT ![s] = Idle] /\ tx \in [Sessions -> Busy \cup {Idle}]
        BY <1>4 DEF TransferEvent, Finish, CatalogInvariant, TypeOK
      <3>2. TransferredBy(e, s)
        BY <1>4, <1>c, <2>1, <2>3, <3>1 DEF TransferredBy, TransferEvent, Writes, MayTransfer
      <3> QED BY <1>a, <2>1, <2>2, <2>3, <3>2 DEF EventMove, EventExists
    <2>4. CASE f # e
      <3>1. \A r \in CreatorRole(v, EventScope(f)) \cup CreatorRole(events[f].creator, EventScope(f)) :
                r[3] # EventScope(e)
        BY <2>4, CreatorRows DEF EventScope
      <3>2. SameCreatorRole(e)
        BY <2>1, <3>1, ElsewhereNothingMoves DEF TransferEventRole
      <3> QED BY <1>a, <2>2, <2>4, <3>2 DEF EventMove
    <2> QED BY <2>3, <2>4
  <1>5. CASE AssignEventEditor(s) \/ RevokeEventEditor(s)
    <2>1. PICK v, f : \/ roles' = roles \cup {<<v, "editor", EventScope(f)>>}
                      \/ roles' = roles \ {<<v, "editor", EventScope(f)>>}
      BY <1>5 DEF AssignEventEditor, RevokeEventEditor
    <2>2. \A u \in Users : <<u, "creator", EventScope(e)>> # <<v, "editor", EventScope(f)>>
      OBVIOUS
    <2>3. SameCreatorRole(e)
      BY <2>1, <2>2 DEF SameCreatorRole
    <2> QED BY <1>5, <2>3 DEF EventMove, AssignEventEditor, RevokeEventEditor
  <1> QED BY <1>1, <1>2, <1>3, <1>4, <1>5 DEF WriteEvents

LEMMA EveryEventMoves ==
    ASSUME CatalogInvariant, [Next]_vars, NEW e \in Events
    PROVE  EventMove(e)
  <1>1. ASSUME UNCHANGED <<roles, events>> PROVE EventMove(e)
    BY <1>1 DEF EventMove, SameCreatorRole
  <1>2. \A s \in Sessions : ReadOrCheck(s) => UNCHANGED <<roles, events>>
    BY DEF ReadOrCheck, ReadEvent, ReadGroup, ReadMerch, ReadTarget, Authorize, AuthorizeOwner,
           CheckNewName, CheckChangedName, EnsureGroup, ClearRoles, Abandon, tables
  <1>3. ASSUME NEW s \in Sessions, WriteUsers(s) \/ WriteGroups(s) \/ WriteMerch(s)
        PROVE  EventMove(e)
    BY <1>3, UsersLeaveEvents, GroupsLeaveEvents, MerchLeavesEvents DEF EventMove
  <1> QED BY <1>1, <1>2, <1>3, EventsMove DEF Next, Receive, BanExpires, vars, tables

(***************************************************************************)
(* An event changes hands by the will of the owner it has at that moment,  *)
(* or by the staff's transfer, however many transfers are on their way.    *)
(***************************************************************************)
THEOREM OwnersDecide == Spec => OwnerDecides
  <1>1. CatalogInvariant /\ [Next]_vars =>
          [\A e \in Events :
            EventExists(e) /\ EventExists(e)' /\ events'[e].creator # events[e].creator
            => \E s \in Sessions :
                 /\ tx[s] # Idle
                 /\ tx'[s] = Idle
                 /\ \/ tx[s].req.op = "adminTransferEvent"
                    \/ tx[s].req.op = "transferEvent"
                         /\ tx[s].req.user = events[e].creator]_vars
    BY EveryEventMoves, RowsAreRows DEF EventMove, TransferredBy, EventExists
  <1> QED BY <1>1, CatalogStays, PTL DEF Spec, OwnerDecides

-----------------------------------------------------------------------------
(***************************************************************************)
(* The refinement of Ownership                                             *)
(***************************************************************************)
LEMMA MovesAreOwnership ==
    ASSUME NEW e \in Events, EventMove(e), TypeOK, TypeOK',
           EventOwnersKnown, EventOwnersKnown'
    PROVE  [EventTitle(e)!Next]_(EventTitle(e)!vars)
  <1>a. /\ events[e] \in EventRows \cup {Unused, Gone}
        /\ events'[e] \in EventRows \cup {Unused, Gone}
    BY DEF TypeOK
  <1>b. /\ events[e] # Gone => Holders(EventScope(e)) = OwnerSet(events[e])
        /\ events'[e] # Gone => Holders(EventScope(e))' = OwnerSet(events'[e])
        /\ SameCreatorRole(e) => Holders(EventScope(e))' = Holders(EventScope(e))
    BY DEF EventOwnersKnown, Holders, HoldersOf, SameCreatorRole
  <1>1. CASE events'[e] = events[e] /\ (events[e] = Gone => SameCreatorRole(e))
    <2>1. Fate(events[e])' = Fate(events[e])
      BY <1>1 DEF Fate
    <2>2. Holders(EventScope(e))' = Holders(EventScope(e))
      BY <1>1, <1>b
    <2> QED BY <2>1, <2>2 DEF EventTitle!vars
  <1>2. CASE EventExists(e) /\ EventExists(e)' /\ events'[e].creator = events[e].creator
    <2>1. /\ Fate(events[e]) = <<"owned", events[e].creator>>
          /\ Fate(events[e])' = <<"owned", events[e].creator>>
      BY <1>2, RowsAreRows DEF EventExists, Fate
    <2>2. Holders(EventScope(e))' = Holders(EventScope(e))
      BY <1>2, <1>b, RowsAreRows DEF EventExists, OwnerSet
    <2> QED BY <2>1, <2>2 DEF EventTitle!vars
  <1>3. CASE events[e] = Unused /\ EventExists(e)' /\ events'[e].creator \in Users
    <2>1. /\ Fate(events[e]) = <<"unborn">>
          /\ Fate(events[e])' = <<"owned", events'[e].creator>>
      BY <1>3, RowsAreRows DEF EventExists, Fate
    <2>2. Holders(EventScope(e))' = {events'[e].creator}
      BY <1>3, <1>b, RowsAreRows, NoOwnerAssumption DEF EventExists, OwnerSet
    <2> QED BY <1>3, <2>1, <2>2
            DEF EventTitle!Next, EventTitle!Create, EventTitle!Unborn, EventTitle!OwnedBy
  <1>4. CASE EventExists(e) /\ events'[e] = Gone /\ SameCreatorRole(e)
    <2>1. /\ Fate(events[e]) = <<"owned", events[e].creator>>
          /\ Fate(events[e])' = <<"dead">>
          /\ events[e].creator \in Owners
      BY <1>4, RowsAreRows DEF EventExists, Fate, EventRows
    <2>2. Holders(EventScope(e))' = Holders(EventScope(e))
      BY <1>4, <1>b
    <2> QED BY <1>4, <2>1, <2>2
            DEF EventTitle!Next, EventTitle!End, EventTitle!Owned, EventTitle!Dead,
                EventTitle!OwnedBy, Owners
  <1>5. CASE /\ EventExists(e) /\ EventExists(e)'
             /\ events'[e].creator \in Users /\ events'[e].creator # events[e].creator
    <2>1. /\ Fate(events[e]) = <<"owned", events[e].creator>>
          /\ Fate(events[e])' = <<"owned", events'[e].creator>>
          /\ events[e].creator \in Owners
      BY <1>5, RowsAreRows DEF EventExists, Fate, EventRows
    <2>2. Holders(EventScope(e))' = {events'[e].creator}
      BY <1>5, <1>b, RowsAreRows, NoOwnerAssumption DEF EventExists, OwnerSet
    <2> QED BY <1>5, <2>1, <2>2
            DEF EventTitle!Next, EventTitle!Transfer, EventTitle!Owned, EventTitle!OwnedBy, Owners
  <1> QED BY <1>1, <1>2, <1>3, <1>4, <1>5 DEF EventMove

(***************************************************************************)
(* Events implement Ownership: from its creation to its removal the owner  *)
(* of an event, and nobody else, holds the creator role in it, and the two *)
(* change in one step, whoever else is at work.                            *)
(***************************************************************************)
THEOREM EventsStayOwned == Spec => EventsAreOwned
  <1>1. Init => \A e \in Events : EventTitle(e)!Init
    <2> SUFFICES ASSUME Init, NEW e \in Events PROVE EventTitle(e)!Init
      OBVIOUS
    <2>1. TypeOK /\ EventOwnersKnown
      BY CatalogInitially DEF CatalogInvariant
    <2>2. events[e] \in EventRows \cup {Unused}
      BY StartAssumption DEF Init, StartingTables
    <2>3. Holders(EventScope(e)) = OwnerSet(events[e])
      BY <2>1, <2>2, RowsAreRows DEF EventOwnersKnown
    <2>4. CASE events[e] = Unused
      BY <2>3, <2>4 DEF Fate, OwnerSet, EventTitle!Init, EventTitle!Unborn
    <2>5. CASE events[e] \in EventRows
      BY <2>3, <2>5, RowsAreRows
         DEF Fate, OwnerSet, EventRows, Owners, EventTitle!Init, EventTitle!OwnedBy
    <2> QED BY <2>2, <2>4, <2>5
  <1>2. CatalogInvariant /\ CatalogInvariant' /\ [Next]_vars =>
          [\A e \in Events : [EventTitle(e)!Next]_(EventTitle(e)!vars)]_vars
    BY EveryEventMoves, MovesAreOwnership DEF CatalogInvariant
  <1> QED BY <1>1, <1>2, CatalogStays, PTL DEF Spec, EventsAreOwned

-----------------------------------------------------------------------------
(***************************************************************************)
(* Groups.  create_merch inserts the role of a creator it has read, so     *)
(* that a transfer or a removal in between separates column and role (run  *)
(* late_role).  Where no such request is served beside a creation, what it *)
(* has found stands until it commits, and groups are owned as events are.  *)
(***************************************************************************)
HandOverOps == {"transferGroup", "adminTransferGroup", "removeGroup"}

CreationsMeetNoHandOver ==
    \A x \in Settings :
        \/ \A s, t \in Servers[x] : s = t
        \/ \A r \in Workload[x] : r.op # "createMerch"
        \/ \A r \in Workload[x] : r.op \notin HandOverOps

WorkIsServed ==
    \A s \in Sessions :
        tx[s] # Idle => s \in Servers[setting] /\ tx[s].req \in Workload[setting]

FoundRolesStand ==
    \A s \in Sessions :
        tx[s] # Idle /\ tx[s].req.op = "createMerch" => tx[s].seen \subseteq roles

GroupOwnersKnown ==
    \A g \in GroupIds : groups[g] # Gone => Holders(GroupScope(g)) = OwnerSet(groups[g])

GroupInvariant ==
    CatalogInvariant /\ WorkIsServed /\ FoundRolesStand /\ GroupOwnersKnown

-----------------------------------------------------------------------------
(***************************************************************************)
(* What a step does to the creator roles of groups                         *)
(***************************************************************************)
SameGroupCreators ==
    \A u \in Users, c \in GroupScopes :
        <<u, "creator", c>> \in roles' <=> <<u, "creator", c>> \in roles

\* What no write takes away, outside of transfers and removals.
CreatorsStay ==
    \A u \in Users, c \in GroupScopes :
        <<u, "creator", c>> \in roles => <<u, "creator", c>> \in roles'

\* What the requests on users and on events do to groups.
GroupsStayOrGo ==
    \A g \in GroupIds : groups'[g] = groups[g] \/ (GroupExists(g) /\ groups'[g] = Gone)

QuietOnGroups == SameGroupCreators /\ GroupsStayOrGo

SameHolders(g) == Holders(GroupScope(g))' = Holders(GroupScope(g))

GroupMove(g) ==
    \/ groups'[g] = groups[g] /\ SameHolders(g)
    \/ /\ GroupExists(g) /\ GroupExists(g)'
       /\ groups'[g].creator = groups[g].creator /\ SameHolders(g)
    \/ /\ groups[g] = Unused /\ GroupExists(g)'
       /\ groups'[g].creator \in Users
       /\ Holders(GroupScope(g))' = Holders(GroupScope(g)) \cup {groups'[g].creator}
    \/ /\ GroupExists(g) /\ groups'[g] = Gone
       /\ SameHolders(g) \/ Holders(GroupScope(g))' = {}
    \/ /\ GroupExists(g) /\ GroupExists(g)'
       /\ groups'[g].creator \in Users /\ groups'[g].creator # groups[g].creator
       /\ Holders(GroupScope(g))' = (Holders(GroupScope(g)) \ {groups[g].creator})
                                        \cup {groups'[g].creator}

LEMMA SameCreatorsSameHolders ==
    ASSUME SameGroupCreators, NEW g \in GroupIds
    PROVE  SameHolders(g)
  BY DEF SameGroupCreators, SameHolders, Holders, HoldersOf, GroupScopes

\* Roles added or removed that are no creator roles of groups.
LEMMA NoGroupRoleMoves ==
    ASSUME NEW added, NEW removed, roles' = (roles \ removed) \cup added,
           \A r \in added \cup removed : r[2] # "creator" \/ r[3] \notin GroupScopes
    PROVE  SameGroupCreators
  <1>1. ASSUME NEW u \in Users, NEW c \in GroupScopes
        PROVE  <<u, "creator", c>> \notin added \cup removed
    OBVIOUS
  <1> QED BY <1>1 DEF SameGroupCreators

LEMMA OtherScopes ==
    /\ Global \notin GroupScopes
    /\ \A e \in Events : EventScope(e) \notin GroupScopes
  BY ScopesDiffer DEF GroupScopes

\* The creator role of one group comes, goes or moves.
LEMMA OneGroupRoleMoves ==
    ASSUME NEW g \in GroupIds, NEW previous, NEW owner \in Owners,
           roles' = (roles \ CreatorRole(previous, GroupScope(g)))
                        \cup CreatorRole(owner, GroupScope(g))
    PROVE  /\ Holders(GroupScope(g))' = (Holders(GroupScope(g)) \ {previous})
                                            \cup ({owner} \ {NoUser})
           /\ \A h \in GroupIds \ {g} : SameHolders(h)
  <1>1. \A u \in Users : <<u, "creator", GroupScope(g)>> \in roles' <=>
            u = owner \/ (u # previous /\ <<u, "creator", GroupScope(g)>> \in roles)
    BY CreatorRows
  <1>2. ASSUME NEW h \in GroupIds \ {g} PROVE SameHolders(h)
    <2>1. GroupScope(h) # GroupScope(g)
      BY DEF GroupScope
    <2>2. \A u \in Users : <<u, "creator", GroupScope(h)>> \in roles'
                              <=> <<u, "creator", GroupScope(h)>> \in roles
      BY <2>1, CreatorRows
    <2> QED BY <2>2 DEF SameHolders, Holders, HoldersOf
  <1>3. Holders(GroupScope(g))' = (Holders(GroupScope(g)) \ {previous})
                                      \cup ({owner} \ {NoUser})
    BY <1>1, NoOwnerAssumption DEF Holders, HoldersOf, Owners
  <1> QED BY <1>2, <1>3

-----------------------------------------------------------------------------
LEMMA UsersLeaveGroups ==
    ASSUME CatalogInvariant, NEW s \in Sessions, WriteUsers(s)
    PROVE  QuietOnGroups
  <1> SUFFICES groups' = groups /\ SameGroupCreators
    BY DEF QuietOnGroups, GroupsStayOrGo
  <1>1. CASE SetRole(s)
    <2> DEFINE row == <<tx[s].req.target, tx[s].req.role, Global>>
    <2>1. tx[s].req.op = "setRole" /\ Knows(tx[s])
      BY <1>1, WriterKnows DEF SetRole, Writes
    <2>2. roles' = (roles \ tx[s].seen) \cup {row} /\ groups' = groups
      BY <1>1 DEF SetRole
    <2>3. \A r \in {row} \cup tx[s].seen : r[3] \notin GroupScopes
      BY <2>1, OtherScopes DEF Knows, SeenBy
    <2> HIDE DEF row
    <2> QED BY <2>2, <2>3, NoGroupRoleMoves
  <1>2. CASE SetBan(s) \/ LiftBan(s)
    BY <1>2 DEF SetBan, LiftBan, SameGroupCreators
  <1> QED BY <1>1, <1>2 DEF WriteUsers

LEMMA EventsLeaveGroupRoles ==
    ASSUME CatalogInvariant, NEW s \in Sessions, WriteEvents(s)
    PROVE  QuietOnGroups
  <1> SUFFICES SameGroupCreators /\ GroupsStayOrGo
    BY DEF QuietOnGroups
  <1> USE DEF GroupsStayOrGo
  <1>a. groups \in [GroupIds -> GroupRows \cup {Unused, Gone}]
    BY DEF CatalogInvariant, TypeOK
  <1>b. At(s, "write")
    BY DEF WriteEvents, CreateEvent, UpdateEvent, PublishEvent, DeleteEvent, TransferEvent,
       AssignEventEditor, RevokeEventEditor, Writes
  <1>c. tx[s].req \in Requests
    BY <1>b, WriterKnows
  <1>1. CASE CreateEvent(s)
    <2>1. PICK f \in Events : roles' = roles \cup CreatorRole(tx[s].req.user, EventScope(f))
      BY <1>1 DEF CreateEvent
    <2>2. \A r \in CreatorRole(tx[s].req.user, EventScope(f)) \cup {} : r[3] \notin GroupScopes
      BY CreatorRows, OtherScopes
    <2>3. roles' = (roles \ {}) \cup CreatorRole(tx[s].req.user, EventScope(f))
      BY <2>1
    <2> QED BY <1>1, <2>2, <2>3, NoGroupRoleMoves DEF CreateEvent
  <1>2. CASE UpdateEvent(s) \/ PublishEvent(s)
    BY <1>2 DEF UpdateEvent, PublishEvent, SameGroupCreators
  <1>3. CASE DeleteEvent(s)
    BY <1>a, <1>3 DEF DeleteEvent, SameGroupCreators
  <1>4. CASE TransferEvent(s)
    <2>1. PICK f \in Events : \E v, w :
            roles' = (roles \ CreatorRole(w, EventScope(f))) \cup CreatorRole(v, EventScope(f))
      BY <1>4, <1>c, RequestFields DEF TransferEvent, TransferEventRole, Writes
    <2>2. PICK v, w :
            roles' = (roles \ CreatorRole(w, EventScope(f))) \cup CreatorRole(v, EventScope(f))
      BY <2>1
    <2>3. \A r \in CreatorRole(v, EventScope(f)) \cup CreatorRole(w, EventScope(f)) :
            r[3] \notin GroupScopes
      BY CreatorRows, OtherScopes
    <2> QED BY <1>4, <2>2, <2>3, NoGroupRoleMoves DEF TransferEvent
  <1>5. CASE AssignEventEditor(s) \/ RevokeEventEditor(s)
    <2>1. PICK v, f : \/ roles' = roles \cup {<<v, "editor", EventScope(f)>>}
                      \/ roles' = roles \ {<<v, "editor", EventScope(f)>>}
      BY <1>5 DEF AssignEventEditor, RevokeEventEditor
    <2>2. SameGroupCreators
      BY <2>1 DEF SameGroupCreators
    <2> QED BY <1>5, <2>2 DEF AssignEventEditor, RevokeEventEditor
  <1> QED BY <1>1, <1>2, <1>3, <1>4, <1>5 DEF WriteEvents

\* A creation of merch makes a group, or leaves the groups and their roles.
LEMMA MerchMovesGroups ==
    ASSUME GroupInvariant, NEW s \in Sessions, WriteMerch(s)
    PROVE  /\ \A g \in GroupIds : GroupMove(g)
           /\ roles \subseteq roles'
  <1>a. CatalogInvariant /\ groups \in [GroupIds -> GroupRows \cup {Unused, Gone}]
    BY DEF GroupInvariant, CatalogInvariant, TypeOK
  <1>b. At(s, "write")
    BY DEF WriteMerch, CreateMerch, ChangeMerch, PublishMerch, DeleteMerch, Writes
  <1>c. /\ tx[s].req \in Requests /\ tx[s].req.user \in Users
        /\ tx[s] # Idle /\ Knows(tx[s]) /\ Head(tx[s].todo) = "write"
    BY <1>a, <1>b, WriterKnows, RequestFields
  <1>1. ASSUME groups' = groups, roles' = roles
        PROVE  (\A g \in GroupIds : GroupMove(g)) /\ roles \subseteq roles'
    BY <1>1 DEF GroupMove, SameHolders, Holders
  <1>2. CASE CreateMerch(s)
    <2>1. tx[s].req.op = "createMerch" /\ WithGroup(s)
      BY <1>2 DEF CreateMerch, Writes
    <2>2. tx[s].seen \subseteq roles
      BY <1>c, <2>1 DEF GroupInvariant, FoundRolesStand
    <2>3. CASE groups' = groups /\ roles' \in {roles, roles \cup tx[s].seen}
      BY <1>1, <2>2, <2>3
    <2>4. ASSUME NEW g \in GroupIds, groups[g] = Unused, NEW n \in GroupNames,
                 NEW e \in Events, NEW u \in Users,
                 groups' = [groups EXCEPT ![g] = NewGroup(e, n, u, NoLabel)],
                 roles' = roles \cup CreatorRole(u, GroupScope(g))
          PROVE  (\A h \in GroupIds : GroupMove(h)) /\ roles \subseteq roles'
      <3>1. /\ NewGroup(e, n, u, NoLabel) \in GroupRows /\ u \in Owners
            /\ NewGroup(e, n, u, NoLabel).creator = u
        BY NameAssumption DEF NewGroup, GroupRows, Owners
      <3>2. roles' = (roles \ CreatorRole(NoUser, GroupScope(g)))
                        \cup CreatorRole(u, GroupScope(g))
        BY <2>4 DEF CreatorRole
      <3>3. /\ Holders(GroupScope(g))' = (Holders(GroupScope(g)) \ {NoUser})
                                            \cup ({u} \ {NoUser})
            /\ \A h \in GroupIds \ {g} : SameHolders(h)
        BY <3>1, <3>2, OneGroupRoleMoves
      <3>4. NoUser \notin Users /\ Holders(GroupScope(g)) \subseteq Users
        BY NoOwnerAssumption DEF Holders, HoldersOf
      <3>5. GroupMove(g)
        BY <1>a, <2>4, <3>1, <3>3, <3>4 DEF GroupMove, GroupExists
      <3>6. \A h \in GroupIds \ {g} : GroupMove(h)
        BY <1>a, <2>4, <3>3 DEF GroupMove
      <3> QED BY <2>4, <3>5, <3>6
    <2>5. tx[s].req.event \in Events /\ Trim[tx[s].req.group] \in GroupNames
      <3>1. tx[s].req.event \in Events /\ tx[s].req.group \in RawNames
        BY <1>c, <2>1, RequestFields
      <3>2. Trim[tx[s].req.group] # NoName
        BY <1>c, <2>1 DEF Knows, Chain
      <3> QED BY <3>1, <3>2, NameAssumption
    <2> QED BY <1>c, <2>1, <2>3, <2>4, <2>5 DEF WithGroup
  <1>3. CASE ChangeMerch(s) \/ PublishMerch(s) \/ DeleteMerch(s)
    BY <1>1, <1>3 DEF ChangeMerch, PublishMerch, DeleteMerch
  <1> QED BY <1>2, <1>3 DEF WriteMerch

\* One group is upserted, changed, removed or handed over, or a role of an
\* editor changes.
LEMMA GroupWritesMoveGroups ==
    ASSUME GroupInvariant, NEW s \in Sessions, WriteGroups(s)
    PROVE  /\ \A g \in GroupIds : GroupMove(g)
           /\ \/ tx[s].req.op \in HandOverOps
              \/ \A u \in Users, c \in GroupScopes :
                    <<u, "creator", c>> \in roles => <<u, "creator", c>> \in roles'
  <1>a. CatalogInvariant /\ groups \in [GroupIds -> GroupRows \cup {Unused, Gone}]
    BY DEF GroupInvariant, CatalogInvariant, TypeOK
  <1>b. At(s, "write")
    BY DEF WriteGroups, CreateGroup, UpdateGroup, RemoveGroup, TransferGroup,
       AssignGroupEditor, RevokeGroupEditor, Writes
  <1>c. tx[s].req \in Requests /\ tx[s].req.user \in Users
    BY <1>a, <1>b, WriterKnows, RequestFields
  <1>d. \A g \in GroupIds : GroupExists(g) =>
            /\ Holders(GroupScope(g)) = {groups[g].creator} \ {NoUser}
            /\ groups[g].creator \in Owners
    BY RowsAreRows DEF GroupInvariant, GroupOwnersKnown, GroupExists, OwnerSet, GroupRows
  <1>e. NoUser \notin Users /\ \A g \in GroupIds : Holders(GroupScope(g)) \subseteq Users
    BY NoOwnerAssumption DEF Holders, HoldersOf
  <1>1. CASE CreateGroup(s)
    <2>1. PICK e \in Events, n \in GroupNames, l \in Labels, u \in Users :
            /\ e = tx[s].req.event /\ u = tx[s].req.user /\ l = tx[s].req.label
            /\ n = Trim[tx[s].req.name]
      BY <1>1, <1>c, RequestFields, NameAssumption DEF CreateGroup, Writes
    <2>2. PICK g \in GroupIds :
            \/ /\ GroupExists(g)
               /\ groups' = [groups EXCEPT ![g].label = l]
               /\ roles' = roles \cup CreatorRole(groups[g].creator, GroupScope(g))
            \/ /\ groups[g] = Unused
               /\ groups' = [groups EXCEPT ![g] = NewGroup(e, n, u, l)]
               /\ roles' = roles \cup CreatorRole(u, GroupScope(g))
      BY <1>1, <2>1 DEF CreateGroup, GroupAt
    <2>3. CASE /\ GroupExists(g)
               /\ groups' = [groups EXCEPT ![g].label = l]
               /\ roles' = roles \cup CreatorRole(groups[g].creator, GroupScope(g))
      <3> DEFINE row == [groups[g] EXCEPT !.label = l]
      <3>1. row \in GroupRows /\ row.creator = groups[g].creator
            /\ groups' = [groups EXCEPT ![g] = row]
        BY <2>3 DEF GroupExists, GroupRows
      <3> HIDE DEF row
      <3>2. roles' = (roles \ CreatorRole(NoUser, GroupScope(g)))
                        \cup CreatorRole(groups[g].creator, GroupScope(g))
        BY <2>3 DEF CreatorRole
      <3>3. /\ Holders(GroupScope(g))' = (Holders(GroupScope(g)) \ {NoUser})
                                            \cup ({groups[g].creator} \ {NoUser})
            /\ \A h \in GroupIds \ {g} : SameHolders(h)
        BY <1>d, <2>3, <3>2, OneGroupRoleMoves
      <3>4. SameHolders(g)
        BY <1>d, <1>e, <2>3, <3>3 DEF SameHolders
      <3>5. GroupMove(g)
        BY <1>a, <2>3, <3>1, <3>4 DEF GroupMove, GroupExists
      <3>6. \A h \in GroupIds \ {g} : GroupMove(h)
        BY <1>a, <3>1, <3>3 DEF GroupMove
      <3> QED BY <2>3, <3>5, <3>6
    <2>4. CASE /\ groups[g] = Unused
               /\ groups' = [groups EXCEPT ![g] = NewGroup(e, n, u, l)]
               /\ roles' = roles \cup CreatorRole(u, GroupScope(g))
      <3>1. NewGroup(e, n, u, l) \in GroupRows /\ u \in Owners
            /\ NewGroup(e, n, u, l).creator = u
        BY DEF NewGroup, GroupRows, Owners
      <3>2. roles' = (roles \ CreatorRole(NoUser, GroupScope(g)))
                        \cup CreatorRole(u, GroupScope(g))
        BY <2>4 DEF CreatorRole
      <3>3. /\ Holders(GroupScope(g))' = (Holders(GroupScope(g)) \ {NoUser})
                                            \cup ({u} \ {NoUser})
            /\ \A h \in GroupIds \ {g} : SameHolders(h)
        BY <3>1, <3>2, OneGroupRoleMoves
      <3>4. GroupMove(g)
        BY <1>a, <1>e, <2>4, <3>1, <3>3 DEF GroupMove, GroupExists
      <3>5. \A h \in GroupIds \ {g} : GroupMove(h)
        BY <1>a, <2>4, <3>3 DEF GroupMove
      <3> QED BY <2>4, <3>4, <3>5
    <2> QED BY <2>2, <2>3, <2>4
  <1>2. CASE UpdateGroup(s)
    <2>1. PICK g \in GroupIds, l \in Labels :
            GroupExists(g) /\ groups' = [groups EXCEPT ![g].label = l] /\ roles' = roles
      BY <1>2, <1>c, RequestFields DEF UpdateGroup, Writes, GroupAt
    <2> DEFINE row == [groups[g] EXCEPT !.label = l]
    <2>2. row \in GroupRows /\ row.creator = groups[g].creator
          /\ groups' = [groups EXCEPT ![g] = row]
      BY <2>1 DEF GroupExists, GroupRows
    <2> HIDE DEF row
    <2>3. \A h \in GroupIds : SameHolders(h)
      BY <2>1 DEF SameHolders, Holders
    <2> QED BY <1>a, <2>1, <2>2, <2>3 DEF GroupMove, GroupExists
  <1>3. CASE RemoveGroup(s)
    <2>1. PICK g \in GroupIds :
            /\ GroupExists(g)
            /\ groups' = [groups EXCEPT ![g] = Gone]
            /\ roles' = {x \in roles : x[3] # GroupScope(g)}
      BY <1>3 DEF RemoveGroup, GroupAt
    <2>2. Holders(GroupScope(g))' = {}
      BY <2>1 DEF Holders, HoldersOf
    <2>3. ASSUME NEW h \in GroupIds \ {g} PROVE SameHolders(h)
      <3>1. GroupScope(h) # GroupScope(g)
        BY DEF GroupScope
      <3> QED BY <2>1, <3>1 DEF SameHolders, Holders, HoldersOf
    <2>4. tx[s].req.op \in HandOverOps
      BY <1>3 DEF RemoveGroup, Writes, HandOverOps
    <2> QED BY <1>a, <2>1, <2>2, <2>3, <2>4 DEF GroupMove
  <1>4. CASE TransferGroup(s)
    <2>1. PICK g \in GroupIds, v \in Users :
            /\ GroupExists(g) /\ groups[g].creator # v
            /\ groups' = [groups EXCEPT ![g].creator = v]
            /\ TransferGroupRole(g, groups[g].creator, v)
      BY <1>4, <1>c, RequestFields DEF TransferGroup, GroupAt, Writes, MayTransfer
    <2> DEFINE row == [groups[g] EXCEPT !.creator = v]
    <2>2. row \in GroupRows /\ row.creator = v /\ groups' = [groups EXCEPT ![g] = row]
          /\ v \in Owners
      BY <2>1 DEF GroupExists, GroupRows, Owners
    <2> HIDE DEF row
    <2>3. /\ Holders(GroupScope(g))' = (Holders(GroupScope(g)) \ {groups[g].creator})
                                            \cup ({v} \ {NoUser})
          /\ \A h \in GroupIds \ {g} : SameHolders(h)
      BY <2>1, <2>2, OneGroupRoleMoves DEF TransferGroupRole
    <2>4. GroupMove(g)
      BY <1>a, <1>e, <2>1, <2>2, <2>3 DEF GroupMove, GroupExists
    <2>5. \A h \in GroupIds \ {g} : GroupMove(h)
      BY <1>a, <2>2, <2>3 DEF GroupMove
    <2>6. tx[s].req.op \in HandOverOps
      BY <1>4 DEF TransferGroup, Writes, HandOverOps
    <2> QED BY <2>4, <2>5, <2>6
  <1>5. CASE AssignGroupEditor(s) \/ RevokeGroupEditor(s)
    <2>1. PICK v, c : \/ roles' = roles \cup {<<v, "editor", c>>}
                      \/ roles' = roles \ {<<v, "editor", c>>}
      BY <1>5 DEF AssignGroupEditor, RevokeGroupEditor
    <2>2. SameGroupCreators
      BY <2>1 DEF SameGroupCreators
    <2>3. groups' = groups
      BY <1>5 DEF AssignGroupEditor, RevokeGroupEditor
    <2> QED BY <2>2, <2>3, SameCreatorsSameHolders DEF GroupMove, SameGroupCreators
  <1> QED BY <1>1, <1>2, <1>3, <1>4, <1>5 DEF WriteGroups

-----------------------------------------------------------------------------
LEMMA WritesMoveGroups ==
    ASSUME GroupInvariant, NEW s \in Sessions,
           WriteUsers(s) \/ WriteEvents(s) \/ WriteGroups(s) \/ WriteMerch(s)
    PROVE  /\ \A g \in GroupIds : GroupMove(g)
           /\ tx[s].req.op \in HandOverOps \/ CreatorsStay
  <1>a. CatalogInvariant
    BY DEF GroupInvariant
  <1>1. ASSUME QuietOnGroups
        PROVE  (\A g \in GroupIds : GroupMove(g)) /\ CreatorsStay
    <2>1. \A g \in GroupIds : SameHolders(g)
      BY <1>1, SameCreatorsSameHolders DEF QuietOnGroups
    <2>2. \A g \in GroupIds : GroupMove(g)
      BY <1>1, <2>1 DEF QuietOnGroups, GroupsStayOrGo, GroupMove
    <2>3. CreatorsStay
      BY <1>1 DEF QuietOnGroups, SameGroupCreators, CreatorsStay
    <2> QED BY <2>2, <2>3
  <1>2. CASE WriteUsers(s)
    BY <1>a, <1>1, <1>2, UsersLeaveGroups
  <1>3. CASE WriteEvents(s)
    BY <1>a, <1>1, <1>3, EventsLeaveGroupRoles
  <1>4. CASE WriteGroups(s)
    BY <1>4, GroupWritesMoveGroups DEF CreatorsStay
  <1>5. CASE WriteMerch(s)
    BY <1>5, MerchMovesGroups DEF CreatorsStay
  <1> QED BY <1>2, <1>3, <1>4, <1>5

\* A group that has moved is owned as before.
LEMMA MovedGroupIsOwned ==
    ASSUME GroupOwnersKnown, \A g \in GroupIds : GroupMove(g)
    PROVE  GroupOwnersKnown'
  <1> SUFFICES ASSUME NEW g \in GroupIds, groups'[g] # Gone
               PROVE  Holders(GroupScope(g))' = OwnerSet(groups'[g])
    BY DEF GroupOwnersKnown
  <1>1. GroupMove(g) /\ NoUser \notin Users
    BY NoOwnerAssumption
  <1>2. groups[g] # Gone => Holders(GroupScope(g)) = OwnerSet(groups[g])
    BY DEF GroupOwnersKnown
  <1> QED BY <1>1, <1>2, RowsAreRows
          DEF GroupMove, SameHolders, GroupExists, OwnerSet

-----------------------------------------------------------------------------
(***************************************************************************)
(* The requests on their way                                               *)
(***************************************************************************)
WorkGoesOn ==
    \A t \in Sessions :
        tx'[t] # Idle => /\ tx[t] # Idle
                         /\ tx'[t].req = tx[t].req
                         /\ tx'[t].seen \subseteq tx[t].seen

LEMMA ServedAsBefore ==
    ASSUME WorkIsServed, WorkGoesOn, setting' = setting
    PROVE  WorkIsServed'
  BY DEF WorkIsServed, WorkGoesOn

\* What a creation of merch has found are creator roles of groups.
LEMMA FoundRolesAreCreators ==
    ASSUME GroupInvariant, CreatorsStay, NEW t \in Sessions, tx[t] # Idle,
           tx[t].req.op = "createMerch"
    PROVE  tx[t].seen \subseteq roles'
  <1>1. /\ tx[t].seen \in SUBSET Assignments /\ tx[t].seen \subseteq roles
        /\ \A r \in tx[t].seen : r[2] = "creator" /\ r[3] \in GroupScopes
    BY BusyRequest DEF GroupInvariant, FoundRolesStand, CatalogInvariant, RequestsKnow,
       Knows, SeenBy
  <1>2. ASSUME NEW r \in tx[t].seen PROVE r \in roles'
    <2>1. r \in Assignments /\ r \in roles /\ r[2] = "creator" /\ r[3] \in GroupScopes
      BY <1>1
    <2>2. r = <<r[1], "creator", r[3]>> /\ r[1] \in Users
      BY <2>1 DEF Assignments
    <2> QED BY <2>1, <2>2 DEF CreatorsStay
  <1> QED BY <1>2

\* A write ends its request, or is a set_role, that waits for others.
LEMMA WritersWork ==
    ASSUME GroupInvariant, NEW s \in Sessions,
           WriteUsers(s) \/ WriteEvents(s) \/ WriteGroups(s) \/ WriteMerch(s)
    PROVE  /\ WorkGoesOn
           /\ setting' = setting
           /\ tx[s] # Idle
           /\ tx'[s] # Idle => tx[s].req.op = "setRole"
  <1>a. tx \in [Sessions -> Busy \cup {Idle}]
    BY DEF GroupInvariant, CatalogInvariant, TypeOK
  <1>1. CASE SetRole(s)
    <2>1. ASSUME NEW t \in Sessions, tx'[t] # Idle
          PROVE  /\ tx[t] # Idle /\ tx'[t].req = tx[t].req
                 /\ tx'[t].seen \subseteq tx[t].seen
      <3>1. PICK seen \in SUBSET tx[t].seen :
              tx[t] # Idle /\ tx'[t] = [tx[t] EXCEPT !.seen = seen]
        BY <1>1, <2>1 DEF SetRole
      <3>2. tx[t] \in Busy
        BY <1>a, <3>1
      <3> QED BY <3>1, <3>2 DEF Busy
    <2> QED BY <1>1, <2>1 DEF SetRole, Writes, At, WorkGoesOn
  <1>2. ASSUME Finish(s), setting' = setting, tx[s] # Idle
        PROVE  /\ WorkGoesOn /\ setting' = setting /\ tx[s] # Idle
               /\ tx'[s] # Idle => tx[s].req.op = "setRole"
    BY <1>2, <1>a DEF Finish, WorkGoesOn
  <1>3. CASE SetBan(s) \/ LiftBan(s)
    BY <1>2, <1>3 DEF SetBan, LiftBan, Writes, At
  <1>4. CASE WriteEvents(s)
    BY <1>2, <1>4 DEF WriteEvents, CreateEvent, UpdateEvent, PublishEvent, DeleteEvent,
       TransferEvent, AssignEventEditor, RevokeEventEditor, Writes, At
  <1>5. CASE WriteGroups(s)
    BY <1>2, <1>5 DEF WriteGroups, CreateGroup, UpdateGroup, RemoveGroup, TransferGroup,
       AssignGroupEditor, RevokeGroupEditor, Writes, At
  <1>6. CASE WriteMerch(s)
    BY <1>2, <1>6 DEF WriteMerch, CreateMerch, ChangeMerch, PublishMerch, DeleteMerch,
       Writes, At
  <1> QED BY <1>1, <1>3, <1>4, <1>5, <1>6 DEF WriteUsers

LEMMA WritesKeepFoundRoles ==
    ASSUME CreationsMeetNoHandOver, GroupInvariant, NEW s \in Sessions,
           WriteUsers(s) \/ WriteEvents(s) \/ WriteGroups(s) \/ WriteMerch(s)
    PROVE  WorkIsServed' /\ FoundRolesStand'
  <1>1. /\ WorkGoesOn /\ setting' = setting /\ tx[s] # Idle
        /\ tx'[s] # Idle => tx[s].req.op = "setRole"
    BY WritersWork
  <1>2. tx[s].req.op \in HandOverOps \/ CreatorsStay
    BY WritesMoveGroups
  <1>3. WorkIsServed /\ setting \in Settings
    BY DEF GroupInvariant, CatalogInvariant, TypeOK
  <1>4. ASSUME NEW t \in Sessions, tx'[t] # Idle, tx'[t].req.op = "createMerch"
        PROVE  tx'[t].seen \subseteq roles'
    <2>1. /\ tx[t] # Idle /\ tx[t].req.op = "createMerch"
          /\ tx'[t].seen \subseteq tx[t].seen
      BY <1>1, <1>4 DEF WorkGoesOn
    <2>2. CASE CreatorsStay
      BY <2>1, <2>2, FoundRolesAreCreators
    <2>3. CASE tx[s].req.op \in HandOverOps
      <3>1. s # t
        BY <1>1, <1>4, <2>1
      <3>2. /\ s \in Servers[setting] /\ t \in Servers[setting]
            /\ tx[s].req \in Workload[setting] /\ tx[t].req \in Workload[setting]
        BY <1>1, <1>3, <2>1 DEF WorkIsServed
      <3> QED BY <1>3, <2>1, <2>3, <3>1, <3>2 DEF CreationsMeetNoHandOver
    <2> QED BY <1>2, <2>2, <2>3
  <1> QED BY <1>1, <1>3, <1>4, ServedAsBefore DEF FoundRolesStand

LEMMA ReadsKeepFoundRoles ==
    ASSUME GroupInvariant, NEW s \in Sessions, ReadOrCheck(s)
    PROVE  WorkIsServed' /\ FoundRolesStand'
  <1>a. /\ CatalogInvariant /\ WorkIsServed /\ FoundRolesStand
        /\ tx \in [Sessions -> Busy \cup {Idle}]
    BY DEF GroupInvariant, CatalogInvariant, TypeOK
  <1>b. UNCHANGED <<roles, groups, setting>> /\ tx[s] # Idle
    BY DEF ReadOrCheck, At, ReadEvent, ReadGroup, ReadMerch, ReadTarget, Authorize,
       AuthorizeOwner, CheckNewName, CheckChangedName, EnsureGroup, ClearRoles, Abandon, tables
  <1>c. tx[s] \in Busy /\ Knows(tx[s])
    BY <1>a, <1>b DEF CatalogInvariant, RequestsKnow
  <1>1. ASSUME NEW todo, NEW owner, NEW gid, NEW seen,
               tx' = [tx EXCEPT ![s].todo = todo, ![s].owner = owner, ![s].gid = gid,
                                ![s].seen = seen],
               tx[s].req.op = "createMerch" => seen \subseteq roles
        PROVE  WorkIsServed' /\ FoundRolesStand'
    <2>1. /\ \A t \in Sessions \ {s} : tx'[t] = tx[t]
          /\ tx'[s].req = tx[s].req /\ tx'[s].seen = seen
      BY <1>1, <1>a, <1>c DEF Busy
    <2> QED BY <1>1, <1>a, <1>b, <2>1 DEF WorkIsServed, FoundRolesStand
  <1>2. ASSUME NEW owner, NEW gid, Continue(s, owner, gid)
        PROVE  WorkIsServed' /\ FoundRolesStand'
    <2>1. tx' = [tx EXCEPT ![s].todo = Tail(tx[s].todo), ![s].owner = owner, ![s].gid = gid,
                           ![s].seen = tx[s].seen]
      BY <1>2, <1>a, <1>c DEF Continue, Busy
    <2> QED BY <1>1, <1>a, <1>b, <2>1 DEF FoundRolesStand
  <1>3. CASE EnsureGroup(s)
    <2>1. CASE Continue(s, tx[s].owner, NoGroup)
      BY <1>2, <2>1
    <2>2. ASSUME NEW g \in GroupIds, GroupExists(g),
                 tx' = [tx EXCEPT ![s].todo = Tail(@), ![s].gid = g,
                                  ![s].seen = CreatorRole(groups[g].creator, GroupScope(g))]
          PROVE  WorkIsServed' /\ FoundRolesStand'
      <3>1. CreatorRole(groups[g].creator, GroupScope(g)) \subseteq roles
        BY <2>2, RowsAreRows
           DEF GroupInvariant, GroupOwnersKnown, GroupExists, OwnerSet, CreatorRole, Holders,
               HoldersOf
      <3>2. tx' = [tx EXCEPT ![s].todo = Tail(tx[s].todo), ![s].owner = tx[s].owner,
                             ![s].gid = g,
                             ![s].seen = CreatorRole(groups[g].creator, GroupScope(g))]
        BY <2>2, <1>a, <1>c DEF Busy
      <3> QED BY <1>1, <3>1, <3>2
    <2> QED BY <1>3, <2>1, <2>2 DEF EnsureGroup, GroupAt
  <1>4. CASE ClearRoles(s)
    <2>1. tx[s].req.op = "setRole"
      BY <1>4, <1>c, FirstOfChain DEF ClearRoles, At, Knows
    <2>2. tx' = [tx EXCEPT ![s].todo = Tail(tx[s].todo), ![s].owner = tx[s].owner,
                           ![s].gid = tx[s].gid, ![s].seen = GlobalRows(tx[s].req.target)]
      BY <1>4, <1>a, <1>c DEF ClearRoles, Busy
    <2> QED BY <1>1, <2>1, <2>2
  <1>5. CASE Abandon(s)
    <2>1. \A t \in Sessions : tx'[t] \in {tx[t], Idle}
      BY <1>5, <1>a DEF Abandon, Finish
    <2> QED BY <1>a, <1>b, <2>1 DEF WorkIsServed, FoundRolesStand
  <1>6. CASE ReadEvent(s) \/ ReadGroup(s) \/ ReadMerch(s) \/ ReadTarget(s) \/ Authorize(s)
             \/ AuthorizeOwner(s) \/ CheckNewName(s) \/ CheckChangedName(s)
    BY <1>2, <1>6 DEF ReadEvent, ReadGroup, ReadMerch, ReadTarget, Authorize, AuthorizeOwner,
       CheckNewName, CheckChangedName
  <1> QED BY <1>3, <1>4, <1>5, <1>6 DEF ReadOrCheck

-----------------------------------------------------------------------------
LEMMA GroupInitially == Init => GroupInvariant
  <1> SUFFICES ASSUME Init PROVE GroupInvariant
    OBVIOUS
  <1>1. GroupOwnersKnown
    BY BackfillAssumption DEF Init, GroupOwnersKnown, Holders
  <1>2. WorkIsServed /\ FoundRolesStand
    BY DEF Init, WorkIsServed, FoundRolesStand
  <1> QED BY <1>1, <1>2, CatalogInitially DEF GroupInvariant

LEMMA EveryGroupMoves ==
    ASSUME GroupInvariant, [Next]_vars
    PROVE  \A g \in GroupIds : GroupMove(g)
  <1>1. ASSUME UNCHANGED <<roles, groups>> PROVE \A g \in GroupIds : GroupMove(g)
    BY <1>1 DEF GroupMove, SameHolders, Holders
  <1>2. \A s \in Sessions : ReadOrCheck(s) => UNCHANGED <<roles, groups>>
    BY DEF ReadOrCheck, ReadEvent, ReadGroup, ReadMerch, ReadTarget, Authorize, AuthorizeOwner,
           CheckNewName, CheckChangedName, EnsureGroup, ClearRoles, Abandon, tables
  <1> QED BY <1>1, <1>2, WritesMoveGroups DEF Next, Receive, BanExpires, vars, tables

LEMMA GroupInductive ==
    ASSUME CreationsMeetNoHandOver
    PROVE  GroupInvariant /\ [Next]_vars => GroupInvariant'
  <1> SUFFICES ASSUME GroupInvariant, [Next]_vars PROVE GroupInvariant'
    OBVIOUS
  <1>a. /\ CatalogInvariant /\ WorkIsServed /\ FoundRolesStand /\ GroupOwnersKnown
        /\ tx \in [Sessions -> Busy \cup {Idle}] /\ setting \in Settings
    BY DEF GroupInvariant, CatalogInvariant, TypeOK
  <1>1. CatalogInvariant'
    BY <1>a, CatalogInductive
  <1>2. GroupOwnersKnown'
    BY <1>a, EveryGroupMoves, MovedGroupIsOwned
  <1>3. ASSUME NEW s \in Sessions, NEW r \in Workload[setting], Receive(s, r)
        PROVE  WorkIsServed' /\ FoundRolesStand'
    <2>1. /\ \A t \in Sessions \ {s} : tx'[t] = tx[t]
          /\ tx'[s].req = r /\ tx'[s].seen = {} /\ s \in Servers[setting]
          /\ UNCHANGED <<roles, setting>>
      BY <1>3, <1>a DEF Receive, tables
    <2> QED BY <1>a, <2>1 DEF WorkIsServed, FoundRolesStand
  <1>4. ASSUME UNCHANGED <<roles, tx, setting>> PROVE WorkIsServed' /\ FoundRolesStand'
    BY <1>4, <1>a DEF WorkIsServed, FoundRolesStand
  <1>5. WorkIsServed' /\ FoundRolesStand'
    BY <1>3, <1>4, ReadsKeepFoundRoles, WritesKeepFoundRoles DEF Next, BanExpires, vars, tables
  <1> QED BY <1>1, <1>2, <1>5 DEF GroupInvariant

LEMMA GroupsStay ==
    ASSUME CreationsMeetNoHandOver
    PROVE  Spec => []GroupInvariant
  BY GroupInitially, GroupInductive, PTL DEF Spec

(***************************************************************************)
(* Column and creator role agree, for every event and, where no creation   *)
(* of merchandise meets a transfer or a removal of a group, for every      *)
(* group: the sync rule of ADR 0013 (services/event.rs, group.rs).         *)
(***************************************************************************)
THEOREM CreatorsHoldTheRole ==
    ASSUME CreationsMeetNoHandOver
    PROVE  Spec => []OwnersHoldTheRole
  <1>1. GroupInvariant => OwnersHoldTheRole
    BY RowsAreRows
       DEF GroupInvariant, GroupOwnersKnown, CatalogInvariant, EventOwnersKnown,
           OwnersHoldTheRole, EventExists, GroupExists, OwnerSet
  <1> QED BY <1>1, GroupsStay, PTL

LEMMA GroupMovesAreOwnership ==
    ASSUME NEW g \in GroupIds, GroupMove(g), TypeOK, TypeOK',
           GroupOwnersKnown, GroupOwnersKnown'
    PROVE  [GroupTitle(g)!Next]_(GroupTitle(g)!vars)
  <1>a. /\ groups[g] \in GroupRows \cup {Unused, Gone}
        /\ groups'[g] \in GroupRows \cup {Unused, Gone}
    BY DEF TypeOK
  <1>b. /\ groups[g] # Gone => Holders(GroupScope(g)) = OwnerSet(groups[g])
        /\ groups'[g] # Gone => Holders(GroupScope(g))' = OwnerSet(groups'[g])
    BY DEF GroupOwnersKnown
  <1>1. CASE groups'[g] = groups[g] /\ SameHolders(g)
    <2>1. Fate(groups[g])' = Fate(groups[g])
      BY <1>1 DEF Fate
    <2> QED BY <1>1, <2>1 DEF SameHolders, GroupTitle!vars
  <1>2. CASE /\ GroupExists(g) /\ GroupExists(g)'
             /\ groups'[g].creator = groups[g].creator /\ SameHolders(g)
    <2>1. /\ Fate(groups[g]) = <<"owned", groups[g].creator>>
          /\ Fate(groups[g])' = <<"owned", groups[g].creator>>
      BY <1>2, RowsAreRows DEF GroupExists, Fate
    <2> QED BY <1>2, <2>1 DEF SameHolders, GroupTitle!vars
  <1>3. CASE groups[g] = Unused /\ GroupExists(g)' /\ groups'[g].creator \in Users
    <2>1. /\ Fate(groups[g]) = <<"unborn">>
          /\ Fate(groups[g])' = <<"owned", groups'[g].creator>>
      BY <1>3, RowsAreRows DEF GroupExists, Fate
    <2>2. Holders(GroupScope(g))' = {groups'[g].creator}
      BY <1>3, <1>b, RowsAreRows, NoOwnerAssumption DEF GroupExists, OwnerSet
    <2> QED BY <1>3, <2>1, <2>2
            DEF GroupTitle!Next, GroupTitle!Create, GroupTitle!Unborn, GroupTitle!OwnedBy
  <1>4. CASE /\ GroupExists(g) /\ groups'[g] = Gone
             /\ SameHolders(g) \/ Holders(GroupScope(g))' = {}
    <2>1. /\ Fate(groups[g]) = <<"owned", groups[g].creator>>
          /\ Fate(groups[g])' = <<"dead">>
          /\ groups[g].creator \in Owners
      BY <1>4, RowsAreRows DEF GroupExists, Fate, GroupRows
    <2> QED BY <1>4, <2>1
            DEF SameHolders, GroupTitle!Next, GroupTitle!End, GroupTitle!Owned,
                GroupTitle!Dead, GroupTitle!OwnedBy, Owners
  <1>5. CASE /\ GroupExists(g) /\ GroupExists(g)'
             /\ groups'[g].creator \in Users /\ groups'[g].creator # groups[g].creator
    <2>1. /\ Fate(groups[g]) = <<"owned", groups[g].creator>>
          /\ Fate(groups[g])' = <<"owned", groups'[g].creator>>
          /\ groups[g].creator \in Owners
      BY <1>5, RowsAreRows DEF GroupExists, Fate, GroupRows
    <2>2. Holders(GroupScope(g))' = {groups'[g].creator}
      BY <1>5, <1>b, RowsAreRows, NoOwnerAssumption DEF GroupExists, OwnerSet
    <2> QED BY <1>5, <2>1, <2>2
            DEF GroupTitle!Next, GroupTitle!Transfer, GroupTitle!Owned, GroupTitle!OwnedBy,
                Owners
  <1> QED BY <1>1, <1>2, <1>3, <1>4, <1>5 DEF GroupMove

(***************************************************************************)
(* Groups implement Ownership wherever no creation of merchandise meets a  *)
(* transfer or a removal of a group, as events do without that condition.  *)
(***************************************************************************)
THEOREM GroupsStayOwned ==
    ASSUME CreationsMeetNoHandOver
    PROVE  Spec => GroupsAreOwned
  <1>1. Init => \A g \in GroupIds : GroupTitle(g)!Init
    <2> SUFFICES ASSUME Init, NEW g \in GroupIds PROVE GroupTitle(g)!Init
      OBVIOUS
    <2>1. GroupOwnersKnown
      BY GroupInitially DEF GroupInvariant
    <2>2. groups[g] \in GroupRows \cup {Unused}
      BY StartAssumption DEF Init, StartingTables
    <2>3. Holders(GroupScope(g)) = OwnerSet(groups[g])
      BY <2>1, <2>2, RowsAreRows DEF GroupOwnersKnown
    <2>4. CASE groups[g] = Unused
      BY <2>3, <2>4 DEF Fate, OwnerSet, GroupTitle!Init, GroupTitle!Unborn
    <2>5. CASE groups[g] \in GroupRows
      BY <2>3, <2>5, RowsAreRows
         DEF Fate, OwnerSet, GroupRows, Owners, GroupTitle!Init, GroupTitle!OwnedBy
    <2> QED BY <2>2, <2>4, <2>5
  <1>2. GroupInvariant /\ GroupInvariant' /\ [Next]_vars =>
          [\A g \in GroupIds : [GroupTitle(g)!Next]_(GroupTitle(g)!vars)]_vars
    BY EveryGroupMoves, GroupMovesAreOwnership DEF GroupInvariant, CatalogInvariant
  <1> QED BY <1>1, <1>2, GroupsStay, PTL DEF Spec, GroupsAreOwned
=============================================================================
