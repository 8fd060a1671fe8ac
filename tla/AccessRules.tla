---------------------------- MODULE AccessRules ----------------------------
(***************************************************************************)
(* Who may do what: the role and permission catalog as the migrations seed *)
(* it, the decision rule of RbacService, and the endpoints that report a   *)
(* caller's standing.  Nothing here has state: the operators read the role *)
(* assignments they are given, as one query does.                          *)
(***************************************************************************)
EXTENDS Naturals, FiniteSets

CONSTANTS
    Users,      \* users.id
    Events,     \* events.id, in the order of their creation irrelevant
    GroupIds,   \* merchandise_groups.id
    NoUser      \* a NULL creator_id or created_by

ASSUME NoOwnerAssumption == NoUser \notin Users

(***************************************************************************)
(* Scopes and role assignments (user_roles).  scope_type and scope_id are  *)
(* one value; the row <<u, r, s>> says that u holds the role r in s.       *)
(***************************************************************************)
Global == <<"global">>
EventScope(e) == <<"event", e>>
GroupScope(g) == <<"group", g>>

GlobalRoles == {"user", "editor", "moderator", "admin"}
ScopedRoles == {"creator", "editor"}
EventScopes == {EventScope(e) : e \in Events}
GroupScopes == {GroupScope(g) : g \in GroupIds}
Assignments == (Users \X GlobalRoles \X {Global})
                 \cup (Users \X ScopedRoles \X (EventScopes \cup GroupScopes))

-----------------------------------------------------------------------------
(***************************************************************************)
(* The catalog: what each role grants, all migrations applied.             *)
(***************************************************************************)
EditorGrants ==
    {"event.create", "event.edit.any", "event.delete.any", "merch.create.any",
     "merch.edit.any", "merch.delete.any", "group.edit.any", "group.delete"}

ModeratorGrants ==
    EditorGrants \cup
    {"user.read", "user.ban", "user.unban", "match.delete", "event.creator.transfer",
     "group.creator.transfer", "event.member.manage.any"}

AdminGrants == ModeratorGrants \cup {"user.role.manage", "system.kill_switch"}

\* The names the code asks for.
Permissions ==
    AdminGrants \cup
    {"event.edit", "event.delete", "event.member.manage", "merch.create", "merch.edit",
     "merch.delete", "group.edit", "group.member.manage"}

EventEditorGrants ==
    {"event.edit", "event.member.manage", "merch.create", "merch.edit",
     "merch.delete", "group.edit"}
EventCreatorGrants == EventEditorGrants \cup {"event.delete"}
GroupMemberGrants == {"group.edit", "group.member.manage"}

Grants(role, scope) ==
    CASE scope = Global /\ role = "admin" -> AdminGrants
      [] scope = Global /\ role = "moderator" -> ModeratorGrants
      [] scope = Global /\ role = "editor" -> EditorGrants
      [] scope = Global /\ role = "user" -> {}
      [] scope \in EventScopes /\ role = "creator" -> EventCreatorGrants
      [] scope \in EventScopes /\ role = "editor" -> EventEditorGrants
      [] OTHER -> GroupMemberGrants

(***************************************************************************)
(* The permissions that satisfy a check: itself, and the override that     *)
(* staff hold globally where there is one.                                 *)
(***************************************************************************)
Override(p) ==
    CASE p = "event.edit" -> {"event.edit.any"}
      [] p = "event.delete" -> {"event.delete.any"}
      [] p = "merch.create" -> {"merch.create.any"}
      [] p = "merch.edit" -> {"merch.edit.any"}
      [] p = "merch.delete" -> {"merch.delete.any"}
      [] p = "group.edit" -> {"group.edit.any"}
      [] OTHER -> {}

SatisfyingNames(p) == {p} \cup Override(p)

(***************************************************************************)
(* The roles a check loads: the global ones, and those of its scope.       *)
(***************************************************************************)
\* Mutant: the scope is not part of the query.
RolesAnywhere(rows, u, scope) ==
    {r \in rows : r[1] = u /\ scope \in {Global} \cup EventScopes \cup GroupScopes}

RolesForUser(rows, u, scope) == {r \in rows : r[1] = u /\ r[3] \in {Global, scope}}

IsAdmin(held) == \E r \in held : r[2] = "admin" /\ r[3] = Global

\* Mutant: the bypass is for every member of the staff.
EvaluateStaffBypass(held, p) ==
    \/ \E r \in held : r[2] \in {"admin", "moderator"} /\ r[3] = Global
    \/ \E r \in held : Grants(r[2], r[3]) \cap SatisfyingNames(p) # {}

Evaluate(held, p) ==
    \/ IsAdmin(held)
    \/ \E r \in held : Grants(r[2], r[3]) \cap SatisfyingNames(p) # {}

Check(rows, u, scope, p) == Evaluate(RolesForUser(rows, u, scope), p)

\* Ownership is tested first and without a query, then the scopes in turn.
RequireOwnerOr(rows, u, owner, p, scopes) ==
    u = owner \/ \E s \in scopes : Check(rows, u, s, p)

-----------------------------------------------------------------------------
(***************************************************************************)
(* Standing: what the my-role endpoints answer.  A user without a scoped   *)
(* role is reported as "none", creator wins over editor.                   *)
(***************************************************************************)
ScopedRoleName(rows, u, scope) ==
    IF <<u, "creator", scope>> \in rows THEN "creator"
    ELSE IF <<u, "editor", scope>> \in rows THEN "editor"
    ELSE "none"

\* LIMIT 1 without an order: any of the global roles the user holds.
GlobalRoleNames(rows, u) == {r[2] : r \in {x \in rows : x[1] = u /\ x[3] = Global}}

GlobalOverride(name) == name \in {"admin", "moderator"}

MyEventRole(rows, u, e, owner) ==
    {[role |-> ScopedRoleName(rows, u, EventScope(e)),
      globalOverride |-> GlobalOverride(name),
      canCreateMerch |-> Check(rows, u, EventScope(e), "merch.create"),
      canEditGroup |-> Check(rows, u, EventScope(e), "group.edit"),
      canManageEditors |-> Check(rows, u, EventScope(e), "event.member.manage"),
      canTransferCreator |-> owner = u] :
        name \in IF GlobalRoleNames(rows, u) = {} THEN {"none"}
                 ELSE GlobalRoleNames(rows, u)}

\* Mutant: the role at the event, the group's own editors forgotten.
MyGroupRoleByEvent(rows, u, e, g, owner) ==
    {[role |-> ScopedRoleName(rows, u, GroupScope(g)),
      globalOverride |-> GlobalOverride(name),
      canEditGroup |-> RequireOwnerOr(rows, u, owner, "group.edit", {EventScope(e)}),
      canManageEditors |-> Check(rows, u, EventScope(e), "group.member.manage"),
      canTransferCreator |-> owner = u] :
        name \in {"none"}}

MyGroupRole(rows, u, e, g, owner) ==
    {[role |-> ScopedRoleName(rows, u, GroupScope(g)),
      globalOverride |-> GlobalOverride(name),
      canEditGroup |-> RequireOwnerOr(rows, u, owner, "group.edit",
                                      {EventScope(e), GroupScope(g)}),
      canManageEditors |-> Check(rows, u, GroupScope(g), "group.member.manage"),
      canTransferCreator |-> owner = u] :
        name \in IF GlobalRoleNames(rows, u) = {} THEN {"none"}
                 ELSE GlobalRoleNames(rows, u)}

=============================================================================
