------------------------- MODULE CatalogProperties -------------------------
(***************************************************************************)
(* What must hold of users, roles, events, groups and merchandise, however *)
(* the requests that change them interleave.                               *)
(***************************************************************************)
EXTENDS Catalog

Holders(scope) == HoldersOf(roles, scope)

\* The ownership column and the creator role agree, for events and for
\* groups: the sync rule of ADR 0013, and what the lock in
\* EventService::transfer_creator is for (#445).
OwnersHoldTheRole ==
    /\ \A e \in Events : EventExists(e) =>
            Holders(EventScope(e)) = {events[e].creator} \ {NoUser}
    /\ \A g \in GroupIds : GroupExists(g) =>
            Holders(GroupScope(g)) = {groups[g].creator} \ {NoUser}

\* An event changes hands by the will of the owner it has at that moment, or
\* by the staff's transfer; a transfer that read another owner does nothing.
OwnerDecides ==
    [][\A e \in Events :
        EventExists(e) /\ EventExists(e)' /\ events'[e].creator # events[e].creator
        => \E s \in Sessions :
             /\ tx[s] # Idle
             /\ tx'[s] = Idle
             /\ \/ tx[s].req.op = "adminTransferEvent"
                \/ tx[s].req.op = "transferEvent" /\ tx[s].req.user = events[e].creator]_vars

Fate(row) == IF row = Unused THEN <<"unborn">>
             ELSE IF row = Gone THEN <<"dead">>
             ELSE <<"owned", row.creator>>

EventTitle(e) == INSTANCE Ownership WITH
    People <- Users, Nobody <- NoUser,
    owner <- Fate(events[e]), holders <- Holders(EventScope(e))

GroupTitle(g) == INSTANCE Ownership WITH
    People <- Users, Nobody <- NoUser,
    owner <- Fate(groups[g]), holders <- Holders(GroupScope(g))

\* Creation, transfer and removal of an event implement the ownership of
\* Ownership: column and role move in one step, whoever else is at work.
EventsAreOwned ==
    /\ \A e \in Events : EventTitle(e)!Init
    /\ [][\A e \in Events : [EventTitle(e)!Next]_(EventTitle(e)!vars)]_vars

\* The same of groups, on the paths that lock the group's row.
GroupsAreOwned ==
    /\ \A g \in GroupIds : GroupTitle(g)!Init
    /\ [][\A g \in GroupIds : [GroupTitle(g)!Next]_(GroupTitle(g)!vars)]_vars

\* Nobody becomes an admin in a system that has none: set_role asks for a
\* permission only admins have, whatever was granted or revoked meanwhile.
HasAdmin(rows) == \E r \in rows : r[2] = "admin"
NoAdminFromNowhere == HasAdmin(roles) => HasAdmin(Start[setting].roles)

\* A deleted item keeps its name and group and stays deleted (ADR 0008), also
\* when an update that found it alive is still on its way.
DeletedMerchIsFrozen ==
    [][\A m \in MerchIds :
        MerchExists(m) /\ merch[m].state = "deleted" => merch'[m] = merch[m]]_vars

\* Two live items of one group name never share a name (#299), although the
\* test and the write are two statements.
LiveNamesUnique ==
    \A m \in MerchIds : Live(m) =>
        ~NameTaken(m, merch[m].event, merch[m].group, merch[m].name)

-----------------------------------------------------------------------------
(***************************************************************************)
(* Who may cause which change, by role and ownership alone, as the         *)
(* reference on permissions tells a reader.                                *)
(***************************************************************************)
Is(u, names) == \E n \in names : <<u, n, Global>> \in roles
Staff(u) == Is(u, {"editor", "moderator", "admin"})
Member(u, scope) == \E n \in ScopedRoles : <<u, n, scope>> \in roles

MayCreate(u, e) == Member(u, EventScope(e)) \/ Staff(u)

EventChangeEntitled(u, e) ==
    CASE events[e] = Unused -> Staff(u)
      [] events'[e] = Gone -> u = events[e].creator \/ Staff(u)
      [] events'[e].creator # events[e].creator ->
           u = events[e].creator \/ Is(u, {"moderator", "admin"})
      [] OTHER -> MayCreate(u, e)

GroupChangeEntitled(u, g) ==
    CASE groups[g] = Unused -> MayCreate(u, groups'[g].event)
      [] groups'[g] = Gone -> u = events[groups[g].event].creator \/ Staff(u)
      [] groups'[g].creator # groups[g].creator ->
           u = groups[g].creator \/ Is(u, {"moderator", "admin"})
      [] OTHER -> \/ MayCreate(u, groups[g].event)
                  \/ Member(u, GroupScope(g))
                  \/ u = groups[g].creator

MerchChangeEntitled(u, m) ==
    IF merch[m] = Unused
    THEN MayCreate(u, merch'[m].event)
    ELSE u = merch[m].creator \/ MayCreate(u, merch[m].event)

EditorsOf(rows, scope) == {u \in Users : <<u, "editor", scope>> \in rows}

EditorChangeEntitled(u, scope) ==
    \/ Member(u, scope)
    \/ Is(u, {"admin"})
    \/ scope \in EventScopes /\ Is(u, {"moderator"})
    \/ \E g \in GroupIds : scope = GroupScope(g) /\ groups'[g] = Gone /\ Staff(u)

Entitled(u) ==
    /\ \A e \in Events : events'[e] # events[e] => EventChangeEntitled(u, e)
    /\ \A g \in GroupIds : groups'[g] # groups[g] => GroupChangeEntitled(u, g)
    /\ \A m \in MerchIds : merch'[m] # merch[m] => MerchChangeEntitled(u, m)
    /\ \A c \in EventScopes \cup GroupScopes :
        EditorsOf(roles', c) # EditorsOf(roles, c) => EditorChangeEntitled(u, c)
    /\ \A v \in Users : GlobalRoleNames(roles', v) # GlobalRoleNames(roles, v)
                            => Is(u, {"admin"})
    /\ bans' # bans => Is(u, {"moderator", "admin"})

\* One request at a time, every change of a table is one its caller was
\* entitled to: the catalog of permissions, the scopes of the checks and the
\* ownership shortcuts add up to the table above.  A ban also lapses by itself.
ChangesAreEntitled ==
    [][\A s \in Sessions :
        Servers[setting] = {s} /\ tx[s] # Idle =>
            Entitled(tx[s].req.user) \/ \E u \in Users : BanExpires(u)]_vars

-----------------------------------------------------------------------------
(***************************************************************************)
(* The my-role endpoints                                                   *)
(***************************************************************************)
EventRole(u, e, field) ==
    \E report \in MyEventRole(roles, u, e, events[e].creator) : report[field]
GroupRole(u, g, field) ==
    \E report \in MyGroupRole(roles, u, groups[g].event, g, groups[g].creator) :
        report[field]

Creates(m) == merch[m] = Unused /\ merch'[m] # Unused
Renames(g) == /\ groups[g] # Unused /\ groups'[g] \notin {Unused, Gone}
              /\ groups'[g].name # groups[g].name \/ groups'[g].label # groups[g].label
\* What the client is told about the caller's standing in an event or a group
\* is what the handlers then decide: whoever creates merch, edits a group,
\* changes its editors or hands something over by the public paths has been
\* told that he can, by ownership, scope or override alike (#443).
StandingIsTold ==
    [][\A s \in Sessions : Servers[setting] = {s} /\ tx[s] # Idle =>
        LET u == tx[s].req.user
            op == tx[s].req.op
        IN  /\ \A m \in MerchIds :
                 Creates(m) => EventRole(u, merch'[m].event, "canCreateMerch")
            /\ \A g \in GroupIds : Renames(g) => GroupRole(u, g, "canEditGroup")
            /\ \A e \in Events :
                 /\ /\ op \in {"assignEventEditor", "revokeEventEditor"}
                    /\ EditorsOf(roles', EventScope(e)) # EditorsOf(roles, EventScope(e))
                    => EventRole(u, e, "canManageEditors")
                 /\ op = "transferEvent" /\ events'[e] # events[e]
                    => EventRole(u, e, "canTransferCreator")
            /\ \A g \in GroupIds :
                 /\ /\ op \in {"assignGroupEditor", "revokeGroupEditor"}
                    /\ EditorsOf(roles', GroupScope(g)) # EditorsOf(roles, GroupScope(g))
                    => GroupRole(u, g, "canManageEditors")
                 /\ op = "transferGroup" /\ groups'[g] # groups[g]
                    => GroupRole(u, g, "canTransferCreator")]_vars

=============================================================================
