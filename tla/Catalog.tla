------------------------------ MODULE Catalog ------------------------------
(***************************************************************************)
(* Merchandise beside the users, roles, events and groups of Access, and   *)
(* the whole system's next-state relation.  Creation and change of an item *)
(* test its name in a statement of their own, and rely on a partial unique *)
(* index when another request was faster.                                  *)
(***************************************************************************)
EXTENDS Access

Live(m) == MerchExists(m) /\ merch[m].state # "deleted"

\* Another live item of that name under that group name, as it is spelt.
NameTaken(m, e, raw, name) ==
    \E x \in MerchIds \ {m} : /\ Live(x)
                              /\ merch[x].event = e
                              /\ merch[x].group = raw
                              /\ merch[x].name = name

\* The name and group an update would give the item.
EffectiveName(r) == IF r.op = "renameMerch" THEN r.name ELSE merch[r.merch].name
EffectiveGroup(r) == IF r.op = "moveMerch" THEN r.group ELSE merch[r.merch].group

-----------------------------------------------------------------------------
(***************************************************************************)
(* The statements before the write                                         *)
(***************************************************************************)
\* The creator is found of a deleted item too.
ReadMerch(s) ==
    /\ At(s, "merch")
    /\ LET r == tx[s].req
       IN  /\ MerchExists(r.merch)
           /\ merch[r.merch].event = r.event
           /\ Continue(s, merch[r.merch].creator, NoGroup)
    /\ UNCHANGED tables

CheckNewName(s) ==
    /\ At(s, "name")
    /\ LET r == tx[s].req
           n == Trim[r.group]
       IN  /\ r.op = "createMerch"
           /\ n # NoName
           /\ \A m \in MerchIds : ~NameTaken(m, r.event, n, r.name)
    /\ Continue(s, tx[s].owner, tx[s].gid)
    /\ UNCHANGED tables

\* A deleted item is not tested: the update will not find it.
CheckChangedName(s) ==
    /\ At(s, "name")
    /\ LET r == tx[s].req
       IN  /\ r.op \in {"renameMerch", "moveMerch"}
           /\ Live(r.merch) =>
                ~NameTaken(r.merch, r.event, EffectiveGroup(r), EffectiveName(r))
    /\ Continue(s, tx[s].owner, tx[s].gid)
    /\ UNCHANGED tables

\* The group is made sure of first.  When it is there its creator's role is
\* inserted for the creator the statement has read.
EnsureGroup(s) ==
    /\ At(s, "ensure")
    /\ LET there == GroupAt(tx[s].req.event, Trim[tx[s].req.group])
       IN  \/ /\ there = {}
              /\ Continue(s, tx[s].owner, NoGroup)
           \/ \E g \in there :
                tx' = [tx EXCEPT
                         ![s].todo = Tail(@),
                         ![s].gid = g,
                         ![s].seen = CreatorRole(groups[g].creator, GroupScope(g))]
    /\ UNCHANGED tables

-----------------------------------------------------------------------------
(***************************************************************************)
(* Writes                                                                  *)
(***************************************************************************)
\* Mutant: the group's name is not trimmed.
WithGroupAsSpelt(s) ==
    LET r == tx[s].req
    IN  IF tx[s].gid = NoGroup /\ GroupAt(r.event, r.group) = {}
        THEN \E g \in GroupIds :
              /\ groups[g] = Unused
              /\ groups' = [groups EXCEPT ![g] = NewGroup(r.event, r.group, r.user, NoLabel)]
              /\ roles' = roles \cup CreatorRole(r.user, GroupScope(g))
        ELSE /\ groups' = groups
             /\ roles' \in {roles, roles \cup tx[s].seen}

\* The group a new item brings with it: none when the name has one, or had
\* one when the transaction looked.  The insert of a role that another
\* transaction is about to delete waits for it, and then takes place.
WithGroup(s) ==
    LET r == tx[s].req
        n == Trim[r.group]
    IN  IF tx[s].gid = NoGroup /\ GroupAt(r.event, n) = {}
        THEN \E g \in GroupIds :
              /\ groups[g] = Unused
              /\ groups' = [groups EXCEPT ![g] = NewGroup(r.event, n, r.user, NoLabel)]
              /\ roles' = roles \cup CreatorRole(r.user, GroupScope(g))
        ELSE /\ groups' = groups
             /\ roles' \in {roles, roles \cup tx[s].seen}

\* Mutant: no unique index stands behind the test of the name.
InsertMerchUnindexed(s, m) ==
    LET r == tx[s].req
    IN  /\ merch[m] = Unused
        /\ merch' = [merch EXCEPT ![m] = [state |-> r.state, event |-> r.event,
                                          name |-> r.name, group |-> r.group,
                                          creator |-> r.user]]

\* The item is inserted under the group's name as the request spells it.
InsertMerch(s, m) ==
    LET r == tx[s].req
    IN  /\ merch[m] = Unused
        /\ ~NameTaken(m, r.event, r.group, r.name)
        /\ merch' = [merch EXCEPT ![m] = [state |-> r.state, event |-> r.event,
                                          name |-> r.name, group |-> r.group,
                                          creator |-> r.user]]

CreateMerch(s) ==
    /\ Writes(s, {"createMerch"})
    /\ EventExists(tx[s].req.event)
    /\ WithGroup(s)
    /\ \E m \in MerchIds : InsertMerch(s, m)
    /\ Finish(s)
    /\ UNCHANGED <<bans, events, setting>>

\* Mutant: the update does not ask whether the item is deleted.
ChangeMerchAnyRow(s) ==
    /\ Writes(s, {"renameMerch", "moveMerch"})
    /\ LET r == tx[s].req
       IN  /\ ~NameTaken(r.merch, r.event, EffectiveGroup(r), EffectiveName(r))
           /\ merch' = [merch EXCEPT ![r.merch].name = EffectiveName(r),
                                     ![r.merch].group = EffectiveGroup(r)]
    /\ Finish(s)
    /\ UNCHANGED <<roles, bans, events, groups, setting>>

\* A move creates no group for the new name.
ChangeMerch(s) ==
    /\ Writes(s, {"renameMerch", "moveMerch"})
    /\ LET r == tx[s].req
       IN  /\ Live(r.merch)
           /\ ~NameTaken(r.merch, r.event, EffectiveGroup(r), EffectiveName(r))
           /\ merch' = [merch EXCEPT ![r.merch].name = EffectiveName(r),
                                     ![r.merch].group = EffectiveGroup(r)]
    /\ Finish(s)
    /\ UNCHANGED <<roles, bans, events, groups, setting>>

PublishMerch(s) ==
    /\ Writes(s, {"publishMerch"})
    /\ Live(tx[s].req.merch)
    /\ merch' = [merch EXCEPT ![tx[s].req.merch].state = "published"]
    /\ Finish(s)
    /\ UNCHANGED <<roles, bans, events, groups, setting>>

\* Soft, and repeatable.
DeleteMerch(s) ==
    /\ Writes(s, {"deleteMerch", "adminDeleteMerch"})
    /\ MerchExists(tx[s].req.merch)
    /\ merch' = [merch EXCEPT ![tx[s].req.merch].state = "deleted"]
    /\ Finish(s)
    /\ UNCHANGED <<roles, bans, events, groups, setting>>

-----------------------------------------------------------------------------
ReadOrCheck(s) ==
    \/ ReadEvent(s) \/ ReadGroup(s) \/ ReadMerch(s) \/ ReadTarget(s)
    \/ Authorize(s) \/ AuthorizeOwner(s)
    \/ CheckNewName(s) \/ CheckChangedName(s) \/ EnsureGroup(s) \/ ClearRoles(s)
    \/ Abandon(s)

WriteUsers(s) == SetRole(s) \/ SetBan(s) \/ LiftBan(s)

WriteEvents(s) ==
    \/ CreateEvent(s) \/ UpdateEvent(s) \/ PublishEvent(s) \/ DeleteEvent(s)
    \/ TransferEvent(s) \/ AssignEventEditor(s) \/ RevokeEventEditor(s)

WriteGroups(s) ==
    \/ CreateGroup(s) \/ UpdateGroup(s) \/ RemoveGroup(s) \/ TransferGroup(s)
    \/ AssignGroupEditor(s) \/ RevokeGroupEditor(s)

WriteMerch(s) == CreateMerch(s) \/ ChangeMerch(s) \/ PublishMerch(s) \/ DeleteMerch(s)

Next ==
    \/ \E s \in Sessions :
        \/ \E r \in Workload[setting] : Receive(s, r)
        \/ ReadOrCheck(s)
        \/ WriteUsers(s) \/ WriteEvents(s) \/ WriteGroups(s) \/ WriteMerch(s)
    \/ \E u \in Users : BanExpires(u)

Spec == Init /\ [][Next]_vars

=============================================================================
