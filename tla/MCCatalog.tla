----------------------------- MODULE MCCatalog -----------------------------
(***************************************************************************)
(* Small instances of Catalog.  Each setting sends some kinds of requests, *)
(* served by one session (what a request does by itself) or by two (what   *)
(* two do to each other).                                                  *)
(***************************************************************************)
EXTENDS CatalogProperties, TLC

CONSTANTS ann, bob, eve,   \* users
          fair, expo,      \* events
          g1, g2,          \* groups
          m1, m2,          \* merchandise
          s1, s2           \* sessions

\* Two spellings of one group name.
MCTrim == ("cards" :> "cards") @@ (" cards" :> "cards")

Bobs == [state |-> "draft", creator |-> bob, label |-> "old"]
Anns == [state |-> "published", creator |-> ann, label |-> "old"]
BobsCards == [state |-> "live", event |-> fair, name |-> "cards", creator |-> bob,
              label |-> "old"]

EventTable(f, x) == (fair :> f) @@ (expo :> x)
GroupTable(x) == (g1 :> x) @@ (g2 :> Unused)
Roles(name, scope, holders) == {<<u, name, scope>> : u \in holders}

Empty == [roles |-> {}, events |-> EventTable(Unused, Unused), groups |-> GroupTable(Unused)]
Fair == [Empty EXCEPT !.events = EventTable(Bobs, Unused),
                      !.roles = Roles("creator", EventScope(fair), {bob})]
FairWithCards == [Fair EXCEPT !.groups = GroupTable(BobsCards),
                              !.roles = @ \cup Roles("creator", GroupScope(g1), {bob})]
\* ann owns one event, bob the other with its group; eve is a moderator.
TwoOwners == [FairWithCards EXCEPT
                !.events = EventTable(Bobs, Anns),
                !.roles = @ \cup Roles("creator", EventScope(expo), {ann})
                            \cup Roles("moderator", Global, {eve})]
AnnIs(name, db) == [db EXCEPT !.roles = @ \cup Roles(name, Global, {ann})]

MCStart ==
    [titles |-> AnnIs("admin", Fair),
     keepers |-> AnnIs("admin", FairWithCards),
     admins |-> AnnIs("moderator", Empty),
     items |-> Fair,
     staff |-> AnnIs("admin", [Empty EXCEPT
                                 !.events = EventTable(Unused, Bobs),
                                 !.roles = Roles("creator", EventScope(expo), {bob})]),
     wardens |-> AnnIs("admin", Empty),
     members |-> TwoOwners,
     groups |-> TwoOwners,
     curators |-> [TwoOwners EXCEPT
                     !.roles = @ \cup Roles("editor", EventScope(expo), {bob})],
     lateRole |-> AnnIs("admin", FairWithCards)]

MCServers == [x \in Settings |-> IF x \in {"titles", "keepers", "admins", "items", "lateRole"}
                                 THEN {s1, s2} ELSE {s1}]

OpsOf ==
    [titles |-> {"createEvent", "deleteEvent", "transferEvent", "adminTransferEvent"},
     keepers |-> {"deleteEvent", "transferGroup", "adminTransferGroup", "createGroup",
                  "removeGroup"},
     admins |-> {"setRole", "ban", "unban"},
     items |-> {"createMerch", "moveMerch", "deleteMerch"},
     staff |-> {"setRole", "createEvent", "updateEvent", "publishEvent", "deleteEvent"},
     wardens |-> {"setRole", "ban", "unban"},
     members |-> {"transferEvent", "adminTransferEvent", "assignEventEditor",
                  "revokeEventEditor", "adminAssignEventEditor", "adminRevokeEventEditor",
                  "deleteEvent"},
     groups |-> {"assignEventEditor", "createGroup", "updateGroup", "removeGroup",
                 "transferGroup", "adminTransferGroup", "assignGroupEditor",
                 "revokeGroupEditor"},
     curators |-> {"createMerch", "renameMerch", "publishMerch", "deleteMerch",
                   "adminDeleteMerch", "removeGroup"},
     lateRole |-> {"createMerch", "transferGroup"}]

\* What a setting leaves out of its requests' fields.
Plain == [name |-> {"cards", "rose", "lily"}, group |-> {"cards"}]
FieldsOf ==
    [titles |-> Plain @@ [event |-> {fair}, label |-> {"old"}, state |-> {"draft"}],
     keepers |-> Plain @@ [event |-> {fair}, label |-> {"old"}],
     admins |-> [until |-> {"temporary", "permanent"}, target |-> {ann, bob}],
     items |-> [user |-> {bob}, event |-> {fair}, state |-> {"draft"},
                name |-> {"rose"}],
     staff |-> [user |-> {ann, bob}, target |-> {ann, bob}, event |-> {fair}],
     wardens |-> [user |-> {ann, bob}, target |-> {ann, bob}],
     members |-> Plain @@ [target |-> {ann, bob}],
     groups |-> Plain @@ [event |-> {fair}, target |-> {ann, bob}],
     curators |-> Plain @@ [merch |-> {m1}, state |-> {"draft"}],
     lateRole |-> Plain @@ [event |-> {fair}, merch |-> {m1}]]

Fits(r, fields) == \A f \in DOMAIN r \cap DOMAIN fields : r[f] \in fields[f]
MCWorkload ==
    [x \in Settings |-> {r \in Requests : r.op \in OpsOf[x] /\ Fits(r, FieldsOf[x])}]

SessionSymmetry == Permutations({s1, s2})

=============================================================================
