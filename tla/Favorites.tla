----------------------------- MODULE Favorites ------------------------------
(***************************************************************************)
(* Favourite events and groups, and views.  A toggle deletes the row, and  *)
(* inserts it if there was none: two statements, so that two taps overlap. *)
(* Events go with all rows that name them, groups only by staff's removal. *)
(***************************************************************************)
EXTENDS Parties

CONSTANTS
    FavEvents,  \* events.id
    FavGroups,  \* group names
    WholeEvent  \* in place of a group name: the event itself

ASSUME FavoriteAssumption == WholeEvent \notin FavGroups

Marks == Users \X FavEvents \X (FavGroups \cup {WholeEvent})

VARIABLES
    present,    \* events: those that exist
    favorites,  \* event_favorites and group_favorites
    views,      \* event_views
    answered,   \* history: per mark, the last toggle's answer
    toggle      \* per session: the toggle served

favoriteVars == <<present, favorites, views, answered, toggle>>

FavoritesTypeOK ==
    /\ present \subseteq FavEvents
    /\ favorites \subseteq Marks
    /\ views \subseteq FavEvents \X Users
    /\ answered \in [Marks -> BOOLEAN]
    /\ toggle \in [Sessions -> {Idle} \cup [op: {"delete", "insert"}, mark: Marks]]

FavoritesInit ==
    /\ present = FavEvents
    /\ favorites = {} /\ views = {}
    /\ answered = [k \in Marks |-> FALSE]
    /\ toggle = [s \in Sessions |-> Idle]

Tap(s, k) ==
    /\ toggle[s] = Idle
    /\ toggle' = [toggle EXCEPT ![s] = [op |-> "delete", mark |-> k]]
    /\ UNCHANGED <<present, favorites, views, answered>>

Finish(s, on) ==
    /\ toggle' = [toggle EXCEPT ![s] = Idle]
    /\ answered' = [answered EXCEPT ![toggle[s].mark] = on]

ToggleDelete(s) ==
    LET k == toggle[s].mark IN
    /\ toggle[s].op = "delete"
    /\ IF k \in favorites
       THEN favorites' = favorites \ {k} /\ Finish(s, FALSE)
       ELSE /\ toggle' = [toggle EXCEPT ![s].op = "insert"]
            /\ UNCHANGED <<favorites, answered>>
    /\ UNCHANGED <<present, views>>

\* Mutant: a conflict takes the row away, as in a toggle in one statement.
InsertedOrNot(k) == IF k \in favorites THEN favorites \ {k} ELSE favorites \cup {k}

\* ON CONFLICT DO NOTHING: a row that got there first is as good.
Inserted(k) == favorites \cup {k}

\* The event is a foreign key; without it the insert fails.
ToggleInsert(s) ==
    LET k == toggle[s].mark IN
    /\ toggle[s].op = "insert"
    /\ IF k[2] \in present
       THEN favorites' = Inserted(k) /\ Finish(s, TRUE)
       ELSE /\ toggle' = [toggle EXCEPT ![s] = Idle]
            /\ UNCHANGED <<favorites, answered>>
    /\ UNCHANGED <<present, views>>

\* Mutant: the two ids are bound in the wrong order.
RegisterViewSwapped(u, e) ==
    /\ e \in present
    /\ views' = views \cup {<<u, e>>}
    /\ UNCHANGED <<present, favorites, answered, toggle>>

register_view(u, e) ==
    /\ e \in present
    /\ views' = views \cup {<<e, u>>}
    /\ UNCHANGED <<present, favorites, answered, toggle>>

Forget(marks) ==
    /\ favorites' = favorites \ marks
    /\ answered' = [k \in Marks |-> IF k \in marks THEN FALSE ELSE answered[k]]

\* ON DELETE CASCADE on all three tables.
EventGoes(e) ==
    /\ e \in present
    /\ present' = present \ {e}
    /\ Forget({k \in Marks : k[2] = e})
    /\ views' = {v \in views : v[1] # e}
    /\ UNCHANGED toggle

\* remove_for_admin deletes the favourites of the group; a later toggle of the
\* same name is not refused.
GroupGoes(e, g) ==
    /\ e \in present
    /\ Forget({k \in Marks : k[2] = e /\ k[3] = g})
    /\ UNCHANGED <<present, views, toggle>>

FavoritesNext ==
    \/ \E s \in Sessions : ToggleDelete(s) \/ ToggleInsert(s) \/ \E k \in Marks : Tap(s, k)
    \/ \E e \in FavEvents :
        \/ EventGoes(e)
        \/ \E g \in FavGroups : GroupGoes(e, g)
        \/ \E u \in Users : register_view(u, e)

FavoritesSpec == FavoritesInit /\ [][FavoritesNext]_favoriteVars

-----------------------------------------------------------------------------
\* However taps overlap, what is stored is what the last of them to be decided
\* has answered, and nothing is stored for an event that is gone.
FavoriteAsAnswered ==
    /\ \A k \in Marks : k \in favorites <=> answered[k]
    /\ \A k \in favorites : k[2] \in present
    /\ \A v \in views : v[1] \in present
=============================================================================
