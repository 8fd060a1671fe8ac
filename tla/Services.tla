------------------------------ MODULE Services ------------------------------
(***************************************************************************)
(* The services beside the trade.  They share no state and every property  *)
(* speaks of one of them, so a behaviour lets a single one move, the one   *)
(* in focus, and the others stay where they start.                         *)
(***************************************************************************)
EXTENDS ChatProperties, Push, SignIn, Projection, Favorites, Wire

VARIABLE focus

vars == <<focus, chatVars, pushVars, signInVars, projectionVars, favoriteVars, letter>>

Services == {"chat", "push", "sign_in", "projection", "favorites", "wire"}

Init ==
    /\ focus \in Services
    /\ ChatInit /\ PushInit /\ SignInInit /\ ProjectionInit /\ FavoritesInit /\ WireInit

Next ==
    /\ UNCHANGED focus
    /\ \/ /\ focus = "chat" /\ ChatNext
          /\ UNCHANGED <<pushVars, signInVars, projectionVars, favoriteVars, letter>>
       \/ /\ focus = "push" /\ PushNext
          /\ UNCHANGED <<chatVars, signInVars, projectionVars, favoriteVars, letter>>
       \/ /\ focus = "sign_in" /\ SignInNext
          /\ UNCHANGED <<chatVars, pushVars, projectionVars, favoriteVars, letter>>
       \/ /\ focus = "projection" /\ ProjectionNext
          /\ UNCHANGED <<chatVars, pushVars, signInVars, favoriteVars, letter>>
       \/ /\ focus = "favorites" /\ FavoritesNext
          /\ UNCHANGED <<chatVars, pushVars, signInVars, projectionVars, letter>>
       \/ /\ focus = "wire" /\ WireNext
          /\ UNCHANGED <<chatVars, pushVars, signInVars, projectionVars, favoriteVars>>

Spec == Init /\ [][Next]_vars

\* Every service keeps its types.
TypeOK ==
    /\ ChatTypeOK /\ PushTypeOK /\ SignInTypeOK
    /\ ProjectionTypeOK /\ FavoritesTypeOK /\ WireTypeOK

=============================================================================
