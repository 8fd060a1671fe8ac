------------------------------ MODULE Parties ------------------------------
(***************************************************************************)
(* Who takes part in the small services beside the trade itself: accounts  *)
(* and the requests the server handles at the same time.                   *)
(***************************************************************************)
CONSTANTS
    Users,     \* users.id
    Sessions,  \* concurrent requests
    NoUser     \* no account

ASSUME PartyAssumption == NoUser \notin Users

Idle == [op |-> "idle"]
=============================================================================
