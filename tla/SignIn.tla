------------------------------- MODULE SignIn -------------------------------
(***************************************************************************)
(* Guest accounts: a device presents its key (a uuid) and gets the account *)
(* of that key, made on the spot if there is none.  Lookup and insert are  *)
(* two statements, and the same device may sign in twice at a time.  What  *)
(* the user endpoints answer is kept, to say who gets to see a key.        *)
(***************************************************************************)
EXTENDS Parties

CONSTANTS
    Uuids,      \* users.uuid: keys that devices present
    Canonical,  \* those that are a v4 UUID in canonical form
    Tokens,     \* users.device_token
    NoToken,
    Staff       \* the users with user.read

ASSUME KeyAssumption == Canonical \subseteq Uuids /\ NoToken \notin Tokens

VARIABLES
    accounts,  \* users: key, device token and ban of each id
    told,      \* history: the answers that named an account, and who got them
    login      \* per session: the sign-in served

signInVars == <<accounts, told, login>>

NoAccount == [state |-> "unborn"]
AnyToken == Tokens \cup {NoToken}
AccountRows == [key: Uuids, token: AnyToken, banned: BOOLEAN]
HasAccount(u) == accounts[u] \in AccountRows
Logins == [op: {"lookup", "create"}, key: Uuids, token: AnyToken, restore: BOOLEAN]
          \cup [op: {"token"}, key: Uuids, token: Tokens, user: Users]

\* A reader is a user who asks, or the key a device signs in with.
Readers == [user: Users] \cup [key: Uuids]
Fields == {"key", "token", "role"}

SignInTypeOK ==
    /\ accounts \in [Users -> AccountRows \cup {NoAccount}]
    /\ told \subseteq [to: Readers, about: Users, fields: SUBSET Fields]
    /\ login \in [Sessions -> Logins \cup {Idle}]

SignInInit ==
    /\ accounts = [u \in Users |-> NoAccount]
    /\ told = {}
    /\ login = [s \in Sessions |-> Idle]

SetLogin(s, l) == login' = [login EXCEPT ![s] = l]
Tell(reader, u, fields) ==
    told' = told \cup {[to |-> reader, about |-> u, fields |-> fields]}

-----------------------------------------------------------------------------
(***************************************************************************)
(* guest_login                                                             *)
(***************************************************************************)
guest_login(s, k, t, restore) ==
    /\ login[s] = Idle
    /\ SetLogin(s, [op |-> "lookup", key |-> k, token |-> t, restore |-> restore])
    /\ UNCHANGED <<accounts, told>>

get_by_uuid(k) == {u \in Users : HasAccount(u) /\ accounts[u].key = k}

FoundBanned(s) ==
    /\ login[s].op = "lookup"
    /\ \E u \in get_by_uuid(login[s].key) : accounts[u].banned
    /\ SetLogin(s, Idle)
    /\ UNCHANGED <<accounts, told>>

Found(s) ==
    /\ login[s].op = "lookup"
    /\ \E u \in get_by_uuid(login[s].key) :
        /\ ~accounts[u].banned
        /\ IF login[s].token \in Tokens
           THEN /\ SetLogin(s, [op |-> "token", key |-> login[s].key,
                                token |-> login[s].token, user |-> u])
                /\ UNCHANGED told
           ELSE /\ Tell([key |-> login[s].key], u, Fields)
                /\ SetLogin(s, Idle)
    /\ UNCHANGED accounts

update_device_token(s) ==
    /\ login[s].op = "token"
    /\ accounts' = [accounts EXCEPT ![login[s].user].token = login[s].token]
    /\ Tell([key |-> login[s].key], login[s].user, Fields)
    /\ SetLogin(s, Idle)

\* A restore of an unknown key and a key of another form make no account.
NotFound(s) ==
    /\ login[s].op = "lookup"
    /\ get_by_uuid(login[s].key) = {}
    /\ SetLogin(s, IF login[s].restore \/ login[s].key \notin Canonical
                   THEN Idle ELSE [login[s] EXCEPT !.op = "create"])
    /\ UNCHANGED <<accounts, told>>

\* Mutant: no unique key.
InsertAnyway(k) == k \in Uuids

\* users.uuid is UNIQUE: the second insert of a key fails.
MayInsert(k) == get_by_uuid(k) = {}

create_guest(s) ==
    LET k == login[s].key IN
    /\ login[s].op = "create"
    /\ SetLogin(s, Idle)
    /\ IF MayInsert(k)
       THEN \E u \in {v \in Users : ~HasAccount(v)} :
                /\ accounts' = [accounts EXCEPT ![u] =
                        [key |-> k, token |-> login[s].token, banned |-> FALSE]]
                /\ Tell([key |-> k], u, Fields)
       ELSE UNCHANGED <<accounts, told>>

-----------------------------------------------------------------------------
(***************************************************************************)
(* What the other endpoints say about accounts                             *)
(***************************************************************************)
\* Mutant: the row as it was read.
WholeUser == Fields

directory_user_view == {}
credential_free_user_view == {"role"}
staff_user_view == {"role", "token"}

\* update_username answers with the user whose id the path names, provided the
\* body names the same: the only proof of identity the API has so far.
update_username(u) ==
    /\ HasAccount(u)
    /\ Tell([user |-> u], u, credential_free_user_view)
    /\ UNCHANGED <<accounts, login>>

ActiveUser(u) == HasAccount(u) /\ ~accounts[u].banned

list_users(caller) ==
    /\ ActiveUser(caller)
    /\ told' = told \cup
         [to: {[user |-> caller]}, about: {u \in Users : HasAccount(u)},
          fields: {IF caller \in Staff THEN credential_free_user_view
                   ELSE directory_user_view}]
    /\ UNCHANGED <<accounts, login>>

get_user(caller, u) ==
    /\ ActiveUser(caller) /\ caller \in Staff
    /\ HasAccount(u)
    /\ Tell([user |-> caller], u, staff_user_view)
    /\ UNCHANGED <<accounts, login>>

SetBan(u, banned) ==
    /\ HasAccount(u)
    /\ accounts' = [accounts EXCEPT ![u].banned = banned]
    /\ UNCHANGED <<told, login>>

SignInNext ==
    \/ \E s \in Sessions :
        \/ \E k \in Uuids, t \in AnyToken, r \in BOOLEAN : guest_login(s, k, t, r)
        \/ FoundBanned(s) \/ Found(s) \/ update_device_token(s)
        \/ NotFound(s) \/ create_guest(s)
    \/ \E u \in Users :
        \/ update_username(u) \/ list_users(u)
        \/ \E v \in Users : get_user(u, v)
        \/ \E b \in BOOLEAN : SetBan(u, b)

SignInSpec == SignInInit /\ [][SignInNext]_signInVars

-----------------------------------------------------------------------------
\* A key opens one account for good, however many devices present it at the
\* same time: two sign-ins never part the data of one person.
OneAccountPerKey ==
    \A a, b \in told :
        /\ a.to = b.to /\ a.to \in [key: Uuids] => a.about = b.about
        /\ a.to = [key |-> accounts[a.about].key] \/ a.to \in [user: Users]

\* The key of an account, all it takes to be its user, is told to whoever
\* presents it and to nobody else; a device token also to staff.
CredentialsStayHome ==
    \A a \in told :
        /\ "key" \in a.fields => a.to = [key |-> accounts[a.about].key]
        /\ "token" \in a.fields =>
            \/ a.to = [key |-> accounts[a.about].key]
            \/ a.to \in [user: Staff]
=============================================================================
