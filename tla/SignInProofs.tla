---------------------------- MODULE SignInProofs ----------------------------
(***************************************************************************)
(* Sign-in and account views, for any number of devices and accounts.      *)
(***************************************************************************)
EXTENDS SignIn, TLAPS

-----------------------------------------------------------------------------
(***************************************************************************)
(* The inductive invariant: a key has one account, a sign-in on its way    *)
(* holds the account of its key, and every answer given so far is either   *)
(* to the key of the account or without it.                                *)
(***************************************************************************)
KeysUnique ==
    \A u, v \in Users :
        HasAccount(u) /\ HasAccount(v) /\ accounts[u].key = accounts[v].key => u = v

Holds(k, u) == HasAccount(u) /\ accounts[u].key = k

LoginKnows(l) == l.op = "token" => Holds(l.key, l.user)

Proper(a) ==
    \/ \E k \in Uuids : a.to = [key |-> k] /\ Holds(k, a.about)
    \/ \E v \in Users :
        /\ a.to = [user |-> v]
        /\ "key" \notin a.fields
        /\ "token" \in a.fields => v \in Staff

SignInInvariant ==
    /\ SignInTypeOK
    /\ KeysUnique
    /\ \A s \in Sessions : LoginKnows(login[s])
    /\ \A a \in told : Proper(a)

\* A device that presents a key is not a user who asks.
LEMMA ReadersDiffer ==
    ASSUME NEW k, NEW v
    PROVE  [key |-> k] # [user |-> v]
  <1>1. DOMAIN [key |-> k] = {"key"} /\ DOMAIN [user |-> v] = {"user"}
    OBVIOUS
  <1> QED BY <1>1

LEMMA NoAccountIsNoRow == NoAccount \notin AccountRows
  <1>1. DOMAIN NoAccount = {"state"}
    BY DEF NoAccount
  <1>2. \A r \in AccountRows : DOMAIN r = {"key", "token", "banned"}
    BY DEF AccountRows
  <1> QED BY <1>1, <1>2

LEMMA LoginByOp ==
    ASSUME NEW l \in Logins \cup {Idle}
    PROVE  /\ l.op \in {"lookup", "create"} => l \in [op: {"lookup", "create"}, key: Uuids,
                                                      token: AnyToken, restore: BOOLEAN]
           /\ l.op = "token" => l \in [op: {"token"}, key: Uuids, token: Tokens, user: Users]
  BY DEF Logins, Idle

\* Accounts keep their keys and answers stay proper when rows change in other
\* respects.
LEMMA KeysKept ==
    ASSUME SignInInvariant, NEW u \in Users, HasAccount(u),
           NEW row \in AccountRows, row.key = accounts[u].key,
           accounts' = [accounts EXCEPT ![u] = row]
    PROVE  /\ accounts' \in [Users -> AccountRows \cup {NoAccount}]
           /\ KeysUnique'
           /\ \A k \in Uuids, v \in Users : Holds(k, v) => Holds(k, v)'
           /\ \A a \in told : Proper(a)'
  <1>1. accounts' \in [Users -> AccountRows \cup {NoAccount}]
    BY DEF SignInInvariant, SignInTypeOK
  <1>2. \A v \in Users : HasAccount(v)' = HasAccount(v)
                         /\ (HasAccount(v) => accounts'[v].key = accounts[v].key)
    BY DEF SignInInvariant, SignInTypeOK, HasAccount
  <1>3. \A k \in Uuids, v \in Users : Holds(k, v) => Holds(k, v)'
    BY <1>2 DEF Holds
  <1>4. \A a \in told : a.about \in Users
    BY DEF SignInInvariant, SignInTypeOK
  <1>5. \A a \in told : Proper(a)'
    BY <1>3, <1>4 DEF SignInInvariant, Proper
  <1> QED BY <1>1, <1>2, <1>3, <1>5 DEF SignInInvariant, KeysUnique

-----------------------------------------------------------------------------
LEMMA SignInInitially == SignInInit => SignInInvariant
  BY NoAccountIsNoRow DEF SignInInit, SignInInvariant, SignInTypeOK, KeysUnique, HasAccount,
     LoginKnows, Idle

\* An answer to the key of an account keeps the answers proper.
LEMMA TellingAKey ==
    ASSUME SignInInvariant, NEW k \in Uuids, NEW u \in Users,
           Tell([key |-> k], u, Fields), Holds(k, u)',
           \A a \in told : Proper(a)'
    PROVE  /\ told' \subseteq [to: Readers, about: Users, fields: SUBSET Fields]
           /\ (\A a \in told : Proper(a))'
  <1> DEFINE new == [to |-> [key |-> k], about |-> u, fields |-> Fields]
  <1>1. new \in [to: Readers, about: Users, fields: SUBSET Fields]
    BY DEF Readers
  <1>2. Proper(new)'
    BY DEF Proper
  <1> HIDE DEF new
  <1>3. told' = told \cup {new}
    BY DEF Tell, new
  <1> QED BY <1>1, <1>2, <1>3 DEF SignInInvariant, SignInTypeOK

\* So does an answer without the key to a user who asks.
LEMMA TellingAUser ==
    ASSUME SignInInvariant, NEW v \in Users, NEW u \in Users, NEW f \in SUBSET Fields,
           "key" \notin f, "token" \in f => v \in Staff
    PROVE  /\ [to |-> [user |-> v], about |-> u, fields |-> f]
                \in [to: Readers, about: Users, fields: SUBSET Fields]
           /\ Proper([to |-> [user |-> v], about |-> u, fields |-> f])
  BY DEF Proper, Readers

LEMMA SignInInductive == SignInInvariant /\ [SignInNext]_signInVars => SignInInvariant'
  <1> SUFFICES ASSUME SignInInvariant, [SignInNext]_signInVars PROVE SignInInvariant'
    OBVIOUS
  <1>a. SignInTypeOK
    BY DEF SignInInvariant
  <1>b. ASSUME UNCHANGED <<accounts, told>>
        PROVE  KeysUnique' /\ (\A a \in told : Proper(a))'
    BY <1>b DEF SignInInvariant, KeysUnique, HasAccount, Proper, Holds
  <1>c. ASSUME UNCHANGED accounts
        PROVE  /\ KeysUnique'
               /\ \A k, u : Holds(k, u)' = Holds(k, u)
               /\ \A a : Proper(a)' = Proper(a)
               /\ \A l : LoginKnows(l)' = LoginKnows(l)
    BY <1>c DEF SignInInvariant, KeysUnique, HasAccount, Proper, Holds, LoginKnows
  <1>1. ASSUME NEW s \in Sessions, NEW k \in Uuids, NEW t \in AnyToken, NEW r \in BOOLEAN,
               guest_login(s, k, t, r)
        PROVE  SignInInvariant'
    BY <1>1, <1>a, <1>c DEF guest_login, SetLogin, SignInInvariant, SignInTypeOK, Logins,
       LoginKnows
  <1>2. ASSUME NEW s \in Sessions, FoundBanned(s) \/ NotFound(s) PROVE SignInInvariant'
    <2>1. login[s] \in [op: {"lookup", "create"}, key: Uuids, token: AnyToken, restore: BOOLEAN]
      BY <1>2, <1>a, LoginByOp DEF FoundBanned, NotFound, SignInTypeOK
    <2>2. /\ Idle \in Logins \cup {Idle} /\ LoginKnows(Idle)
          /\ [login[s] EXCEPT !.op = "create"] \in Logins
          /\ LoginKnows([login[s] EXCEPT !.op = "create"])
      BY <2>1 DEF Logins, LoginKnows, Idle
    <2> QED BY <1>2, <1>a, <1>c, <2>2 DEF FoundBanned, NotFound, SetLogin, SignInInvariant, SignInTypeOK
  <1>3. ASSUME NEW s \in Sessions, Found(s) PROVE SignInInvariant'
    <2> DEFINE l == login[s]
    <2>1. l \in [op: {"lookup", "create"}, key: Uuids, token: AnyToken, restore: BOOLEAN]
      BY <1>3, <1>a, LoginByOp DEF Found, SignInTypeOK
    <2>2. PICK u \in Users :
            /\ Holds(l.key, u)
            /\ UNCHANGED accounts
            /\ \/ /\ l.token \in Tokens
                  /\ SetLogin(s, [op |-> "token", key |-> l.key, token |-> l.token, user |-> u])
                  /\ UNCHANGED told
               \/ Tell([key |-> l.key], u, Fields) /\ SetLogin(s, Idle)
      BY <1>3 DEF Found, get_by_uuid, Holds
    <2>3. CASE l.token \in Tokens /\ UNCHANGED told
               /\ SetLogin(s, [op |-> "token", key |-> l.key, token |-> l.token, user |-> u])
      <3> DEFINE n == [op |-> "token", key |-> l.key, token |-> l.token, user |-> u]
      <3>1. n \in Logins /\ LoginKnows(n)
        BY <2>1, <2>2, <2>3 DEF Logins, LoginKnows
      <3> HIDE DEF n
      <3>2. login' = [login EXCEPT ![s] = n]
        BY <2>3 DEF SetLogin, n
      <3> QED BY <2>2, <2>3, <1>a, <1>c, <3>1, <3>2 DEF SignInInvariant, SignInTypeOK
    <2>4. CASE Tell([key |-> l.key], u, Fields) /\ SetLogin(s, Idle)
      <3>1. PICK k \in Uuids : k = l.key
        BY <2>1
      <3>2. Holds(k, u)' /\ Tell([key |-> k], u, Fields) /\ \A a \in told : Proper(a)'
        BY <2>2, <2>4, <3>1, <1>c DEF SignInInvariant
      <3>3. told' \subseteq [to: Readers, about: Users, fields: SUBSET Fields]
            /\ (\A a \in told : Proper(a))'
        BY <3>2, TellingAKey
      <3> QED BY <2>2, <2>4, <3>3, <1>a, <1>c
              DEF SetLogin, SignInInvariant, SignInTypeOK, LoginKnows, Idle
    <2> QED BY <2>2, <2>3, <2>4
  <1>4. ASSUME NEW s \in Sessions, update_device_token(s) PROVE SignInInvariant'
    <2> DEFINE l == login[s]
               row == [accounts[l.user] EXCEPT !.token = l.token]
    <2>1. l \in [op: {"token"}, key: Uuids, token: Tokens, user: Users] /\ Holds(l.key, l.user)
      BY <1>4, <1>a, LoginByOp DEF update_device_token, SignInTypeOK, SignInInvariant, LoginKnows
    <2>2. accounts[l.user] \in AccountRows
      BY <2>1 DEF Holds, HasAccount
    <2>3. row \in AccountRows /\ row.key = accounts[l.user].key
      BY <2>1, <2>2 DEF AccountRows, AnyToken
    <2>4. accounts' = [accounts EXCEPT ![l.user] = row]
      BY <1>4 DEF update_device_token
    <2> HIDE DEF row
    <2>5. /\ accounts' \in [Users -> AccountRows \cup {NoAccount}]
          /\ KeysUnique'
          /\ \A k \in Uuids, v \in Users : Holds(k, v) => Holds(k, v)'
          /\ \A a \in told : Proper(a)'
      BY <2>1, <2>2, <2>3, <2>4, KeysKept DEF HasAccount
    <2>6. told' \subseteq [to: Readers, about: Users, fields: SUBSET Fields]
          /\ (\A a \in told : Proper(a))'
      BY <1>4, <2>1, <2>5, TellingAKey DEF update_device_token
    <2>7. \A t \in Sessions : LoginKnows(login[t])'
      <3> SUFFICES ASSUME NEW t \in Sessions PROVE LoginKnows(login[t])'
        OBVIOUS
      <3>1. CASE t = s
        BY <3>1, <1>4, <1>a DEF update_device_token, SetLogin, SignInTypeOK, LoginKnows, Idle
      <3>2. CASE t # s
        <4>1. login'[t] = login[t] /\ LoginKnows(login[t])
          BY <3>2, <1>4, <1>a DEF update_device_token, SetLogin, SignInTypeOK, SignInInvariant
        <4>2. login[t].op = "token" => login[t].key \in Uuids /\ login[t].user \in Users
          BY <1>a, LoginByOp DEF SignInTypeOK
        <4> QED BY <4>1, <4>2, <2>5 DEF LoginKnows
      <3> QED BY <3>1, <3>2
    <2> QED BY <1>4, <1>a, <2>5, <2>6, <2>7
            DEF update_device_token, SetLogin, SignInInvariant, SignInTypeOK
  <1>5. ASSUME NEW s \in Sessions, create_guest(s) PROVE SignInInvariant'
    <2> DEFINE l == login[s]
    <2>1. l \in [op: {"lookup", "create"}, key: Uuids, token: AnyToken, restore: BOOLEAN]
      BY <1>5, <1>a, LoginByOp DEF create_guest, SignInTypeOK
    <2>2. CASE UNCHANGED <<accounts, told>>
      BY <2>2, <1>5, <1>a, <1>c
         DEF create_guest, SetLogin, SignInInvariant, SignInTypeOK, LoginKnows, Idle
    <2>3. CASE ~UNCHANGED <<accounts, told>>
      <3> DEFINE row == [key |-> l.key, token |-> l.token, banned |-> FALSE]
      <3>k. PICK k \in Uuids : k = l.key
        BY <2>1
      <3>1. PICK u \in Users :
              /\ ~HasAccount(u)
              /\ accounts' = [accounts EXCEPT ![u] = row]
              /\ Tell([key |-> k], u, Fields)
              /\ \A v \in Users : ~Holds(k, v)
        BY <1>5, <2>3, <3>k DEF create_guest, MayInsert, get_by_uuid, Holds
      <3>2. row \in AccountRows /\ row.key = k
        BY <2>1, <3>k DEF AccountRows
      <3> HIDE DEF row
      <3>3. accounts' \in [Users -> AccountRows \cup {NoAccount}]
        BY <3>1, <3>2, <1>a DEF SignInTypeOK
      <3>4. /\ accounts'[u] = row
            /\ \A v \in Users \ {u} : accounts'[v] = accounts[v]
        BY <3>1, <1>a DEF SignInTypeOK
      <3>5. KeysUnique'
        BY <3>1, <3>2, <3>4 DEF SignInInvariant, KeysUnique, HasAccount, Holds
      <3>6. \A h \in Uuids, v \in Users : Holds(h, v) => Holds(h, v)'
        BY <3>1, <3>4 DEF Holds, HasAccount
      <3>7. \A a \in told : a.about \in Users
        BY <1>a DEF SignInTypeOK
      <3>8. \A a \in told : Proper(a)'
        BY <3>6, <3>7 DEF Proper, SignInInvariant
      <3>9. Holds(k, u)'
        BY <3>2, <3>4 DEF Holds, HasAccount
      <3>10. told' \subseteq [to: Readers, about: Users, fields: SUBSET Fields]
             /\ (\A a \in told : Proper(a))'
        BY <3>1, <3>8, <3>9, TellingAKey
      <3>11. \A t \in Sessions : LoginKnows(login[t])'
        <4> SUFFICES ASSUME NEW t \in Sessions PROVE LoginKnows(login[t])'
          OBVIOUS
        <4>1. CASE t = s
          BY <4>1, <1>5, <1>a DEF create_guest, SetLogin, SignInTypeOK, LoginKnows, Idle
        <4>2. CASE t # s
          <5>1. login'[t] = login[t] /\ LoginKnows(login[t])
            BY <4>2, <1>5, <1>a DEF create_guest, SetLogin, SignInTypeOK, SignInInvariant
          <5>2. login[t].op = "token" => login[t].key \in Uuids /\ login[t].user \in Users
            BY <1>a, LoginByOp DEF SignInTypeOK
          <5> QED BY <5>1, <5>2, <3>6 DEF LoginKnows
        <4> QED BY <4>1, <4>2
      <3> QED BY <1>5, <1>a, <3>3, <3>5, <3>10, <3>11
              DEF create_guest, SetLogin, SignInInvariant, SignInTypeOK
    <2> QED BY <2>2, <2>3
  <1>6. ASSUME NEW u \in Users, update_username(u) PROVE SignInInvariant'
    <2> DEFINE new == [to |-> [user |-> u], about |-> u, fields |-> credential_free_user_view]
    <2>1. new \in [to: Readers, about: Users, fields: SUBSET Fields] /\ Proper(new)
      BY TellingAUser DEF credential_free_user_view, Fields
    <2>2. told' = told \cup {new} /\ UNCHANGED <<accounts, login>>
      BY <1>6 DEF update_username, Tell
    <2> HIDE DEF new
    <2> QED BY <2>1, <2>2, <1>a, <1>c DEF SignInInvariant, SignInTypeOK
  <1>7. ASSUME NEW u \in Users, list_users(u) PROVE SignInInvariant'
    <2> DEFINE view == IF u \in Staff THEN credential_free_user_view ELSE directory_user_view
               new == [to: {[user |-> u]}, about: {v \in Users : HasAccount(v)}, fields: {view}]
    <2>1. view \in SUBSET Fields /\ "key" \notin view /\ "token" \notin view
      BY DEF credential_free_user_view, directory_user_view, Fields
    <2>2. told' = told \cup new /\ UNCHANGED <<accounts, login>>
      BY <1>7 DEF list_users
    <2> HIDE DEF view
    <2>3. ASSUME NEW a \in new
          PROVE  a \in [to: Readers, about: Users, fields: SUBSET Fields] /\ Proper(a)
      <3>1. a = [to |-> [user |-> u], about |-> a.about, fields |-> view] /\ a.about \in Users
        OBVIOUS
      <3> QED BY <3>1, <2>1, TellingAUser
    <2> HIDE DEF new
    <2> QED BY <2>2, <2>3, <1>a, <1>c DEF SignInInvariant, SignInTypeOK
  <1>8. ASSUME NEW u \in Users, NEW v \in Users, get_user(u, v) PROVE SignInInvariant'
    <2> DEFINE new == [to |-> [user |-> u], about |-> v, fields |-> staff_user_view]
    <2>1. new \in [to: Readers, about: Users, fields: SUBSET Fields] /\ Proper(new)
      BY <1>8, TellingAUser DEF staff_user_view, Fields, get_user
    <2>2. told' = told \cup {new} /\ UNCHANGED <<accounts, login>>
      BY <1>8 DEF get_user, Tell
    <2> HIDE DEF new
    <2> QED BY <2>1, <2>2, <1>a, <1>c DEF SignInInvariant, SignInTypeOK
  <1>9. ASSUME NEW u \in Users, NEW b \in BOOLEAN, SetBan(u, b) PROVE SignInInvariant'
    <2> DEFINE row == [accounts[u] EXCEPT !.banned = b]
    <2>1. row \in AccountRows /\ row.key = accounts[u].key /\ HasAccount(u)
      BY <1>9 DEF SetBan, HasAccount, AccountRows
    <2>2. accounts' = [accounts EXCEPT ![u] = row] /\ UNCHANGED <<told, login>>
      BY <1>9 DEF SetBan
    <2> HIDE DEF row
    <2>3. /\ accounts' \in [Users -> AccountRows \cup {NoAccount}]
          /\ KeysUnique'
          /\ \A k \in Uuids, w \in Users : Holds(k, w) => Holds(k, w)'
          /\ \A a \in told : Proper(a)'
      BY <2>1, <2>2, KeysKept
    <2>4. ASSUME NEW s \in Sessions PROVE LoginKnows(login[s])'
      <3>1. login[s].op = "token" => login[s].key \in Uuids /\ login[s].user \in Users
        BY <1>a, LoginByOp DEF SignInTypeOK
      <3> QED BY <2>2, <2>3, <3>1 DEF LoginKnows, SignInInvariant
    <2> QED BY <1>a, <2>2, <2>3, <2>4 DEF SignInInvariant, SignInTypeOK
  <1>10. CASE UNCHANGED signInVars
    BY <1>10, <1>a, <1>c DEF signInVars, SignInInvariant, SignInTypeOK
  <1> QED
    BY <1>1, <1>2, <1>3, <1>4, <1>5, <1>6, <1>7, <1>8, <1>9, <1>10 DEF SignInNext

-----------------------------------------------------------------------------
\* The two kinds of reader of a proper answer.
LEMMA ProperReaders ==
    ASSUME NEW a \in told, Proper(a)
    PROVE  \/ a.to = [key |-> accounts[a.about].key]
           \/ /\ a.to \in [user: Users] /\ "key" \notin a.fields
              /\ "token" \in a.fields => a.to \in [user: Staff]
  <1>1. CASE \E k \in Uuids : a.to = [key |-> k] /\ Holds(k, a.about)
    <2>1. PICK k \in Uuids : a.to = [key |-> k] /\ Holds(k, a.about)
      BY <1>1
    <2>2. k = accounts[a.about].key
      BY <2>1 DEF Holds
    <2> QED BY <2>1, <2>2
  <1>2. CASE \E v \in Users :
               /\ a.to = [user |-> v] /\ "key" \notin a.fields
               /\ "token" \in a.fields => v \in Staff
    <2>1. PICK v \in Users :
            /\ a.to = [user |-> v] /\ "key" \notin a.fields
            /\ "token" \in a.fields => v \in Staff
      BY <1>2
    <2>2. a.to \in [user: Users]
      BY <2>1
    <2>3. ASSUME "token" \in a.fields PROVE a.to \in [user: Staff]
      BY <2>1, <2>3
    <2> QED BY <2>1, <2>2, <2>3
  <1> QED BY <1>1, <1>2 DEF Proper

\* Accounts, answers and sign-ins keep their types.
THEOREM SignInTypeCorrect == SignInSpec => []SignInTypeOK
  BY SignInInitially, SignInInductive, PTL DEF SignInSpec, SignInInvariant

\* However many devices present a key at the same time, the answers to it name
\* one account.
THEOREM KeyOpensOneAccount == SignInSpec => []OneAccountPerKey
  <1>1. SignInInvariant => OneAccountPerKey
    <2> SUFFICES ASSUME SignInInvariant, NEW a \in told, NEW b \in told
                 PROVE  /\ a.to = b.to /\ a.to \in [key: Uuids] => a.about = b.about
                        /\ a.to = [key |-> accounts[a.about].key] \/ a.to \in [user: Users]
      BY DEF OneAccountPerKey
    <2>1. Proper(a) /\ Proper(b) /\ a.about \in Users /\ b.about \in Users
      BY DEF SignInInvariant, SignInTypeOK
    <2>2. a.to = [key |-> accounts[a.about].key] \/ a.to \in [user: Users]
      BY <2>1, ProperReaders
    <2>3. ASSUME a.to = b.to, a.to \in [key: Uuids] PROVE a.about = b.about
      <3>1. PICK k \in Uuids : a.to = [key |-> k]
        BY <2>3
      <3>2. ASSUME NEW c \in {a, b}
            PROVE  Holds(k, c.about)
        <4>1. c.to = [key |-> k] /\ Proper(c)
          BY <2>1, <2>3, <3>1
        <4>2. PICK h \in Uuids : c.to = [key |-> h] /\ Holds(h, c.about)
          BY <4>1, ReadersDiffer DEF Proper
        <4>3. [key |-> h].key = [key |-> k].key
          BY <4>1, <4>2
        <4> QED BY <4>2, <4>3
      <3> QED BY <2>1, <3>2 DEF SignInInvariant, KeysUnique, Holds
    <2> QED BY <2>2, <2>3
  <1> QED BY <1>1, SignInInitially, SignInInductive, PTL DEF SignInSpec

\* The key of an account is told to whoever presents it and to nobody else; a
\* device token also to staff.
THEOREM CredentialsAreKept == SignInSpec => []CredentialsStayHome
  <1>1. SignInInvariant => CredentialsStayHome
    <2> SUFFICES ASSUME SignInInvariant, NEW a \in told
                 PROVE  /\ "key" \in a.fields => a.to = [key |-> accounts[a.about].key]
                        /\ "token" \in a.fields =>
                            \/ a.to = [key |-> accounts[a.about].key]
                            \/ a.to \in [user: Staff]
      BY DEF CredentialsStayHome
    <2>1. Proper(a)
      BY DEF SignInInvariant
    <2> QED BY <2>1, ProperReaders
  <1> QED BY <1>1, SignInInitially, SignInInductive, PTL DEF SignInSpec
=============================================================================
