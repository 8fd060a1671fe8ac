# Formal models of ymatch

ymatch lets fans swap merchandise. Users record what they HAVE, WANT and offer
for TRADE; a periodic matcher opens a *match* between two users of the same
merchandise group who can each give what the other wants; the two negotiate
legs, agree, meet, complete and finally apply the exchange to their
inventories. Around the trade there are events, groups and items with owners
and roles, a chat per match, web push, guest accounts and favourites. The
backend is stateless Rust (axum, sqlx) over PostgreSQL at READ COMMITTED;
everything that can go wrong does so between the statements or transactions of
two requests, or between a request and the matcher.

Contents: [inventory](#inventory) · [modules](#modules) ·
[state and actions against the code](#state-and-actions-against-the-code) ·
[abstractions](#abstractions) · [runs](#runs) · [fairness](#fairness) ·
[findings](#findings) · [proofs](#proofs) ·
[what is only model-checked](#what-is-only-model-checked) ·
[what is not modelled](#what-is-not-modelled) · [what is left](#what-is-left)

## Inventory

| Component | Source (`src/backend/src/`) | State | Operations | Interacts with | Hard behaviour | Correct when |
|---|---|---|---|---|---|---|
| Match lifecycle | `services/match_lifecycle.rs`, `repositories/match_/{mod,read,write}.rs`, `handlers/matches.rs` | `matches`, `match_items`, per-user completion and application times | offer, accept, reject, complete, apply, admin delete | inventory (gates and deltas), capacity (cancels), chat, push after commit | check-then-write across statements, `FOR UPDATE` on one row but plain reads of others, retries | agreement is the other side's, balanced, frozen; completion final; applied once |
| Mutual capacity and system cancel | `repositories/match_/capacity.rs` | none of its own | predicate, conditional `UPDATE`, system message | called by inventory edit, apply, merch delete | list first, cancel later; two cancellers | a match without capacity does not linger; none is cancelled without cause; one message per cancel |
| Periodic matcher | `matching.rs`, `repositories/match_/matcher.rs`, `main.rs` | loop variables only | one pass every interval: queries, insert, reopen | reads inventory, merch, users; writes matches | no transaction around the pass, evidence gets stale, a query fails midway | opens only on evidence, never starves a pair, starts every negotiation clean |
| Inventory | `repositories/inventory.rs`, `handlers/inventory.rs` | `inventory` rows (user, merch, status) | set a quantity, apply a trade's deltas | lifecycle, capacity, matcher | lock order against matches, gate in a stale snapshot | only an entry takes a quantity below zero, each trade counted once |
| Inventory projection | `services/inventory_projection.rs` | none | fold of legs over rows, read by two statements | inventory, matches | must foretell what a third path, apply, will do | it is the outcome of completing and applying everything under way |
| Merch catalog | `repositories/merch.rs`, `handlers/merch.rs` | `merchandise` (name, group, `is_deleted`, `trade_enabled`) | create, rename, move, publish, delete by creator or admin | cancels matches on delete, makes groups and creator roles | delete against a late offer, name test then write, creator role for an owner read earlier | live names unique, deleted items frozen |
| Groups | `services/group.rs`, `repositories/group.rs`, `handlers/groups.rs` | `merchandise_groups`, group-scoped roles | upsert, update, remove, transfer, members | removes messages, matches, merch and roles | upsert, transfer and removal at once | owner and creator role agree, no message loses its match |
| Events | `services/event.rs`, `repositories/event.rs`, `handlers/events.rs` | `events`, event-scoped roles | create, update, publish, delete, transfer, members, my-role | groups (cascade), RBAC | two transfers at once | one owner, who alone holds the creator role |
| Users, bans, RBAC | `services/{rbac,permissions,permission_catalog}.rs`, `repositories/{rbac,user}.rs`, `handlers/{admin,auth,common}.rs` | users, roles, bans | guest sign-in, views of accounts, set role, ban, decision rule | every handler's guard; matcher reads the ban | permission read before the write it guards, grants spread over nine migrations, two sign-ins of one key | every change is one its caller was entitled to; a key opens one account and is told to nobody else |
| Match chat | `handlers/messages.rs`, `repositories/message.rs` | messages, read watermarks | send, open a thread, cards and badge | lifecycle posts SYSTEM messages, staff removes matches | listing, then stamping; NOW() is older than the commit | unread numbers can be trusted and made to go away |
| Web push | `handlers/push.rs`, `repositories/push_subscription.rs`, `notifications/` | subscriptions | subscribe, unsubscribe, notify, prune | after every commit, best effort | a browser changes hands while notices go out | rows go for a cause, notices reach their reader |
| Favorites and views | `repositories/{event_favorites,group_favorites,event_views}.rs` | rows per user | toggle, record | event and group removal | two toggles at once | what is stored is what was answered |
| Wire models | `generated/`, `src/proto/models.proto` | none | write and read JSON documents | every handler | defaults left out or restored by kind of field, repeated and unknown fields | a document has one meaning |
| Images, search, HTTP edge, migrations, Flutter client, deployment | see `PROJECT.json` | files or none | I/O, mapping, queries | | | out of scope, below |

## Modules

| Module | What it is |
|---|---|
| `MatchRules` | the pure rules of a trade: keys of matches and legs, mutual capacity, leg validation, balance, the inventory delta of an application |
| `TradeLifecycle` | matches, inventory, merch and the matcher: tables, sessions with their row locks, cancels; `Spec`, `FairSpec`, `SerialSpec`; EXTENDS `MatchRules` |
| `Negotiation` | abstract: what one match promises its two parties, without transactions, locks or a database |
| `TradeProperties` | what the lifecycle promises; `Deal(k)` instantiates `Negotiation` for the match of key `k` |
| `AccessRules` | role and permission catalog with all migrations applied, the decision rule, the my-role reports: operators only |
| `Access` | users, bans, roles, events and groups: each request a chain of statements ending in its write; EXTENDS `AccessRules` |
| `Catalog` | merchandise beside them, and the next-state relation of the whole; EXTENDS `Access` |
| `Ownership` | abstract: an owned thing has one owner, who alone holds the creator role, and both change in one step |
| `CatalogProperties` | what must hold of all that; `EventTitle(e)` and `GroupTitle(g)` instantiate `Ownership` |
| `Parties` | the users and sessions that the small services share |
| `Chat`, `ChatProperties` | messages, watermarks, cards, badges, removal of matches by staff; and what a user may conclude from them |
| `Push`, `SignIn`, `Favorites` | the services of those names |
| `Projection` | the projected inventory against trades and edits that move on; uses `MatchRules` |
| `Wire` | the field tables of all messages, their writer and their reader |
| `Services` | those services side by side, one in motion at a time |
| `Sums` | lemmas about folds and sums over finite sets |
| `TradeLifecycleProofs`, `TradeHistoryProofs`, `TradeSerialProofs` | theorems of `TradeLifecycle`: its invariants and `Negotiation`; what messages and stocks tell of the past; requests that do not overlap |
| `CatalogProofs`, `ChatProofs`, `SignInProofs`, `ServicesProofs` | theorems of `Catalog`, `Chat`, `SignIn`; of `Projection`, `Favorites`, `Wire`, `Push` and `Services` |
| `MCTrade`, `MCScenes` | instances of the lifecycle; `MCScenes` puts several into one run |
| `MCCatalog` | nine settings of `Catalog` |
| `MCServices` | an instance of `Services` |

Operators named by a comment `Mutant:` are wrong variants of the definition that
follows them; no specification uses them. They show that the properties can fail:
putting one in the place of the definition makes TLC find the property listed
with it in `PROJECT.json` violated.

The trade, the catalog and each small service are separate state machines. They
meet in few places, and each module carries its side of them: `TradeLifecycle` has
the deletion, move and ban that the catalog causes as actions of its own;
`Chat` and `Projection` take the steps of a match as `TradeLifecycle` allows
them; `Catalog` has roles and ownership of what `TradeLifecycle` only trades.

## State and actions against the code

### The trade (`TradeLifecycle`)

| Variable | Code |
|---|---|
| `inv` | committed `inventory.quantity`, 0 when there is no row |
| `group`, `live` | `merchandise.group_name`; merch with `is_deleted = false` and `trade_enabled = true` (delete changes both at once) |
| `banned` | `users.is_banned` as the matcher's queries read it |
| `matches` | one row per unordered pair of users and group (`idx_matches_unique_pair_group`): status, `offered_by`, legs (`match_items`), who completed, who applied, and the SYSTEM messages of cancels and rematches (`notices`), which also stand for `rematch_count` and `last_terminal_status` |
| `tx` | per database session: the transaction in flight, what it has read and decided |
| `pass` | the loop variables of `run_matching_algorithm` |

| Action | Code (`services/match_lifecycle.rs` unless named) |
|---|---|
| `OfferBegin`, `OfferCommit` | `offer`: lock, turn, live merch of the group, leg validation; upsert and remove legs, OFFERED |
| `AcceptBegin`, `AcceptCommit` | `change_status` to ACCEPTED: turn, balance, capacity of the legs on the table |
| `Reject`, `Complete` | `change_status` to REJECTED (legs deleted) and COMPLETED (per user); they depend on the locked row only, so one step |
| `ApplyGate`, `ApplyWrite`, `ApplyCommit` | `apply_inventory`: the status and flag tests and the TRADE gate; the row writes once their locks are granted and the list of matches to cancel; cancels, the applied flag, commit |
| `EditBegin`, `EditCommit` | `update_inventory`: own row lock and the list of condemned matches; cancels, commit |
| `DeleteBegin`, `DeleteCommit` | `repositories/merch.rs` `delete_by_id` with `cancel_after_merch_delete` |
| `MoveMerch`, `SetBanned` | `repositories/merch.rs` `update` (group), `repositories/user.rs` `set_ban` |
| `Rollback` | any failing statement, a lost connection, a deadlock victim |
| `StartPass`, `ListPartners`, `ListTrades`, `CheckTrade`, `EnsureMatch` | one query each of `matching.rs`, loops in the order of the result sets left free |
| `PassFails` | a query of the pass returns an error: the rest of the pass is skipped |

Row locks: a step that needs a row another session holds is not enabled.
`MatchFree` and its like guard the first lock of a transaction; `WaitsFor` and
`Granted` say for whom a transaction that already holds locks waits (the matches
it cancels, the inventory rows it writes, the merch row the foreign key of a new
leg checks). `Deadlocked` is a set of sessions that wait for each other, and
`DeadlockVictim` is PostgreSQL's answer to it.

### Users, events, groups, items (`Access`, `Catalog`)

| Variable | Code |
|---|---|
| `roles` | `user_roles`: rows (user, role, scope) |
| `bans` | `users.is_banned` with `banned_until`; a ban that has lapsed is still flagged |
| `events`, `groups`, `merch` | the tables; ids are serial, so a row is `Unused`, a record, or `Gone` (an item is only marked deleted) |
| `tx` | per request: what is left to do, the owner and group read, the role rows a statement has found |
| `setting` | which start and which kinds of requests this behaviour is about; it never changes |

| Action | Code |
|---|---|
| `Receive` | `verify_active` of `handlers/common.rs`; `HandlerOf` lists for every handler the statements that follow, the permission asked and its scope |
| `ReadEvent`, `ReadGroup`, `ReadMerch`, `ReadTarget` | the row a handler looks up first, and the target of a transfer |
| `Authorize`, `AuthorizeOwner` | `RbacService::check`, `require_owner_or` |
| `CheckNewName`, `CheckChangedName`, `EnsureGroup` | the statements of `repositories/merch.rs` before its write |
| `ClearRoles`, `SetRole` | the two statements of `user.rs` `set_role` |
| `SetBan`, `LiftBan`, `BanExpires` | `handlers/admin.rs`, and time |
| `CreateEvent` … `RevokeEventEditor` | `repositories/event.rs`, `services/event.rs`, `repositories/rbac.rs` |
| `CreateGroup` … `RevokeGroupEditor` | `repositories/group.rs`, `services/group.rs` |
| `CreateMerch`, `ChangeMerch`, `PublishMerch`, `DeleteMerch` | `repositories/merch.rs` |
| `Abandon` | a check fails, a statement returns an error, the client hangs up |

A statement is a step; a transaction that locks the row its outcome depends on is
one step. Nothing is locked between an authorization and the write it guards.

### The services

| Module | State | Actions against the code |
|---|---|---|
| `Chat` | `group`, `matches` with watermarks, `messages`, `call`; `opened` is history | `OpenThread`, `list_for_match`, `StartMark`, `mark_messages_read` are the statements of `list_messages`; `SendMessage`, `send` those of `send_message`; `BeginRemoval` … `CommitRemoval` are `remove_for_admin`, `delete_match` the admin's delete; the rest moves a match as the lifecycle does. Drawing a `NOW()` and the commit are two steps |
| `Push` | `enabled`, `owner`, `dead`, `job`; `registered` and `delivered` are history | `upsert_push_subscription`, `delete_push_subscription`; a task is spawned, lists the endpoints once (`notify_user`) and posts to one after the other (`Delivered`, `SendFails`, `SubscriptionGone`, `Prune`). The push service is external |
| `SignIn` | `accounts`, `login`; `told` is history | `guest_login` with its lookup, token update and insert as steps; what `update_username`, `list_users` and `get_user` answer |
| `Favorites` | `present`, `favorites`, `views`, `toggle`; `answered` is history | `ToggleDelete` and `ToggleInsert` are the two statements of a toggle; views; removals |
| `Projection` | `stock`, `trades`, `view` | `ListItems` and `ListLegs` are the two reads; trades and edits move in between |
| `Wire` | `letter` | a message is written, respelt or amended on its way, read entry by entry, and completed with defaults |

## Abstractions

- A transaction is split in two or three steps where its decision depends on
  rows it does not lock; the reads before the decision are one step, the writes
  become visible at the commit. A transaction that reads only its locked row is
  one step.
- The TRADE gate of `apply_trade_delta` is evaluated in the snapshot of the
  statement that then waits for the row; the decrement is made on the row as it
  is after the wait (PostgreSQL re-evaluates the row, not the CTE). Hence
  `ApplyGate` and `ApplyWrite`.
- A transaction waits for all the matches it cancels at once, not one by one;
  the matches it condemns are listed at its begin, as the code lists the scopes
  before the `UPDATE`.
- The legs of one user are applied giver by giver; when the same merch goes both
  ways, which of the two clamps at 0 comes first depends on the order of the
  result set: `receivedFirst` is a free choice.
- `find_existing_match` followed by insert or reopen is one step: the unique
  index and the status test make the second statement a no-op on a row that
  changed in between, and only the one matcher leaves a terminal status.
- In the trade, `user1`/`user2` order, names, photos, timestamps, texts, notifications are
  left out. Duplicate items in one request are left out, an item of quantity 0
  (a removal) is not.
- `Stocks` are inventories that were entered before the run starts; edits during the
  run are bounded to `EditRows`. `Entries` are the quantities users enter. No check
  stands between a request and the table, so they are any integers; runs rivals
  and rematch have negative ones among them (-1, 0, 1), the others quantities from
  0 up. `MovableMerch`, `DeletableMerch` and `BannableUsers` bound what the
  administration does.
- Match handlers do not test bans; the model's do not either.

- Texts, photos and times are left out of events, groups and items but for one
  `label`, so that an update changes something. A raw group name and its trimmed
  form are different values, related by the constant `Trim`.
- In `Chat` no two statements draw the same time, and a message's time is its id.
- `Wire` knows of a value only whether it is the default or another one;
  nesting and number formats are left out.

Bounds: `MaxQty` (largest quantity of a request), `MaxItems` (items of an offer),
`MaxRematch` (reopens of one match), `MaxMessages` and `MaxClock` (messages sent and
times drawn), `MaxEntries` (entries of a document); the code limits none of them. The
other way round, quantities are i32 in the code and integers in the models: the sums
of mutual capacity (`repositories/match_/capacity.rs:135`), of the balance of an offer and
of a stock with what it receives are taken to stay below 2^31. Nothing else is capped.

## Runs

| Run | Instance | Shows |
|---|---|---|
| swap | `MCScenes`, `SceneSpec`: two scenes with 2 users, 2 items, 2 overlapping sessions; *bargain* with quantities to 2 and both TRADE rows edited, *upkeep* with an item moved and deleted and a user banned | agreed terms balanced, frozen and answered by the other side only, flags in step with the status, each trade received once, completion final |
| rematch | `MCTrade`, `Spec`; quantities to 1, entries of -1 too, a match reopened up to twice, an item deleted, two sessions | each match implements `Negotiation`; clean starts; each cancel told once; checks hold until the commit; completion is final |
| rivals | `MCScenes`, `SerialSceneSpec`: *rivals* with 3 users, two of them after one item, an edit (of -1, 0 or 1), a ban, a delete; *retire* with a third item deleted while capacity remains | what the code promises of requests that do not overlap: no match lingers without capacity or on deleted merch, no cancel without cause, nothing below zero but by an entry, opened on evidence |
| live | `MCTrade`, `FairSpec`; two sessions, an edit (inventory row, then match row) against an apply (match row, then inventory row) | two users who can trade both ways for good get an open match, passes that fail now and then included, and every request ends |
| requests | `MCCatalog`, `Spec`; nine settings of 3 users, 2 events, 2 groups, 2 items | with two overlapping requests: column and creator role move together, by the will of the owner of that moment, events and groups implement `Ownership`, live names are unique, deleted items frozen, no admin from nowhere. With one at a time: every change of a table is one its caller was entitled to, and he has been told before that he can |
| services | `MCServices`, `MCSpec`; each service with two overlapping requests | chat, push, sign-in, favourites, projection and documents keep what their modules promise |
| zombie, late_offer, stale_gate, moved_merch, late_role, unread | `Spec` of the same modules (`MCSpec` for unread) | the violations under [Findings](#findings) |

Why these bounds are enough for the questions asked.

- *Trade.* Two users and one match are the smallest system with a negotiation; a
  third user is what makes a rival, a third item what makes a match that survives
  a delete. Two sessions give every pair of overlapping requests, and the matcher
  is a third process beside them. Quantity 2 lets a leg be changed without being
  removed and a trade be applied in part of the stock; `MaxItems = 1` because a
  two-legged proposal is reached by an offer and a counter-offer. `MaxRematch = 2`
  lets a reopened match be reopened again. A scene of `MCScenes` restricts who
  edits, deletes, moves and bans what; it adds no behaviour.
- *Catalog.* A setting of `MCCatalog` fixes the tables at the start and the kinds of
  requests sent. Five have two sessions: transfers of events (*titles*), transfers,
  upsert and removal of groups (*keepers*), role changes and bans (*admins*),
  creation, move and deletion of items (*items*; a creation is what makes sure of a
  role). Four have one session and many kinds of requests, since what a request by
  itself may do depends on roles and not on overlap: *staff*, *wardens*, *members*,
  *groups*, *curators*. Three users are an owner, an outsider and staff; two events
  and two groups tell a scope from another. `late_role` is a setting of its own, as
  its property fails there.
- *Services.* They share no state and every property speaks of one of them, so
  `MCServices` lets one move per behaviour (`focus`): that checks each service
  completely on its instance. Two sessions, two users, one match with two messages
  and four times (a message, a notice, two stamps), two browsers (one may change hands
  while the other is notified), two keys of which one is canonical, two trades
  over two goods of which there is enough for one or for both, one event and one
  of its groups; all schemas of the wire.

Sessions are interchangeable, so they are a symmetry set in the safety runs and
not in the liveness run. Deadlock is checked where an inventory row stays
editable; elsewhere the system can come to rest with everything applied, deleted,
sent or answered, and the cfg says so.

## Fairness

`FairSpec` assumes weak fairness of `MatcherStep`: `main.rs` spawns one task that runs
pass after pass forever. A query may fail at any point and give up the rest of its pass,
any number of times but not for ever (`<>[][PassFails => MatcherStep]_vars`: from some
moment on no pass fails); with a database that never stops failing nothing can be
promised. It assumes strong
fairness of the next statement of each session and of the deadlock detector:
PostgreSQL's lock queues are first come first served, so a waiter whose turn keeps
coming gets its lock, and a cycle is detected after `deadlock_timeout`. Strong
and not weak, since a session's lock may be taken and released by others while
it waits. Nothing is assumed of users, of the start of requests or of rollbacks.
`MutualEdgeIsMatched` allows a pair whose rematch bound is used up, because the
bound is the model's.

## Findings

Each is a run that must find its property violated; `PROJECT.json` has the quotes.

| Run | What happens | What the docs say |
|---|---|---|
| zombie | an inventory edit commits between the matcher's evidence and its insert; the match is PENDING with zero capacity and nothing cancels it | ADR 0010: zombie matches no longer linger |
| late_offer | a merch delete commits between the offer's unlocked liveness count and its insert | ADR 0008: no open match outlives a deleted item, enforced transactionally |
| stale_gate | `apply_trade_delta` decrements TRADE after waiting for an edit, with the gate of the old quantity; TRADE falls below zero although nobody enters anything negative | ADR 0014: the decrement requires TRADE to cover it, or fails |
| moved_merch | `merch::update` changes the group of merch that is on the table of an open match | ADR 0001: no match crosses a group boundary |
| late_role | merch creation grants the creator role to the owner it has read; a group transfer commits in between, and two users hold the role | ADR 0013: column and role stay consistent in one transaction |
| unread | a message is stamped before, and visible after, the peer opens the thread | the comment in `list_messages`: badges clear after messages have been seen |

Of these all but moved_merch need overlapping transactions. `OwnersHoldTheRole` holds in
every setting of run requests, the overlapping ones included, as long as no merch
creation meets a group transfer.

The models reach other states that the documents speak against; they have no run
of their own:

- `update_inventory` stores any quantity it is sent (`services/match_lifecycle.rs:492`,
  `repositories/inventory.rs:60`), and no constraint refuses a negative one;
  `06-runtime.md` line 153 says quantities are non-negative. It takes one request, and
  queries and gates treat such a row as nothing to give. Hence `OnlyEntriesGoNegative`
  and not that quantities are never negative.
- Two overlapping edits leave a match without capacity as the matcher of run zombie does:
  u1 withdraws the first of two items that u2 wants, u2 no longer wants the second, and each
  transaction still sees the item the other is about to take away
  (`services/match_lifecycle.rs:560`).
- Two overlapping `set_role` of one user leave two global roles
  (`repositories/user.rs:170`); ADR 0006 line 71 says `set_role` enforces at most one.
- An editor is assigned in an event that a concurrent request has just deleted
  (`repositories/rbac.rs:198`); ADR 0004 line 196 says the event is validated before.
- Deleting an event cascades to its groups and leaves their role rows
  (`repositories/event.rs:178`); ADR 0013 line 106 speaks of group removal only.
- A transfer to a user whose temporary ban has lapsed is refused
  (`handlers/admin.rs:180` reads the flag, every other check the time as well).

## Proofs

All theorems hold for any sets of users, items, events, groups, sessions and so on,
and any bounds, that satisfy the assumptions declared with the constants
(`QtyAssumption`, `TablesAssumption`, `StartAssumption`, `BackfillAssumption`,
`ChatAssumption`, ...); TLC evaluates those on every run. Two are
there for the proofs: the tables are finite (`TablesAssumption`), which sums need; and the
legs of a match are given by its two users (`TradeAssumption` of `Projection`), which the
leg validation of `offer` sees to. Three theorems have a hypothesis of their own,
stated with them and explained below.

| Module | Theorem | Statement |
|---|---|---|
| `TradeLifecycleProofs` | `StaysConsistent` | `Spec => []Consistent`, the inductive invariant |
| | `TypesHold` | `Spec => []TypeOK` |
| | `ChecksHoldAtCommit` | what a transaction checked is true when it commits |
| | `AgreementsAreBalanced`, `FlagsFollow`, `NegotiationsStartClean` | the invariants of the runs |
| | `MatchesNegotiate`, `EachMatchIsANegotiation` | every match implements `Negotiation` |
| | `AgreementsAreFrozen`, `CompletionsAreFinal`, `AnswersAreCounterpartys` | the action properties |
| `TradeHistoryProofs` | `ChatTellsTheStory` | `Spec => []NoticesTellTheStory`, for any number of rematches |
| | `TradesAreReceivedOnce` | `Spec => []ReceivedOnce` |
| `TradeSerialProofs` | `SerialStaysSound` | `SerialSpec => []SerialInvariant`, the inductive invariant without overlap |
| | `ApplyFailsClosed`, `DeletesReachTheTable` | a quantity is lowered to below zero by an edit that enters it and nothing else; legs of open matches are live |
| | `OpenMatchesHaveCapacity` | open matches have mutual capacity, if no item moves between groups |
| | `CancelsAreJust`, `MatchesAreJust` | no cancel without cause, no match without evidence |
| `CatalogProofs` | `CatalogTypeCorrect` | `Spec => []TypeOK` |
| | `LiveNamesStayUnique` | no two live items of one group name share a name |
| | `AdminsComeFromAdmins` | no admin comes from nowhere |
| | `DeletedMerchStaysFrozen`, `OwnersDecide` | the action properties |
| | `EventsStayOwned` | every event implements `Ownership` |
| | `CreatorsHoldTheRole`, `GroupsStayOwned` | column and role agree, and every group implements `Ownership`, if `CreationsMeetNoHandOver` |
| `ChatProofs` | `ChatTypeCorrect`, `NoMessageIsOrphaned`, `OpeningClears`, `BadgesCanBeCleared` | the invariants of run services about the chat |
| `SignInProofs` | `SignInTypeCorrect`, `KeyOpensOneAccount`, `CredentialsAreKept` | those about accounts |
| `ServicesProofs` | `PushTypeCorrect`, `PushReachesItsReader`, `PushRowsGoForACause` | those about push |
| | `FavoritesTypeCorrect`, `FavoriteIsAsAnswered` | those about favourites |
| | `ProjectionTypeCorrect`, `ProjectionForetells` | the projected quantity is the outcome |
| | `WireTypeCorrect`, `AcceptedIsMeant` | a document has one meaning |
| | `ServicesTypeCorrect` | all services together keep their types |

### Folds and sums

Capacity, the balance of an offer, the ledger of applied trades and the projection
are sums over tables, and an induction theorem that takes a predicate cannot be
instantiated by the provers at hand. `Sums` therefore argues by the smallest counterexample:
proper inclusion is well founded on the subsets of a finite set, so a wrong claim
about a fold is wrong for a smallest subset, from which one element can be taken
(`SmallestSubset`). From this it has that the tables behind `FoldSet` and
`SumFunctionOnSet` exist and are typed, that a sum takes out one element, follows
one changed summand, is the sum of equal summands, covers each of them, and splits.

### The trade

`TypeOK` alone is not inductive: a commit writes whatever its transaction decided
earlier, and `OtherParticipant` is only a user if the acting user takes part in
the match. So `Consistent` adds

1. `LocksExclude`: no two transactions hold the same match row;
2. `ChecksStillHold`: what a transaction in flight has checked of its match row
   (whose turn, balanced, completed and not applied) is true now;
3. `Deal(k)!Sound`: every row is sound in the sense of `Negotiation` (agreed
   means balanced, PENDING means clean, flags follow the status).

Each action has a lemma: it preserves `Consistent`, and for every match it is one
step of the negotiation or leaves the row alone (`RowSteps`). (2) survives the
steps of others by (1) for requests, by `Granted` for cancels (a cancel waits for
the row) and because the matcher writes only rows of a status no transaction in
flight can rely on. (3) survives because each negotiation step keeps it
(`RowStepsKeepSound`), a lemma about the abstract specification only. The
action properties then follow from the negotiation steps alone, and the
refinement by temporal reasoning. `SerialSpec` and `FairSpec` allow only steps of
`Spec`, so the safety theorems hold of them as well.

*Messages.* Each step cancels and says so, reopens and says so, or does neither (`Told`).
`Story(k)` is the property and, beside it, that a row that was never written has no
message; a told step keeps it.

*Received once.* For a user who neither edits HAVE nor trades the item, `BooksBalance`
says that TRADE is zero and HAVE is some starting stock and the sum of what the applied
matches brought. `NothingOwed` is what makes it inductive: an edit in flight is of a row
users edit, and an application past its gate has none of the item to give, because the
gate has seen TRADE cover the legs, which by `ChecksStillHold` have not changed since.
Then an application adds one summand, and nothing else changes one.

*Without overlap.* `SerialSpec` lets one transaction or one pass be in flight. What it
promises is false of `Spec`, as the findings show, and the proof has to say why: what was
read is still true when it is used. `SerialInvariant` joins to `Consistent` that the
tables are sound and that `NothingStale`: the cancels a transaction has decided are
those it would decide now, its gate still passes, its items are live (`DecisionStands`),
and the wants, partners and returns a pass has found are there (`FindingsStand`). Every
action begins from nothing in flight, keeps its own readings true, or writes what follows
from them. The heart is the lemmas on `MutualCapacity`: what it depends on, that a row
can only lose it for matches of the row's user, and that those are in the list of
condemned matches. `OpenMatchesHaveCapacity` assumes `MovableMerch = {}`: a move of an
item to another group cancels nothing, which is finding moved_merch and needs no overlap;
the other four theorems do without.

### The catalog

A write uses what earlier statements of its request have found, so the invariant
has to say what a request on its way still knows (`Knows`): its remaining statements
end with the write; a `set_role` past its check was allowed in a system with an
admin; a role row found by `create_merch` is a creator's row of a group; an update
of an item is about an item of its event; a group editor's request has a group. What
a request does *not* know is telling: nothing is said about the owner it has read,
because it may be stale, and `OwnersDecide` holds only because the transfer reads it
again. `CatalogInvariant` adds to this the types, `LiveNamesUnique`, that an admin
implies one at the start, and `EventOwnersKnown`: as long as an event is not gone,
its owner and nobody else has its creator role, before its creation too. The latter
makes the refinement of `Ownership` a matter of looking at the event's row and
at creator rows of other scopes (`EventMove`, `MovesAreOwnership`).

The same is false of groups (run late_role): `create_merch` inserts the role of the
creator it has read. The theorems about groups therefore assume of the constants
`CreationsMeetNoHandOver`: a setting has one server, or no request that creates
merchandise, or none that transfers or removes a group. All nine settings of run
requests are such, so what that run checks is what is proved; the setting of late_role is
not. `GroupInvariant` adds that a request on its way is one of the setting's
(`WorkIsServed`), the same of groups as of events (`GroupOwnersKnown`), and
`FoundRolesStand`: the rows a creation has found are still there when it inserts them
again, so that the insert changes nothing. That is what a hand-over in between would
break, and only a hand-over does (`WritesMoveGroups`).

### The services

- `ChatInvariant`: every message is older than the clock; a request that reads a
  thread has shown nothing younger than the stamp it goes on to write; what the last
  open has shown is below the watermark; a removal with its deletes behind it holds
  every message of the matches it drops.
- `PushInvariant`: a task's endpoints were once registered by its reader, and an
  endpoint to prune has been given up. That they are the reader's *now* is not part
  of it, and not true; the condition in `delete_by_endpoint` is what saves the new owner.
- `SignInInvariant`: keys are unique among accounts, a sign-in past its lookup holds
  the account of its key, and every answer so far is to the key of its account or
  without it.
- `FavoritesInvariant`: types and the property, which is inductive.
- `WireInvariant`: while a document is read, what has been read so far is exactly
  what its entries up to there say (`ReadSoFar`); its entries say what is meant
  (`SaysWhatIsMeant`), amendments included; and one that nobody amended is as written.
- `ProjectionInvariant`: only the parties complete and apply, what is applied is
  completed, and a list in which nothing has moved yet shows the stock as it is. The
  property then is a statement about one state: settling the trades under way one after
  the other (`FoldSet`) adds up to the sum of their legs' deltas (`SumFunction`). Each
  settling step adds its trade's part when the stock covers what it asks and at least
  that part when it clamps; `StepsAddUp` turns steps of that kind into the sums of the
  whole, in any order, and `SumSplits` sums over legs as sums over trades.
- `ServicesTypeCorrect`: a step of the composition is a step of one service and
  stutters in the others, so that the theorems of each hold of it.

## What is only model-checked

Liveness (`MutualEdgeIsMatched`, `RequestsEnd`): liveness under fairness is out of
the prover's reach. `ChangesAreEntitled` and `StandingIsTold` compare finite tables of
permissions under every role a user may have, which TLC does better. Everything else
that a passing run checks is a theorem.

## What is not modelled

- Images (file I/O) and search (read-only queries).
- The HTTP edge: routing, mapping of errors to status codes, request limits; no state.
  What `mappers.rs` shows of an account is in `SignIn`.
- Schema migrations run once, before the program; the constraints and seeds they leave
  are in the models (unique keys, foreign keys, permission catalog), their data
  repairs are not.
- Wire: nesting of messages, number and text formats.
- The Flutter client, whose requests are the sessions' inputs, and the deployment.

## What is left

1. `ChangesAreEntitled` for any users and scopes: the tables are fixed, only who is
   assigned what is not.
2. The balance of HAVE for users who also give, beyond `ReceivedOnce`.
3. One composition of `TradeLifecycle` with `Catalog`, in which the deletion of
   an item in one cancels the matches of the other; at present each carries the
   other's step as an action of its own.
