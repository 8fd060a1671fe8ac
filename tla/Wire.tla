-------------------------------- MODULE Wire --------------------------------
(***************************************************************************)
(* The messages between client and server: JSON documents as the generated *)
(* code writes and reads them.  A field is plain, then its default is left *)
(* out and restored by the reader, or optional, then it is left out when   *)
(* unset and its default is a value like others.  A value is the default   *)
(* (zero, false, an empty text or list) or another one.                    *)
(*                                                                         *)
(* The fields of a document come in any order, and a client of another     *)
(* version or hand may spell them differently, write null, repeat a field  *)
(* or name one that this version does not know.                            *)
(***************************************************************************)
EXTENDS Naturals, FiniteSets

MaxEntries == 2  \* bound: entries of a document

Schema(plain, optional) == [plain |-> plain, optional |-> optional]

ApplyInventoryRequest == Schema({"user_id", "skip_have_decrement"}, {})
BanUserRequest == Schema({}, {"reason", "banned_until"})
CreateEventRequest == Schema({"name", "creator_id"}, {"status"})
CreateGroupRequest == Schema(
    {"event_id", "user_id", "group_name"},
    {"description", "photo_url"})
CreateMerchRequest == Schema({"name"}, {"photo_url", "group_name", "creator_id", "status"})
CreateUserRequest == Schema({"username", "password"}, {"device_token"})
Event == Schema(
    {"id", "name"},
    {"creator_id", "created_at", "unique_views", "active_participants", "is_favorite",
     "is_joined", "status"})
EventMember == Schema({"user_id", "role"}, {"username"})
FavoriteGroup == Schema(
    {"user_id", "event_id", "group_name"},
    {"event_name", "display_name"})
GroupMember == Schema({"user_id", "role"}, {"username"})
GuestLoginRequest == Schema({"uuid"}, {"device_token", "existing_only"})
InventoryItem == Schema(
    {"id", "user_id", "merch_id", "status", "quantity"},
    {"merch_name", "photo_url", "group_name", "is_deleted", "projected_quantity"})
ListEventMembersResponse == Schema({"members"}, {})
ListGroupMembersResponse == Schema({"members"}, {})
ListGroupsResponse == Schema({"groups"}, {})
LoginRequest == Schema({"username", "password"}, {})
MatchItem == Schema(
    {"id", "match_id", "merch_id", "giver_user_id", "quantity"},
    {"merch_name", "photo_url"})
Merchandise == Schema(
    {"id", "event_id", "name"},
    {"photo_url", "group_name", "status", "is_deleted", "trade_enabled", "creator_id",
     "group_description"})
MerchandiseGroup == Schema(
    {"id", "event_id", "group_name"},
    {"description", "created_by", "created_at", "updated_at", "photo_url",
     "display_name"})
Message == Schema(
    {"id", "match_id", "sender_id", "content"},
    {"created_at", "message_type", "latitude", "longitude"})
MyEventRoleResponse == Schema(
    {"role", "global_override", "can_create_merch", "can_edit_group",
     "can_manage_editors", "can_transfer_creator"},
    {})
MyGroupRoleResponse == Schema(
    {"role", "global_override", "can_edit_group", "can_manage_editors",
     "can_transfer_creator"},
    {})
NotificationCounts == Schema(
    {"pending_matches", "offers_in", "accepted", "unread_messages", "total"},
    {})
OfferItem == Schema({"merch_id", "giver_user_id", "quantity"}, {})
OfferTradeRequest == Schema({"user_id", "items"}, {})
SearchResult == Schema({"id", "title", "type", "event_id"}, {"subtitle", "photo_url"})
SendMessageRequest == Schema(
    {"match_id", "sender_id", "content"},
    {"message_type", "latitude", "longitude"})
ToggleFavoriteGroupRequest == Schema({"user_id", "group_name", "is_favorite"}, {})
ToggleFavoriteRequest == Schema({"user_id", "is_favorite"}, {})
TradeMatch == Schema(
    {"id", "user1_id", "user2_id", "status", "user_haves", "user_wants",
     "selected_items", "inventory_applied", "rematch_count", "unread_message_count",
     "completed_by_me", "counterpart_completed"},
    {"created_at", "other_user", "offered_by", "group_name", "event_name",
     "group_display_name", "last_terminal_status", "last_terminal_at"})
UpdateEventRequest == Schema({"user_id"}, {"name"})
UpdateGroupRequest == Schema(
    {"event_id", "user_id", "group_name"},
    {"description", "photo_url", "display_name"})
UpdateInventoryRequest == Schema({"user_id", "merch_id", "status", "quantity"}, {})
UpdateMatchStatusRequest == Schema({"status", "user_id"}, {})
UpdateMerchRequest == Schema({"user_id"}, {"name", "photo_url", "group_name"})
UpdateUserRoleRequest == Schema({"role"}, {})
UpdateUsernameRequest == Schema({"user_id", "username"}, {})
User == Schema(
    {"id", "username"},
    {"uuid", "device_token", "created_at", "role", "is_banned", "ban_reason",
     "banned_until"})
UserActionRequest == Schema({"user_id"}, {})

Schemas ==
    {ApplyInventoryRequest, BanUserRequest, CreateEventRequest, CreateGroupRequest,
     CreateMerchRequest, CreateUserRequest, Event, EventMember, FavoriteGroup,
     GroupMember, GuestLoginRequest, InventoryItem, ListEventMembersResponse,
     ListGroupMembersResponse, ListGroupsResponse, LoginRequest, MatchItem, Merchandise,
     MerchandiseGroup, Message, MyEventRoleResponse, MyGroupRoleResponse,
     NotificationCounts, OfferItem, OfferTradeRequest, SearchResult, SendMessageRequest,
     ToggleFavoriteGroupRequest, ToggleFavoriteRequest, TradeMatch, UpdateEventRequest,
     UpdateGroupRequest, UpdateInventoryRequest, UpdateMatchStatusRequest,
     UpdateMerchRequest, UpdateUserRoleRequest, UpdateUsernameRequest, User,
     UserActionRequest}

VARIABLE letter  \* the message under way: what is meant, written and read of it

FieldsOf(schema) == schema.plain \cup schema.optional
Values == {"zero", "one"}
Entries(schema) == [field: FieldsOf(schema) \cup {"foreign"},
                    spelling: {"camel", "snake"}, text: Values \cup {"null"}]

WireTypeOK ==
    \/ letter.stage \in {"none", "refused"}
    \/ /\ letter.schema \in Schemas
       /\ letter \in [stage: {"sent", "read"}, amended: BOOLEAN, schema: {letter.schema},
                      meant: [FieldsOf(letter.schema) -> Values \cup {"unset"}],
                      got: [FieldsOf(letter.schema) -> Values \cup {"unset"}],
                      document: SUBSET Entries(letter.schema),
                      left: SUBSET Entries(letter.schema)]

Entry(f, spelling, text) == [field |-> f, spelling |-> spelling, text |-> text]

-----------------------------------------------------------------------------
Blank(schema) == [f \in FieldsOf(schema) |-> IF f \in schema.plain THEN "zero" ELSE "unset"]

Written(schema, message) ==
    {Entry(f, "camel", message[f]) : f \in {x \in FieldsOf(schema) :
                                              message[x] # Blank(schema)[x]}}

WireInit == letter = [stage |-> "none"]

\* A message of which at most the fields f and g are not blank.
Send(schema, f, g) ==
    /\ letter.stage = "none"
    /\ \E v \in {"zero", "one"} :
        LET message == [Blank(schema) EXCEPT ![f] = v, ![g] = "one"]
        IN  letter' = [stage |-> "sent", amended |-> FALSE, schema |-> schema,
                       meant |-> message, got |-> [x \in FieldsOf(schema) |-> "unset"],
                       document |-> Written(schema, message),
                       left |-> Written(schema, message)]

\* Nothing has been read yet.
Untouched == letter.stage = "sent" /\ letter.left = letter.document /\ ~letter.amended

Respell ==
    /\ Untouched
    /\ LET snake == {[x EXCEPT !.spelling = "snake"] : x \in letter.document}
       IN  letter' = [letter EXCEPT !.document = snake, !.left = snake]

\* Null for any field, a second entry of a field, or a field of another version.
Amend(x) ==
    /\ Untouched
    /\ x \notin letter.document /\ Cardinality(letter.document) < MaxEntries
    /\ \/ x.text = "null" /\ x.spelling = "camel"
       \/ \E y \in letter.document : y.field = x.field /\ y.spelling # x.spelling
       \/ x = Entry("foreign", "camel", "one")
    /\ letter' = [letter EXCEPT !.document = @ \cup {x}, !.left = @ \cup {x},
                                !.amended = TRUE]

-----------------------------------------------------------------------------
(***************************************************************************)
(* The reader: one entry after the other, then the defaults                *)
(***************************************************************************)
\* Mutant: the last entry wins.
NeverRepeated(x) == x.text \notin Values \cup {"null"}

\* A null in an optional field leaves it as unset as it was.
Repeated(x) == letter.got[x.field] # "unset"

Refused(x) ==
    \/ x.field = "foreign"
    \/ Repeated(x)
    \/ x.text = "null" /\ x.field \in letter.schema.plain

ReadEntry ==
    /\ letter.stage = "sent"
    /\ \E x \in letter.left :
        letter' = IF Refused(x) THEN [stage |-> "refused", amended |-> letter.amended]
                  ELSE [letter EXCEPT
                          !.left = @ \ {x},
                          !.got[x.field] = IF x.text = "null" THEN "unset" ELSE x.text]

FillDefaults ==
    /\ letter.stage = "sent" /\ letter.left = {}
    /\ letter' = [letter EXCEPT !.stage = "read",
                    !.got = [f \in DOMAIN @ |-> IF @[f] = "unset"
                                                THEN Blank(letter.schema)[f] ELSE @[f]]]

WireNext ==
    \/ \E schema \in Schemas : \E f, g \in FieldsOf(schema) : Send(schema, f, g)
    \/ Respell
    \/ Untouched /\ \E x \in Entries(letter.schema) : Amend(x)
    \/ ReadEntry \/ FillDefaults

WireSpec == WireInit /\ [][WireNext]_letter

-----------------------------------------------------------------------------
\* A document that is accepted has one meaning, whatever the order and the
\* spelling of its fields: the message its sender meant, with all that the
\* document says, an optional default told apart from an unset field.  What
\* the code itself writes is never refused.
DocumentsHaveOneMeaning ==
    /\ letter.stage = "read" =>
        /\ letter.got = letter.meant
        /\ \A x \in letter.document : x.text \in {"null", letter.got[x.field]}
    /\ letter.stage = "refused" => letter.amended
=============================================================================
