SPECIFICATION SerialSceneSpec
CONSTANTS
    u1 = u1
    u2 = u2
    u3 = u3
    a = a
    b = b
    c = c
    g1 = g1
    g2 = g2
    Users = {u1, u2, u3}
    Merch = {a, b, c}
    Groups = {g1}
    NoGroup = NoGroup
    NoUser = NoUser
    Sessions = {s1}
    MaxQty = 1
    MaxItems = 1
    MaxRematch = 0
    EditRows <- TradeOfA
    Stocks <- SceneStocks
    Entries <- AnySign
    HomeGroup <- AllInG1
    MovableMerch = {}
    DeletableMerch = {b, c}
    BannableUsers = {u2}
    Scenes = {"rivals", "retire"}
CHECK_DEADLOCK FALSE
INVARIANTS
    ActiveKeepsCapacity
    ActiveLegsLive
PROPERTIES
    OnlyEntriesGoNegative
    CancelledForCause
    OpenedOnEvidence
