SPECIFICATION SceneSpec
CONSTANTS
    u1 = u1
    u2 = u2
    u3 = u3
    a = a
    b = b
    c = c
    g1 = g1
    g2 = g2
    Users = {u1, u2}
    Merch = {a, b}
    Groups = {g1}
    NoGroup = NoGroup
    NoUser = NoUser
    Sessions = {s1, s2}
    MaxQty = 2
    MaxItems = 1
    MaxRematch = 0
    EditRows <- BothTrades
    Stocks <- SceneStocks
    Entries = {0, 1, 2}
    HomeGroup <- AllInG1
    MovableMerch = {a}
    DeletableMerch = {a}
    BannableUsers = {u1}
    Scenes = {"bargain", "upkeep"}
SYMMETRY SessionSymmetry
CHECK_DEADLOCK FALSE
INVARIANTS
    TypeOK
    AgreedTermsBalanced
    FlagsFollowStatus
    ReceivedOnce
PROPERTIES
    AgreedTermsFrozen
    OnlyCounterpartyAnswers
    CompletedIsFinal
