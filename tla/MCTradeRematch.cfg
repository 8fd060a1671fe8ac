SPECIFICATION Spec
CONSTANTS
    u1 = u1
    u2 = u2
    u3 = u3
    a = a
    b = b
    c = c
    g1 = g1
    g2 = g2
    Users = {u1, u2}
    Merch = {a, b}
    Groups = {g1}
    NoGroup = NoGroup
    NoUser = NoUser
    Sessions = {s1, s2}
    MaxQty = 1
    MaxItems = 1
    MaxRematch = 2
    EditRows <- TradeOfA
    Stocks <- OneSwap
    Entries <- AnySign
    HomeGroup <- AllInG1
    MovableMerch = {}
    DeletableMerch = {a}
    BannableUsers = {}
SYMMETRY SessionSymmetry
INVARIANTS
    PendingIsClean
    NoticesTellTheStory
    ChecksStillHold
PROPERTIES
    CompletedIsFinal
    EveryMatchNegotiates
