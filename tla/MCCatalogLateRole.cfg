SPECIFICATION Spec
CONSTANTS
    ann = ann
    bob = bob
    eve = eve
    fair = fair
    expo = expo
    g1 = g1
    g2 = g2
    m1 = m1
    m2 = m2
    s1 = s1
    s2 = s2
    NoUser = NoUser
    Users = {ann, bob, eve}
    Events = {fair, expo}
    GroupIds = {g1, g2}
    MerchIds = {m1, m2}
    Sessions = {s1, s2}
    NoName = "none"
    NoLabel = "old"
    Labels = {"old", "new"}
    MerchNames = {"rose", "lily"}
    GroupNames = {"cards"}
    RawNames = {"cards", " cards"}
    Trim <- MCTrim
    Settings = {"lateRole"}
    Start <- MCStart
    Workload <- MCWorkload
    Servers <- MCServers
SYMMETRY SessionSymmetry
INVARIANTS
    OwnersHoldTheRole
CHECK_DEADLOCK FALSE
