SPECIFICATION MCSpec
CONSTANTS
    s1 = s1
    s2 = s2
    ann = ann
    bob = bob
    m1 = m1
    p = p
    q = q
    d1 = d1
    d2 = d2
    Users = {ann, bob}
    Sessions = {s1, s2}
    NoUser = NoUser
    Matches = {m1}
    Between <- MCBetween
    MaxMessages = 2
    MaxClock = 4
    Endpoints = {e1, e2}
    Deals <- MCDeals
    Uuids = {k1, k2}
    Canonical = {k1}
    Tokens = {t1}
    NoToken = NoToken
    Staff = {bob}
    Merch = {p, q}
    MaxQty = 2
    Trades = {d1, d2}
    Partners <- MCPartners
    Proposals <- MCProposals
    Stocks <- MCStocks
    Edits <- MCEdits
    FavEvents = {show}
    FavGroups = {badges}
    WholeEvent = WholeEvent
INVARIANT ReadMeansSeen
SYMMETRY Symmetry
CHECK_DEADLOCK FALSE
