SPECIFICATION FairSpec
CONSTANTS
    root = root
    ann = ann
    bob = bob
    c1 = c1
    c2 = c2
    t1 = t1
    t2 = t2
    Absent = Absent
    NoRequest = NoRequest
    NoLocals = NoLocals
    Users <- MCUsers
    Admins <- MCAdmins
    Numbers <- MCNumbers
    Terminals <- MCTerminals
    MaxCard = 3
    MaxTxn = 3
    Workers = {w1, w2}
    Requests <- ReassignRequests
    InitialDb <- MCInitialDb
PROPERTIES EditsOwnCard
