SPECIFICATION FairSpec
CONSTANTS
    admin = admin
    user = user
    p = p
    q = q
    Empty = Empty
    None = None
    Logins = {admin, user}
    Passwords = {Empty, p, q}
    SeedAdmin = admin
    SeedUser = user
    SeedPassword = p
    UserPassword = q
    Lists = {"cards", "keys"}
    AdminLists = {"keys"}
    AdminChanges = {"keys"}
    HomeTab = "cards"
    MaxUser = 4
    Workers = {w1, w2}
    MaxFaults = 1
    Edits <- MCEdits
    OtherRequests <- MCOthers
    MaxActs = 3
    MaxOthers = 1
CHECK_DEADLOCK FALSE
INVARIANTS TypeOK AdminsWereGranted PageIsOfOneAccount TableIsOfItsTab
PROPERTIES LoneRequestsAreWhole LoadingEnds
