SPECIFICATION Spec
CONSTANTS
    admin = admin
    ann = ann
    secret = secret
    word = word
    n1 = n1
    v1 = v1
    v2 = v2
    None = None
    Empty = Empty
    Unset = Unset
    AdminLogin = admin
    AdminPassword = secret
    Logins <- MCLogins
    Passwords <- MCPasswords
    Numbers <- MCNumbers
    Values <- MCValues
    MaxUser = 3
    MaxKey = 1
    Workers = {w1, w2}
    Requests <- AccountRequests
INVARIANTS TypeOK AdminsWereGranted
PROPERTIES DeadTokensStayDead
