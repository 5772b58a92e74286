-------------------------- MODULE TransportAccounts --------------------------
(***************************************************************************)
(* The accounts of the lab3 backend: who may log in, and what the tokens   *)
(* it signs let their bearers do.  As in TransportBackend each statement   *)
(* of a handler is an action of its own, errors of writes are ignored, and *)
(* UpdateUser writes back the whole row it has read.                       *)
(*                                                                         *)
(* A password stands for its bcrypt hash, which only it matches.           *)
(***************************************************************************)
EXTENDS Tables, Integers, FiniteSets

CONSTANTS
    Logins, Passwords,
    SeedAdmin, SeedUser,  \* the accounts an empty table is given
    SeedPassword, UserPassword,  \* and their passwords
    Empty,                \* the empty password
    Lists,                \* the other lists there are: cards, transactions, terminals, keys
    AdminLists,           \* those of them only administrators may see: keys
    AdminChanges,         \* those of them only administrators may change: keys, terminals
    MaxUser,              \* bound: the largest id
    Workers,              \* requests in progress at a time
    MaxFaults,            \* bound: statements that fail, connections that break, restarts
    None                  \* no request, caller, row or answer

ASSUME AccountsAssumption ==
    /\ {SeedAdmin, SeedUser} \subseteq Logins /\ SeedAdmin # SeedUser
    /\ {SeedPassword, UserPassword} \subseteq Passwords \ {Empty} /\ Empty \in Passwords
    /\ MaxUser \in Nat \ {0, 1} /\ MaxFaults \in Nat

VARIABLES
    users,     \* users: id -> login, password, is_admin
    nextUser,  \* its AUTOINCREMENT counter
    tokens,    \* the claims of the tokens that have not expired
    pc,        \* the next statement of each worker
    cal,       \* the claims its request came with
    req,       \* the request
    loc,       \* the row it has read, and is to write
    answer,    \* what it answers
    faults,    \* what has failed
    granted,   \* history: the accounts an administrator, or the seed, made one
    before     \* history: the users a request found that has run alone, or None

tables == <<users, nextUser, tokens>>
serving == <<pc, cal, req, loc, answer>>
accounts == <<tables, serving, faults, granted, before>>

UserIds == 1 .. MaxUser
UserRows == [login : Logins, pass : Passwords \ {Empty}, adm : BOOLEAN]
Claims == [id : UserIds, adm : BOOLEAN]

\* An account as the answers show it, and a list of them.
Shown == [id : UserIds, login : Logins, adm : BOOLEAN]
Show(i, row) == [id |-> i, login |-> row.login, adm |-> row.adm]

AllRequests ==
    [op : {"login"}, login : Logins, pass : Passwords]
    \cup [op : {"listUsers"}] \cup [op : {"list", "change"}, what : Lists]
    \cup [op : {"createUser"}, id : UserIds \cup {0}, login : Logins, pass : Passwords,
          adm : BOOLEAN]
    \cup [op : {"updateUser"}, id : UserIds, login : Logins, pass : Passwords, adm : BOOLEAN]
    \cup [op : {"deleteUser"}, id : UserIds]

\* What an answer carries: an account, all accounts by their ids, or nothing of either.
AccountLists == UNION {[S -> Shown] : S \in SUBSET UserIds}
Answered == [ok : BOOLEAN, val : {None} \cup Shown \cup AccountLists]

ASSUME NoneAssumption ==
    None \notin UserRows \cup Claims \cup Shown \cup AllRequests \cup Answered

PCs == {"idle", "answered", "login", "listUsers", "list", "change", "createUser",
        "readUser", "saveUser", "upsertUser", "deleteUser"}

-----------------------------------------------------------------------------
\* How a handler moves

GoesOn(w, label, row) ==
    /\ pc' = [pc EXCEPT ![w] = label]
    /\ loc' = [loc EXCEPT ![w] = row]
    /\ UNCHANGED <<tables, cal, req, answer, granted, before>>

\* The answer is on its way.
Answers(w, a) ==
    /\ pc' = [pc EXCEPT ![w] = "answered"]
    /\ loc' = [loc EXCEPT ![w] = None]
    /\ answer' = [answer EXCEPT ![w] = a]
    /\ before' = None
    /\ UNCHANGED <<cal, req>>

Refused == [ok |-> FALSE, val |-> None]
Says(val) == [ok |-> TRUE, val |-> val]
Refuses(w) == Answers(w, Refused) /\ UNCHANGED <<tables, granted>>

\* The client has the answer, or is not there any more to take it.
Frees(w) ==
    /\ pc' = [pc EXCEPT ![w] = "idle"]
    /\ cal' = [cal EXCEPT ![w] = None]
    /\ req' = [req EXCEPT ![w] = None]
    /\ loc' = [loc EXCEPT ![w] = None]
    /\ answer' = [answer EXCEPT ![w] = None]

-----------------------------------------------------------------------------
\* A request arrives: its token and its body settle whether it goes further.

AdminOnly(r) ==
    \/ r.op \in {"listUsers", "createUser", "deleteUser"}
    \/ r.op = "list" /\ r.what \in AdminLists
    \/ r.op = "change" /\ r.what \in AdminChanges

Permitted(c, r) ==
    \/ r.op = "login"
    \/ /\ c \in tokens
       /\ AdminOnly(r) => c.adm
       /\ r.op = "createUser" => r.pass # Empty
       /\ r.op = "updateUser" => c.adm \/ c.id = r.id

Accept(w, c, r) ==
    /\ pc[w] = "idle"
    /\ pc' = [pc EXCEPT ![w] = CASE ~Permitted(c, r) -> "answered"
                                 [] Permitted(c, r) /\ r.op = "updateUser" -> "readUser"
                                 [] OTHER -> r.op]
    /\ cal' = [cal EXCEPT ![w] = c]
    /\ req' = [req EXCEPT ![w] = r]
    /\ answer' = [answer EXCEPT ![w] = IF Permitted(c, r) THEN None ELSE Refused]
    /\ before' = IF \A v \in Workers : pc[v] \in {"idle", "answered"} THEN users ELSE None
    /\ UNCHANGED <<tables, loc, faults, granted>>

-----------------------------------------------------------------------------
\* The statements

LoginFree(l, id) == \A i \in DOMAIN users \ {id} : users[i].login # l

Login(w) ==
    LET r == req[w]
        mine == {i \in DOMAIN users : users[i].login = r.login /\ users[i].pass = r.pass}
    IN  /\ pc[w] = "login"
        /\ IF mine = {} THEN Answers(w, Refused) /\ UNCHANGED tokens
           ELSE \E i \in mine :
                    /\ tokens' = tokens \cup {[id |-> i, adm |-> users[i].adm]}
                    /\ Answers(w, Says(Show(i, users[i])))
        /\ UNCHANGED <<users, nextUser, granted>>

\* Every account, without its password; and the lists that are not about accounts.
ListUsers(w) ==
    /\ pc[w] = "listUsers"
    /\ Answers(w, Says([i \in DOMAIN users |-> Show(i, users[i])]))
    /\ UNCHANGED <<tables, granted>>

OtherTables(w) == pc[w] \in {"list", "change"} /\ Answers(w, Says(None)) /\ UNCHANGED <<tables, granted>>

\* The row an edit writes, unless the UNIQUE login forbids it; either way it answers
\* with what it was to write.  A flag an administrator sets is his grant.
Writes(w, row) ==
    LET id == req[w].id
        free == LoginFree(row.login, id)
    IN  /\ users' = IF free THEN Put(users, id, row) ELSE users
        /\ granted' = granted \cup (IF free /\ cal[w].adm /\ req[w].adm THEN {id} ELSE {})
        /\ Answers(w, Says(Show(id, row)))
        /\ UNCHANGED <<nextUser, tokens>>

\* The body may name the id.  Ids end at MaxUser, as if the table were full.
CreateUser(w) ==
    LET r == req[w]
        id == IF r.id = 0 THEN nextUser ELSE r.id
        free == id \in UserIds \ DOMAIN users /\ LoginFree(r.login, id)
    IN  /\ pc[w] = "createUser"
        /\ users' = IF free THEN Put(users, id, [login |-> r.login, pass |-> r.pass, adm |-> r.adm])
                    ELSE users
        /\ nextUser' = IF free /\ id >= nextUser THEN id + 1 ELSE nextUser
        /\ granted' = granted \cup (IF free /\ r.adm THEN {id} ELSE {})
        /\ Answers(w, Says(None))
        /\ UNCHANGED tokens

\* Fault: is_admin is taken from anybody's body.
MergedTrusting(c, r, row) ==
    [login |-> r.login, pass |-> IF r.pass = Empty THEN row.pass ELSE r.pass, adm |-> r.adm]

\* Fault: the password is set to what the body has, which is seldom any.
MergedBlank(c, r, row) ==
    [login |-> r.login, pass |-> SeedPassword, adm |-> IF c.adm THEN r.adm ELSE row.adm]

\* What UpdateUser makes of the row it has read.
Merged(c, r, row) ==
    [login |-> r.login, pass |-> IF r.pass = Empty THEN row.pass ELSE r.pass,
     adm |-> IF c.adm THEN r.adm ELSE row.adm]

ReadUser(w) ==
    LET r == req[w] IN
    /\ pc[w] = "readUser"
    /\ IF r.id \in DOMAIN users THEN GoesOn(w, "saveUser", Merged(cal[w], r, users[r.id]))
       ELSE Refuses(w)

\* Save: UPDATE of all columns by id, and when it met no row, INSERT ... ON CONFLICT.
SaveUser(w) ==
    /\ pc[w] = "saveUser"
    /\ IF req[w].id \in DOMAIN users THEN Writes(w, loc[w]) ELSE GoesOn(w, "upsertUser", loc[w])

UpsertUser(w) == pc[w] = "upsertUser" /\ Writes(w, loc[w])

DeleteUser(w) ==
    /\ pc[w] = "deleteUser"
    /\ users' = Without(users, req[w].id)
    /\ Answers(w, Says(None))
    /\ UNCHANGED <<nextUser, tokens, granted>>

Statement(w) ==
    /\ \/ Login(w) \/ ListUsers(w) \/ OtherTables(w) \/ CreateUser(w)
       \/ ReadUser(w) \/ SaveUser(w) \/ UpsertUser(w) \/ DeleteUser(w)
    /\ UNCHANGED faults

Fault == faults < MaxFaults /\ faults' = faults + 1

\* The error of the SELECT of a login or an edit is answered with 401 or 404, that of
\* a list with an empty one, and that of a write is ignored.
FailureAnswer(w) ==
    CASE pc[w] \in {"login", "readUser"} -> Refused
      [] pc[w] = "listUsers" -> Says(<<>>)
      [] pc[w] \in {"saveUser", "upsertUser"} -> Says(Show(req[w].id, loc[w]))
      [] OTHER -> Says(None)

StatementFails(w) ==
    /\ pc[w] \notin {"idle", "answered"}
    /\ Fault
    /\ Answers(w, FailureAnswer(w))
    /\ UNCHANGED <<tables, granted>>

-----------------------------------------------------------------------------
\* The process

Admin == [login |-> SeedAdmin, pass |-> SeedPassword, adm |-> TRUE]
Regular == [login |-> SeedUser, pass |-> UserPassword, adm |-> FALSE]

\* seed, when there is nobody.
Seeded(id) == Put(Put(<<>>, id, Admin), id + 1, Regular)

\* It is killed and started again: every connection breaks.
Restart ==
    /\ Fault
    /\ \E w \in Workers : pc[w] # "idle"
    /\ pc' = [w \in Workers |-> IF pc[w] = "idle" THEN "idle" ELSE "answered"]
    /\ answer' = [w \in Workers |->
                    IF pc[w] \in {"idle", "answered"} THEN answer[w] ELSE Refused]
    /\ loc' = [w \in Workers |-> None]
    /\ before' = None
    /\ IF users = <<>> /\ nextUser < MaxUser
       THEN /\ users' = Seeded(nextUser) /\ nextUser' = nextUser + 2
            /\ granted' = granted \cup {nextUser}
       ELSE UNCHANGED <<users, nextUser, granted>>
    /\ UNCHANGED <<tokens, cal, req>>

\* A day after it was signed.
Expire ==
    /\ Fault
    /\ \E c \in tokens : tokens' = tokens \ {c}
    /\ UNCHANGED <<users, nextUser, serving, granted, before>>

\* A new file, and somebody who has logged in as the administrator.
AccountsInit ==
    /\ users = Seeded(1) /\ nextUser = 3
    /\ tokens = {[id |-> 1, adm |-> TRUE]}
    /\ pc = [w \in Workers |-> "idle"]
    /\ cal = [w \in Workers |-> None]
    /\ req = [w \in Workers |-> None]
    /\ loc = [w \in Workers |-> None]
    /\ answer = [w \in Workers |-> None]
    /\ faults = 0 /\ granted = {1} /\ before = None

-----------------------------------------------------------------------------
AccountsTypeOK ==
    /\ IsTable(users, UserIds, UserRows) /\ nextUser \in 1 .. MaxUser + 1
    /\ \A i \in DOMAIN users : i < nextUser
    /\ tokens \subseteq Claims /\ granted \subseteq UserIds /\ faults \in 0 .. MaxFaults
    /\ \A w \in Workers :
        /\ pc[w] \in PCs
        /\ loc[w] # None => pc[w] \in {"saveUser", "upsertUser"}
        /\ answer[w] # None <=> pc[w] = "answered"

\* What a request makes of the accounts d when it has them to itself.
Made(w, d) ==
    LET r == req[w]
        free(id) == \A i \in DOMAIN d \ {id} : d[i].login # r.login
        new == IF r.id = 0 THEN nextUser ELSE r.id
        old == d[r.id]
    IN  CASE r.op = "createUser" ->
                IF free(new) /\ new \in UserIds \ DOMAIN d
                THEN Put(d, new, [login |-> r.login, pass |-> r.pass, adm |-> r.adm]) ELSE d
          [] r.op = "updateUser" ->
                IF free(r.id)
                THEN Put(d, r.id, [login |-> r.login,
                                   pass |-> IF r.pass = Empty THEN old.pass ELSE r.pass,
                                   adm |-> IF cal[w].adm THEN r.adm ELSE old.adm])
                ELSE d
          [] r.op = "deleteUser" -> Without(d, r.id)
          [] OTHER -> d
=============================================================================
