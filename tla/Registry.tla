------------------------------ MODULE Registry ------------------------------
(***************************************************************************)
(* The accounts of the lab2 server: who may log in, what the tokens it has *)
(* signed let their bearers do, and the keys and cards that refer to them. *)
(* No handler here opens a transaction: each statement is an action of its *)
(* own, and other requests run between any two.  The process may be asked  *)
(* to stop, be killed, and be started again on the same file.              *)
(*                                                                         *)
(* A password stands for its bcrypt hash, which only it matches.  A card's *)
(* number stands for its id; balances are PaymentServer's.                 *)
(***************************************************************************)
EXTENDS Tables, Integers, FiniteSets

CONSTANTS
    Logins, Passwords,
    AdminLogin, AdminPassword,  \* adminLogin and adminPassword of server.go
    Empty,                      \* the empty password
    Unset,                      \* an omitted is_admin or user_id
    Numbers,                    \* card numbers
    Values,                     \* what a key can be
    MaxUser, MaxKey,            \* bounds: the largest ids of users and card_keys
    Workers,                    \* requests the server can be serving at a time
    Requests,                   \* the requests clients send
    None                        \* no request, no caller

ASSUME AdminAssumption == AdminLogin \in Logins /\ AdminPassword \in Passwords
ASSUME RegistryBoundsAssumption == MaxUser \in Nat \ {0} /\ MaxKey \in Nat
ASSUME MarkersAssumption == Empty \in Passwords /\ Unset \notin BOOLEAN \cup Nat

VARIABLES
    users,     \* users: id -> login, password, is_admin
    nextUser,  \* its AUTOINCREMENT counter
    keys,      \* card_keys: id -> value
    nextKey,
    cards,     \* cards: number -> owning user and key
    tokens,    \* the claims of the tokens that have not expired
    server,    \* the process
    pc,        \* the next statement of each worker
    cal,       \* the claims its request came with
    req,       \* the request
    loc,       \* what its earlier SELECTs returned
    granted    \* history: the accounts an administrator, or the seed, made one

tables == <<users, nextUser, keys, nextKey, cards>>
workers == <<pc, cal, req, loc>>
vars == <<tables, tokens, server, workers, granted>>

UserIds == 1 .. MaxUser
KeyIds == 1 .. MaxKey
UserRows == [login : Logins, pass : Passwords, adm : BOOLEAN]
CardRows == [own : UserIds, key : KeyIds]
Claims == [id : UserIds, adm : BOOLEAN]
Locals == [pass : Passwords, adm : BOOLEAN, own : UserIds \cup {Unset}]
NoLocals == [pass |-> Empty, adm |-> FALSE, own |-> Unset]

AllRequests ==
    [op : {"login"}, login : Logins, pass : Passwords]
    \cup [op : {"createUser"}, login : Logins, pass : Passwords, adm : BOOLEAN]
    \cup [op : {"updateUser"}, id : UserIds, login : Logins, pass : Passwords,
          adm : BOOLEAN \cup {Unset}]
    \cup [op : {"deleteUser"}, id : UserIds]
    \cup [op : {"createKey"}, val : Values]
    \cup [op : {"updateKey"}, key : KeyIds, val : Values]
    \cup [op : {"deleteKey"}, key : KeyIds]
    \cup [op : {"createCard", "updateCard"}, card : Numbers, key : KeyIds,
          own : UserIds \cup {Unset}]
    \cup [op : {"deleteCard"}, card : Numbers]

ASSUME RegistryRequestsAssumption == Requests \subseteq AllRequests /\ None \notin Requests

PCs == {"idle", "reading", "login", "createUser", "readHash", "readFlag", "updateUser",
        "deleteUser", "createKey", "updateKey", "deleteKey", "readCard", "findOwner",
        "createCard", "updateCard", "checkCard", "deleteCard"}

Named(l) == {i \in DOMAIN users : users[i].login = l}

-----------------------------------------------------------------------------
\* How a handler moves

At(w, label) == pc[w] = label /\ server # "down"
Goto(w, label) == pc' = [pc EXCEPT ![w] = label]

\* The handler goes on to its next statement with what it has read.
GoesOn(w, label, locals) ==
    /\ Goto(w, label)
    /\ loc' = [loc EXCEPT ![w] = locals]
    /\ UNCHANGED <<tables, tokens, server, cal, req, granted>>

\* It has answered.
Ends(w) ==
    /\ Goto(w, "idle")
    /\ cal' = [cal EXCEPT ![w] = None]
    /\ req' = [req EXCEPT ![w] = None]
    /\ loc' = [loc EXCEPT ![w] = NoLocals]
    /\ UNCHANGED server

Refuses(w) == Ends(w) /\ UNCHANGED <<tables, tokens, granted>>

\* A statement that a constraint may refuse; effect is what it changes.
Executes(w, allowed, effect) ==
    IF allowed THEN Ends(w) /\ effect /\ UNCHANGED tokens ELSE Refuses(w)

\* Any statement may fail: the file was locked for too long.
StatementFails(w) == pc[w] \notin {"idle", "reading"} /\ server # "down" /\ Refuses(w)

-----------------------------------------------------------------------------
\* A request arrives with a token that authMiddleware accepts, or asks for one.
Accept(w, c, r) ==
    /\ At(w, "idle") /\ server = "up"
    /\ IF r.op = "login" THEN c = None ELSE c \in tokens
    /\ Goto(w, "reading")
    /\ cal' = [cal EXCEPT ![w] = c]
    /\ req' = [req EXCEPT ![w] = r]
    /\ UNCHANGED <<tables, tokens, server, loc, granted>>

AdminOnly(r) == r.op \in {"createUser", "createKey", "updateKey", "deleteKey"}

\* What is refused by the claims of the token alone.
Forbidden(c, r) ==
    \/ AdminOnly(r) /\ ~c.adm
    \/ r.op \in {"updateUser", "deleteUser"} /\ ~c.adm /\ c.id # r.id
    \/ r.op = "createCard" /\ ~c.adm /\ r.own \notin {Unset, c.id}

\* Does updateUser take is_admin from its request?
SetsFlagAlways(c, r) == r.adm # Unset    \* Fault: from anybody's.
SetsFlag(c, r) == c.adm /\ r.adm # Unset

\* The statement a handler starts with.
FirstStatement(c, r) ==
    CASE r.op = "updateUser" /\ r.pass = Empty -> "readHash"
      [] r.op = "updateUser" /\ r.pass # Empty ->
            IF SetsFlag(c, r) THEN "updateUser" ELSE "readFlag"
      [] r.op = "createCard" -> "findOwner"
      [] r.op = "updateCard" -> "readCard"
      [] r.op = "deleteCard" /\ ~c.adm -> "checkCard"
      [] OTHER -> r.op

\* What a handler has from its request before it reads anything.
FirstLocals(c, r) ==
    CASE r.op = "updateUser" ->
            [pass |-> r.pass, adm |-> SetsFlag(c, r) /\ r.adm, own |-> Unset]
      [] r.op = "createCard" ->
            [NoLocals EXCEPT !.own = IF c.adm /\ r.own # Unset THEN r.own ELSE c.id]
      [] OTHER -> NoLocals

\* The client has sent the whole request.
ReadRequest(w) ==
    /\ At(w, "reading")
    /\ IF Forbidden(cal[w], req[w])
         THEN Refuses(w)
         ELSE GoesOn(w, FirstStatement(cal[w], req[w]), FirstLocals(cal[w], req[w]))

-----------------------------------------------------------------------------
\* POST /auth/login.  The built-in administrator never reaches the database, and
\* is user 1.
Login(w) ==
    LET r == req[w]
        builtIn == r.login = AdminLogin /\ r.pass = AdminPassword
        mine == {i \in Named(r.login) : users[i].pass = r.pass}
        issued == IF builtIn THEN {[id |-> 1, adm |-> TRUE]}
                  ELSE {[id |-> i, adm |-> users[i].adm] : i \in mine}
    IN
    /\ At(w, "login") /\ Ends(w)
    /\ tokens' = tokens \cup issued
    /\ UNCHANGED <<tables, granted>>

-----------------------------------------------------------------------------
\* Fault: updateUser INSERTs OR REPLACEs its row under the id of the URL.
UpdateUserUpserting(w) ==
    LET r == req[w]
        row == [login |-> r.login, pass |-> loc[w].pass, adm |-> loc[w].adm]
    IN
    /\ At(w, "updateUser")
    /\ Executes(w, Named(r.login) \subseteq {r.id},
         /\ users' = Put(users, r.id, row)
         /\ granted' = granted \cup
              (IF cal[w].adm /\ r.adm = TRUE THEN {r.id} ELSE {})
         /\ UNCHANGED <<nextUser, keys, nextKey, cards>>)

\* Fault: without AUTOINCREMENT the smallest free id is given again.
CreateUserReusingIds(w) ==
    LET r == req[w]
        free == {i \in UserIds : i \notin DOMAIN users /\ i < nextUser}
        id == IF free = {} THEN nextUser ELSE CHOOSE i \in free : TRUE
    IN
    /\ At(w, "createUser")
    /\ Executes(w, Named(r.login) = {} /\ id <= MaxUser,
         /\ users' = Put(users, id, [login |-> r.login, pass |-> r.pass, adm |-> r.adm])
         /\ nextUser' = IF free = {} THEN nextUser + 1 ELSE nextUser
         /\ granted' = granted \cup (IF cal[w].adm /\ r.adm THEN {id} ELSE {})
         /\ UNCHANGED <<keys, nextKey, cards>>)

\* POST /users
CreateUser(w) ==
    LET r == req[w] IN
    /\ At(w, "createUser")
    /\ Executes(w, Named(r.login) = {} /\ nextUser <= MaxUser,
         /\ users' = Put(users, nextUser, [login |-> r.login, pass |-> r.pass, adm |-> r.adm])
         /\ nextUser' = nextUser + 1
         /\ granted' = granted \cup (IF cal[w].adm /\ r.adm THEN {nextUser} ELSE {})
         /\ UNCHANGED <<keys, nextKey, cards>>)

\* PUT /users/{id}: what the request leaves out is read, one column at a time,
\* and written back with the rest.
ReadHash(w) ==
    LET r == req[w] IN
    /\ At(w, "readHash")
    /\ IF r.id \in DOMAIN users
         THEN GoesOn(w, IF SetsFlag(cal[w], r) THEN "updateUser" ELSE "readFlag",
                     [loc[w] EXCEPT !.pass = users[r.id].pass])
         ELSE Refuses(w)

ReadFlag(w) ==
    LET r == req[w] IN
    /\ At(w, "readFlag")
    /\ IF r.id \in DOMAIN users
         THEN GoesOn(w, "updateUser", [loc[w] EXCEPT !.adm = users[r.id].adm])
         ELSE Refuses(w)

\* An UPDATE of a user who has gone meanwhile changes no row.
UpdateUser(w) ==
    LET r == req[w]
        row == [login |-> r.login, pass |-> loc[w].pass, adm |-> loc[w].adm]
    IN
    /\ At(w, "updateUser")
    /\ Executes(w, r.id \in DOMAIN users => Named(r.login) \subseteq {r.id},
         /\ users' = IF r.id \in DOMAIN users THEN Put(users, r.id, row) ELSE users
         /\ granted' = granted \cup
              (IF cal[w].adm /\ r.adm = TRUE THEN {r.id} ELSE {})
         /\ UNCHANGED <<nextUser, keys, nextKey, cards>>)

\* DELETE /users/{id}: not while a card refers to the user.
DeleteUser(w) ==
    LET r == req[w] IN
    /\ At(w, "deleteUser")
    /\ Executes(w, \A n \in DOMAIN cards : cards[n].own # r.id,
         users' = Without(users, r.id) /\ UNCHANGED <<nextUser, keys, nextKey, cards, granted>>)

-----------------------------------------------------------------------------
\* /keys
CreateKey(w) ==
    /\ At(w, "createKey")
    /\ Executes(w, nextKey <= MaxKey,
         /\ keys' = Put(keys, nextKey, req[w].val)
         /\ nextKey' = nextKey + 1
         /\ UNCHANGED <<users, nextUser, cards, granted>>)

UpdateKey(w) ==
    LET r == req[w] IN
    /\ At(w, "updateKey")
    /\ Executes(w, TRUE,
         /\ keys' = IF r.key \in DOMAIN keys THEN Put(keys, r.key, r.val) ELSE keys
         /\ UNCHANGED <<users, nextUser, nextKey, cards, granted>>)

DeleteKey(w) ==
    LET r == req[w] IN
    /\ At(w, "deleteKey")
    /\ Executes(w, \A n \in DOMAIN cards : cards[n].key # r.key,
         keys' = Without(keys, r.key) /\ UNCHANGED <<users, nextUser, nextKey, cards, granted>>)

-----------------------------------------------------------------------------
\* Cards, as far as they refer to users and keys

\* PUT /cards/{id} reads the card's owner first.
ReadCard(w) ==
    LET r == req[w]
        owner == cards[r.card].own
        next == IF cal[w].adm /\ r.own # Unset THEN r.own ELSE owner
    IN
    /\ At(w, "readCard")
    /\ IF /\ r.card \in DOMAIN cards
          /\ cal[w].adm \/ (owner = cal[w].id /\ r.own \in {Unset, owner})
         THEN GoesOn(w, "findOwner", [loc[w] EXCEPT !.own = next])
         ELSE Refuses(w)

\* userExists
FindOwner(w) ==
    /\ At(w, "findOwner")
    /\ IF loc[w].own \in DOMAIN users THEN GoesOn(w, req[w].op, loc[w]) ELSE Refuses(w)

\* Fault: userExists is all that is checked.
CardKeysUnchecked(row) == TRUE

\* Do the rows a card refers to exist now?  The FOREIGN KEYs of cards.
CardKeysExist(row) == row.own \in DOMAIN users /\ row.key \in DOMAIN keys

\* The INSERT or the UPDATE of the card.  A card that has gone is not updated.
WriteCard(w) ==
    LET r == req[w]
        row == [own |-> loc[w].own, key |-> r.key]
        writes == At(w, "createCard") \/ r.card \in DOMAIN cards
    IN
    /\ At(w, "createCard") \/ At(w, "updateCard")
    /\ Executes(w, /\ At(w, "createCard") => r.card \notin DOMAIN cards
                   /\ writes => CardKeysExist(row),
         /\ cards' = IF writes THEN Put(cards, r.card, row) ELSE cards
         /\ UNCHANGED <<users, nextUser, keys, nextKey, granted>>)

\* DELETE /cards/{id}: a regular user's request looks at the owner first.
CheckCard(w) ==
    LET r == req[w] IN
    /\ At(w, "checkCard")
    /\ IF r.card \in DOMAIN cards /\ cards[r.card].own = cal[w].id
         THEN GoesOn(w, "deleteCard", loc[w])
         ELSE Refuses(w)

DeleteCard(w) ==
    /\ At(w, "deleteCard")
    /\ Executes(w, TRUE, /\ cards' = Without(cards, req[w].card)
                         /\ UNCHANGED <<users, nextUser, keys, nextKey, granted>>)

-----------------------------------------------------------------------------
\* The process

\* Twenty-four hours after it was signed.
Expire == \E c \in tokens : tokens' = tokens \ {c} /\ UNCHANGED <<tables, server, workers, granted>>

\* SIGINT or SIGTERM: Shutdown accepts no more and waits for what is in progress,
Terminate ==
    /\ server = "up" /\ server' = "draining"
    /\ UNCHANGED <<tables, tokens, workers, granted>>

\* The requests in progress are lost with the process.
Dies ==
    /\ server' = "down"
    /\ pc' = [w \in Workers |-> "idle"]
    /\ cal' = [w \in Workers |-> None]
    /\ req' = [w \in Workers |-> None]
    /\ loc' = [w \in Workers |-> NoLocals]
    /\ UNCHANGED <<tables, tokens, granted>>

\* ... until all is over,
Drained == server = "draining" /\ (\A w \in Workers : pc[w] = "idle") /\ Dies

\* Fault: Shutdown is given a context without a deadline.
WaitForEver == FALSE /\ Dies

\* ... or for the ten seconds it is given.
ShutdownDeadline == server = "draining" /\ Dies

Kill == server = "up" /\ Dies

\* main: the migrations have run before; ensureDefaultAdmin puts the account back,
\* and the process ends at once if it cannot.
DefaultAdmin == [login |-> AdminLogin, pass |-> AdminPassword, adm |-> TRUE]
DefaultId == IF Named(AdminLogin) = {} THEN nextUser ELSE CHOOSE i \in Named(AdminLogin) : TRUE

Start ==
    /\ server = "down" /\ DefaultId <= MaxUser
    /\ server' = "up"
    /\ users' = Put(users, DefaultId, DefaultAdmin)
    /\ nextUser' = IF DefaultId = nextUser THEN nextUser + 1 ELSE nextUser
    /\ granted' = granted \cup {DefaultId}
    /\ UNCHANGED <<keys, nextKey, cards, tokens, workers>>

StartFails == server = "down" /\ DefaultId > MaxUser /\ UNCHANGED vars

-----------------------------------------------------------------------------
\* The file is new: 00001_init.sql has created the administrator as user 1.
Init ==
    /\ users = Put(<< >>, 1, DefaultAdmin)
    /\ nextUser = 2
    /\ keys = << >> /\ nextKey = 1
    /\ cards = << >>
    /\ tokens = {}
    /\ server = "down"
    /\ pc = [w \in Workers |-> "idle"]
    /\ cal = [w \in Workers |-> None]
    /\ req = [w \in Workers |-> None]
    /\ loc = [w \in Workers |-> NoLocals]
    /\ granted = {1}

\* The next statement of worker w's handler.
Statement(w) ==
    \/ Login(w)
    \/ CreateUser(w) \/ ReadHash(w) \/ ReadFlag(w) \/ UpdateUser(w) \/ DeleteUser(w)
    \/ CreateKey(w) \/ UpdateKey(w) \/ DeleteKey(w)
    \/ ReadCard(w) \/ FindOwner(w) \/ WriteCard(w) \/ CheckCard(w) \/ DeleteCard(w)
    \/ StatementFails(w)

Next ==
    \/ \E w \in Workers :
        \/ ReadRequest(w) \/ Statement(w)
        \/ \E r \in Requests, c \in tokens \cup {None} : Accept(w, c, r)
    \/ Expire \/ Terminate \/ Drained \/ ShutdownDeadline \/ Kill
    \/ Start \/ StartFails

Spec == Init /\ [][Next]_vars

\* A goroutine runs its statements and Shutdown its clock; a client may never
\* finish its request, and nobody has to start the process again.
Fairness ==
    /\ \A w \in Workers : WF_vars(Statement(w))
    /\ WF_vars(Drained) /\ WF_vars(ShutdownDeadline)
FairSpec == Spec /\ Fairness

-----------------------------------------------------------------------------
\* Properties

TypeOK ==
    /\ nextUser \in 1 .. MaxUser + 1 /\ IsTable(users, 1 .. nextUser - 1, UserRows)
    /\ nextKey \in 1 .. MaxKey + 1 /\ IsTable(keys, 1 .. nextKey - 1, Values)
    /\ IsTable(cards, Numbers, CardRows)
    /\ tokens \subseteq Claims
    /\ server \in {"up", "draining", "down"}
    /\ pc \in [Workers -> PCs]
    /\ cal \in [Workers -> Claims \cup {None}]
    /\ req \in [Workers -> Requests \cup {None}]
    /\ loc \in [Workers -> Locals]
    /\ granted \subseteq UserIds

\* A card belongs to a user and has a key that exist, although the user may go
\* between userExists and the statement that writes the card.
OwnersExist == \A n \in DOMAIN cards : cards[n].own \in DOMAIN users /\ cards[n].key \in DOMAIN keys

\* Nobody is an administrator, in the table or in a token, unless an administrator
\* or the seed made him one: however the reads and writes of updateUser
\* interleave, a regular user's edit never does.
AdminsWereGranted ==
    /\ \A i \in DOMAIN users : users[i].adm => i \in granted
    /\ \A c \in tokens : c.adm => c.id \in granted

\* A token outlives the account it was issued to, for up to a day, and never
\* becomes a token of another account: ids are AUTOINCREMENT.
DeadTokensStayDead ==
    [][\A c \in tokens : c.id \notin DOMAIN users => c.id \notin DOMAIN users']_vars

\* Shutdown ends, even when a client never finishes its request.
ShutdownEnds == server = "draining" ~> server = "down"

=============================================================================
