------------------------- MODULE AdminConsoleProofs -------------------------
(***************************************************************************)
(* Proofs about AdminConsole: nobody becomes an administrator unless one,  *)
(* or the seed, made him that; a request the backend serves alone changes  *)
(* the accounts as one step would; and what the page of a patient user     *)
(* shows is of the account, and of the tab, it says it is of.              *)
(***************************************************************************)
EXTENDS AdminConsole, SequenceTheorems, TLAPS

-----------------------------------------------------------------------------
\* The invariant of the backend

TablesOK ==
    /\ IsTable(users, UserIds, UserRows) /\ nextUser \in 1 .. MaxUser + 1
    /\ \A i \in DOMAIN users : i < nextUser
    /\ tokens \subseteq Claims /\ granted \subseteq UserIds
    /\ \A i \in DOMAIN users : users[i].adm => i \in granted
    /\ \A c \in tokens : c.adm => c.id \in granted

WorkersOK ==
    /\ pc \in [Workers -> PCs]
    /\ cal \in [Workers -> Claims \cup {None}]
    /\ req \in [Workers -> AllRequests \cup {None}]
    /\ loc \in [Workers -> UserRows \cup {None}]
    /\ answer \in [Workers -> Answered \cup {None}]
    /\ \A w \in Workers :
        /\ loc[w] # None => pc[w] \in {"saveUser", "upsertUser"}
        /\ answer[w] # None <=> pc[w] = "answered"

\* The request a statement is executed for.
Label(r) == IF r.op = "updateUser" THEN {"readUser", "saveUser", "upsertUser"} ELSE {r.op}

\* A flag that is about to be written was granted before, or is a grant itself.
Merits(row, c, r, g) == row.adm => r.id \in g \/ (c.adm /\ r.adm)

\* What an answer says of accounts; that an edit makes an administrator it may say
\* though the UNIQUE login has kept the row from being written.
Tells(r, a, g) ==
    a.ok =>
        /\ r.op = "login" => a.val \in Shown /\ (a.val.adm => a.val.id \in g)
        /\ r.op = "listUsers" => a.val \in AccountLists
        /\ r.op = "updateUser" =>
              a.val \in Shown /\ a.val.id = r.id /\ (a.val.adm => r.id \in g \/ r.adm)

Working(w) ==
    /\ pc[w] # "idle" => req[w] \in AllRequests
    /\ pc[w] \notin {"idle", "answered"} =>
          pc[w] \in Label(req[w]) /\ (req[w].op # "login" => cal[w] \in Claims)
    /\ pc[w] = "createUser" => req[w].pass # Empty
    /\ pc[w] \in {"saveUser", "upsertUser"} =>
          /\ loc[w] \in UserRows /\ req[w].id < nextUser
          /\ Merits(loc[w], cal[w], req[w], granted)
    /\ pc[w] = "answered" => Tells(req[w], answer[w], granted)

\* A request that runs alone still finds what it found.
Busy == {w \in Workers : pc[w] \notin {"idle", "answered"}}
Undisturbed ==
    before # None =>
        /\ users = before
        /\ \A v, w \in Busy : v = w
        /\ \A w \in Workers :
            /\ pc[w] = "saveUser" =>
                  /\ req[w].id \in DOMAIN users
                  /\ loc[w] = Merged(cal[w], req[w], users[req[w].id])
            /\ pc[w] # "upsertUser"

BackendInv ==
    /\ TablesOK /\ WorkersOK /\ faults \in 0 .. MaxFaults
    /\ \A w \in Workers : Working(w)
    /\ Undisturbed

-----------------------------------------------------------------------------
\* The invariant of the page

\* A request of the page: only a login has no claims and no account, and an edit of
\* one's own account makes nobody an administrator who is not one.
GoodCalls(g) ==
    {k \in [cal : Claims \cup {None}, req : AllRequests, tab : Tabs, me : Shown \cup {None}] :
        /\ k.req.op = "login" => k.cal = None
        /\ k.req.op # "login" => k.cal # None /\ k.me # None
        /\ k.req.op = "updateUser" /\ k.me.id = k.req.id /\ k.req.adm => k.req.id \in g}

\* The request of the page worker w serves.
Asked(w) == Call(cal[w], req[w], call[w].tab, call[w].me)

PageOK ==
    /\ token \in Claims \cup {None} /\ me \in Shown \cup {None}
    /\ token # None => me # None
    /\ me # None /\ me.adm => me.id \in granted
    /\ tab \in Tabs /\ Allowed(me, tab)
    /\ rows.what \in Tabs \cup {None} /\ DOMAIN rows.shown \subseteq UserIds
    /\ loading \in BOOLEAN
    /\ queue \in Seq(GoodCalls(granted))

CallsOK ==
    /\ call \in [Workers -> Handlers \cup {None}]
    /\ \A w \in Pending :
        /\ pc[w] # "idle" /\ call[w].after \subseteq Pending \ {w}
        /\ Asked(w) \in GoodCalls(granted)

\* While the user waits there is nothing in flight beside a request that is no list,
\* and it was made of the page as it is.
Mine(k) == k.cal = token /\ k.tab = tab /\ k.me = me
Sole ==
    /\ \A i \in 1 .. Len(queue) :
        ~IsList(queue[i].req) => Len(queue) = 1 /\ Pending = {} /\ Mine(queue[i])
    /\ \A w \in Pending :
        ~IsList(req[w]) => queue = <<>> /\ Pending = {w} /\ Mine(Asked(w))

\* The list that was asked for last is that of the tab,
PendingLists == {w \in Pending : IsList(req[w])}
Latest ==
    /\ queue # <<>> /\ IsList(queue[Len(queue)].req) =>
          queue[Len(queue)].tab = tab /\ queue[Len(queue)].cal = token
    /\ queue = <<>> =>
          \A w \in PendingLists :
             (\A v \in PendingLists : w \notin call[v].after) => call[w].tab = tab /\ cal[w] = token

\* ... and so is the table when none is in flight.
Matches ==
    (PendingLists = {} /\ \A i \in 1 .. Len(queue) : ~IsList(queue[i].req)) =>
        rows = NoRows \/ (rows.what = tab /\ rows.by = token.id)

PatientInv ==
    waits => /\ token = None <=> me = None
             /\ token # None => me.id = token.id
             /\ Sole
             /\ inOrder /\ token # None => Latest /\ Matches

PageInv == PageOK /\ CallsOK /\ PatientInv
IInv == BackendInv /\ PageInv

-----------------------------------------------------------------------------
\* Requests and rows

\* What a request has depends on what it asks for.
LEMMA RequestTypes ==
    ASSUME NEW r \in AllRequests
    PROVE  /\ r.op \in {"login", "listUsers", "list", "change", "createUser", "updateUser",
                        "deleteUser"}
           /\ r.op = "createUser" =>
                /\ r.id \in UserIds \cup {0} /\ r.login \in Logins /\ r.pass \in Passwords
                /\ r.adm \in BOOLEAN
           /\ r.op = "updateUser" =>
                /\ r.id \in UserIds /\ r.login \in Logins /\ r.pass \in Passwords
                /\ r.adm \in BOOLEAN
           /\ r.op = "deleteUser" => r.id \in UserIds
BY DEF AllRequests

\* Nothing that means something is None.
LEMMA NotNone ==
    /\ \A x \in UserRows : x # None
    /\ \A x \in Claims : x # None
    /\ \A x \in Shown : x # None
    /\ \A x \in AllRequests : x # None
    /\ \A x \in Answered : x # None
    /\ \A x \in Handlers : x # None
BY NoneAssumption, NoHandlerAssumption

\* The seed is a table of two accounts, the first an administrator.
LEMMA SeededTable ==
    ASSUME NEW id \in UserIds, id + 1 \in UserIds
    PROVE  /\ IsTable(Seeded(id), UserIds, UserRows)
           /\ DOMAIN Seeded(id) = {id, id + 1}
           /\ \A i \in DOMAIN Seeded(id) : Seeded(id)[i].adm => i = id
<1>1. Admin \in UserRows /\ Regular \in UserRows /\ ~Regular.adm
  BY AccountsAssumption DEF Admin, Regular, UserRows
<1>2. DOMAIN << >> = {}
  OBVIOUS
<1>3. Seeded(id) = [i \in {id, id + 1} |-> IF i = id + 1 THEN Regular ELSE Admin]
  BY <1>2 DEF Seeded, Put
<1> QED
  BY <1>1, <1>3 DEF IsTable

\* Writing a row keeps a table, and an administrator in it is granted if he is in the row.
LEMMA PutKeeps ==
    ASSUME TablesOK, NEW id \in UserIds, NEW row \in UserRows, NEW n \in Int, id < n, nextUser <= n,
           NEW g, granted \subseteq g, row.adm => id \in g
    PROVE  /\ IsTable(Put(users, id, row), UserIds, UserRows)
           /\ \A i \in DOMAIN Put(users, id, row) :
                i < n /\ (Put(users, id, row)[i].adm => i \in g)
<1>1. DOMAIN users \subseteq Int /\ nextUser \in Int
  BY DEF TablesOK, IsTable, UserIds
<1> QED
  BY <1>1 DEF TablesOK, IsTable, Put

\* What an edit makes of a row is a row, whose flag is merited.
LEMMA MergedRow ==
    ASSUME NEW c \in Claims, NEW r \in AllRequests, r.op = "updateUser", NEW row \in UserRows,
           NEW g, row.adm => r.id \in g
    PROVE  Merged(c, r, row) \in UserRows /\ Merits(Merged(c, r, row), c, r, g)
<1>1. r.login \in Logins /\ r.pass \in Passwords /\ r.adm \in BOOLEAN
  BY RequestTypes
<1>2. c.adm \in BOOLEAN
  BY DEF Claims
<1> QED
  BY <1>1, <1>2 DEF Merged, Merits, UserRows

-----------------------------------------------------------------------------
\* How a handler moves

Grows == granted \subseteq granted' /\ nextUser \in Int /\ nextUser' \in Int /\ nextUser <= nextUser'

\* What the statements of an edit know of their request.
LEMMA EditOfUser ==
    ASSUME NEW w \in Workers, Working(w), pc[w] \in {"readUser", "saveUser", "upsertUser"}
    PROVE  /\ req[w] \in AllRequests /\ req[w].op = "updateUser" /\ req[w].id \in UserIds
           /\ cal[w] \in Claims
<1>1. req[w] \in AllRequests /\ pc[w] \in Label(req[w])
  BY DEF Working
<1>2. req[w].op = "updateUser"
  BY <1>1, RequestTypes DEF Label
<1> QED
  BY <1>1, <1>2, RequestTypes DEF Working

\* A worker that rests is not disturbed by grants and new ids.
LEMMA WorkingStays ==
    ASSUME NEW w \in Workers, Working(w), Grows,
           pc'[w] = pc[w], cal'[w] = cal[w], req'[w] = req[w], loc'[w] = loc[w],
           answer'[w] = answer[w]
    PROVE  Working(w)'
<1>1. pc[w] \in {"saveUser", "upsertUser"} => req[w].id \in UserIds
  BY EditOfUser
<1>2. ASSUME pc[w] \in {"saveUser", "upsertUser"}, req[w].id < nextUser PROVE req[w].id < nextUser'
  BY <1>1, <1>2 DEF Grows, UserIds
<1>3. Merits(loc[w], cal[w], req[w], granted) => Merits(loc[w], cal[w], req[w], granted')
  BY DEF Grows, Merits
<1>4. Tells(req[w], answer[w], granted) => Tells(req[w], answer[w], granted')
  BY DEF Grows, Tells
<1>5. Working(w)' <=>
        /\ pc[w] # "idle" => req[w] \in AllRequests
        /\ pc[w] \notin {"idle", "answered"} =>
              pc[w] \in Label(req[w]) /\ (req[w].op # "login" => cal[w] \in Claims)
        /\ pc[w] = "createUser" => req[w].pass # Empty
        /\ pc[w] \in {"saveUser", "upsertUser"} =>
              /\ loc[w] \in UserRows /\ req[w].id < nextUser'
              /\ Merits(loc[w], cal[w], req[w], granted')
        /\ pc[w] = "answered" => Tells(req[w], answer[w], granted')
  BY DEF Working, Merits, Tells, Label
<1> QED
  BY <1>2, <1>3, <1>4, <1>5 DEF Working

\* An answer that tells what is so leaves the workers in order.
LEMMA AnswerKeeps ==
    ASSUME WorkersOK, \A v \in Workers : Working(v), Grows,
           NEW w \in Workers, pc[w] \notin {"idle", "answered"},
           NEW a \in Answered, Answers(w, a), Tells(req[w], a, granted')
    PROVE  WorkersOK' /\ (\A v \in Workers : Working(v)') /\ Undisturbed'
<1>1. /\ pc' = [pc EXCEPT ![w] = "answered"] /\ loc' = [loc EXCEPT ![w] = None]
      /\ answer' = [answer EXCEPT ![w] = a] /\ before' = None /\ cal' = cal /\ req' = req
  BY DEF Answers
<1>2. a # None
  BY NotNone
<1>3. WorkersOK'
  BY <1>1, <1>2 DEF WorkersOK, PCs
<1>4. ASSUME NEW v \in Workers \ {w} PROVE Working(v)'
  <2>1. /\ pc'[v] = pc[v] /\ cal'[v] = cal[v] /\ req'[v] = req[v] /\ loc'[v] = loc[v]
        /\ answer'[v] = answer[v]
    BY <1>1 DEF WorkersOK
  <2> QED
    BY <2>1, WorkingStays
<1>5. Working(w)'
  <2>1. pc'[w] = "answered" /\ req'[w] = req[w] /\ answer'[w] = a
    BY <1>1 DEF WorkersOK
  <2>2. req[w] \in AllRequests
    BY DEF Working
  <2> QED
    BY <2>1, <2>2 DEF Working, Tells
<1> QED
  BY <1>1, <1>3, <1>4, <1>5 DEF Undisturbed

\* An answer of nothing is always so, unless it is about accounts.
LEMMA NothingTold ==
    ASSUME NEW r, NEW g
    PROVE  /\ Refused \in Answered /\ Tells(r, Refused, g)
           /\ Says(None) \in Answered
           /\ r.op \notin {"login", "listUsers", "updateUser"} => Tells(r, Says(None), g)
BY DEF Refused, Says, Answered, Tells

\* Nor is a refusal.
LEMMA RefusalKeeps ==
    ASSUME BackendInv, NEW w \in Workers, pc[w] \notin {"idle", "answered"},
           Answers(w, Refused), UNCHANGED <<granted, nextUser>>
    PROVE  WorkersOK' /\ (\A v \in Workers : Working(v)') /\ Undisturbed'
<1>1. Grows
  BY DEF Grows, BackendInv, TablesOK
<1> QED
  BY <1>1, AnswerKeeps, NothingTold DEF BackendInv

\* The next statement of an edit has the row it is to write.
LEMMA GoesOnKeeps ==
    ASSUME BackendInv, NEW w \in Workers, pc[w] \in {"readUser", "saveUser"},
           NEW label \in {"saveUser", "upsertUser"}, NEW row \in UserRows,
           req[w].id < nextUser, Merits(row, cal[w], req[w], granted), GoesOn(w, label, row)
    PROVE  TablesOK' /\ WorkersOK' /\ \A v \in Workers : Working(v)'
<1>1. /\ pc' = [pc EXCEPT ![w] = label] /\ loc' = [loc EXCEPT ![w] = row]
      /\ UNCHANGED <<users, nextUser, tokens, cal, req, answer, granted>>
  BY DEF GoesOn, tables
<1>2. TablesOK'
  BY <1>1 DEF BackendInv, TablesOK
<1>3. Working(w) /\ WorkersOK
  BY DEF BackendInv
<1>4. WorkersOK'
  BY <1>1, <1>3, NotNone DEF WorkersOK, PCs
<1>5. Grows
  BY <1>1 DEF Grows, BackendInv, TablesOK
<1>6. ASSUME NEW v \in Workers \ {w} PROVE Working(v)'
  <2>1. /\ pc'[v] = pc[v] /\ cal'[v] = cal[v] /\ req'[v] = req[v] /\ loc'[v] = loc[v]
        /\ answer'[v] = answer[v]
    BY <1>1, <1>3 DEF WorkersOK
  <2> QED
    BY <1>5, <2>1, WorkingStays DEF BackendInv
<1>7. Working(w)'
  <2>1. pc'[w] = label /\ loc'[w] = row
    BY <1>1, <1>3 DEF WorkersOK
  <2>2. req[w] \in AllRequests /\ req[w].op = "updateUser" /\ cal[w] \in Claims
    BY <1>3, EditOfUser
  <2>3. Merits(row, cal[w], req[w], granted)
    OBVIOUS
  <2> QED
    BY <1>1, <2>1, <2>2, <2>3 DEF Working, Label, Merits
<1> QED
  BY <1>2, <1>4, <1>6, <1>7

-----------------------------------------------------------------------------
\* The statements

\* The other statements are named for their requests.
LEMMA NamedForRequest ==
    ASSUME NEW w \in Workers, Working(w),
           pc[w] \in {"login", "listUsers", "list", "change", "createUser", "deleteUser"}
    PROVE  req[w] \in AllRequests /\ req[w].op = pc[w]
BY DEF Working, Label

LEMMA LoginKeeps ==
    ASSUME BackendInv, NEW w \in Workers, Login(w)
    PROVE  TablesOK' /\ WorkersOK' /\ (\A v \in Workers : Working(v)') /\ Undisturbed'
<1> DEFINE mine == {i \in DOMAIN users : users[i].login = req[w].login /\ users[i].pass = req[w].pass}
<1>1. pc[w] = "login" /\ UNCHANGED <<users, nextUser, granted>> /\ Grows
  BY DEF Login, Grows, BackendInv, TablesOK
<1>2. CASE mine = {}
  <2>1. Answers(w, Refused) /\ tokens' = tokens
    BY <1>2 DEF Login
  <2>2. TablesOK'
    BY <1>1, <2>1 DEF BackendInv, TablesOK
  <2> QED
    BY <1>1, <2>1, <2>2, RefusalKeeps
<1>3. CASE mine # {}
  <2>1. PICK i \in mine : /\ tokens' = tokens \cup {[id |-> i, adm |-> users[i].adm]}
                          /\ Answers(w, Says(Show(i, users[i])))
    BY <1>3 DEF Login
  <2>2. i \in UserIds /\ users[i] \in UserRows /\ (users[i].adm => i \in granted)
    BY DEF BackendInv, TablesOK, IsTable
  <2>3. [id |-> i, adm |-> users[i].adm] \in Claims
    BY <2>2 DEF Claims, UserRows
  <2>4. Show(i, users[i]) \in Shown
    BY <2>2 DEF Show, Shown, UserRows
  <2>5. TablesOK'
    BY <1>1, <2>1, <2>2, <2>3 DEF BackendInv, TablesOK
  <2>6. req[w].op = "login"
    BY <1>1, NamedForRequest DEF BackendInv
  <2>7. Says(Show(i, users[i])) \in Answered
    BY <2>4 DEF Says, Answered
  <2>8. Tells(req[w], Says(Show(i, users[i])), granted')
    BY <1>1, <2>2, <2>4, <2>6 DEF Tells, Says, Show
  <2> QED
    BY <1>1, <2>1, <2>5, <2>7, <2>8, AnswerKeeps DEF BackendInv
<1> QED
  BY <1>2, <1>3

LEMMA ListUsersKeeps ==
    ASSUME BackendInv, NEW w \in Workers, ListUsers(w)
    PROVE  TablesOK' /\ WorkersOK' /\ (\A v \in Workers : Working(v)') /\ Undisturbed'
<1> DEFINE list == [i \in DOMAIN users |-> Show(i, users[i])]
<1>1. pc[w] = "listUsers" /\ Answers(w, Says(list)) /\ UNCHANGED <<users, nextUser, tokens, granted>>
  BY DEF ListUsers, tables
<1>2. Grows
  BY <1>1 DEF Grows, BackendInv, TablesOK
<1>3. TablesOK'
  BY <1>1 DEF BackendInv, TablesOK
<1>4. DOMAIN users \subseteq UserIds /\ \A i \in DOMAIN users : users[i] \in UserRows
  BY DEF BackendInv, TablesOK, IsTable
<1>5. \A i \in DOMAIN users : Show(i, users[i]) \in Shown
  BY <1>4 DEF Show, Shown, UserRows
<1>6. list \in AccountLists
  BY <1>4, <1>5 DEF AccountLists
<1>7. req[w].op = "listUsers"
  BY <1>1, NamedForRequest DEF BackendInv
<1>8. Says(list) \in Answered /\ Tells(req[w], Says(list), granted')
  BY <1>6, <1>7 DEF Says, Answered, Tells
<1> QED
  BY <1>1, <1>2, <1>3, <1>8, AnswerKeeps DEF BackendInv

LEMMA OtherTablesKeeps ==
    ASSUME BackendInv, NEW w \in Workers, OtherTables(w)
    PROVE  TablesOK' /\ WorkersOK' /\ (\A v \in Workers : Working(v)') /\ Undisturbed'
<1>1. pc[w] \in {"list", "change"} /\ Answers(w, Says(None)) /\ UNCHANGED <<users, nextUser, tokens, granted>>
  BY DEF OtherTables, tables
<1>2. Grows
  BY <1>1 DEF Grows, BackendInv, TablesOK
<1>3. TablesOK'
  BY <1>1 DEF BackendInv, TablesOK
<1>4. req[w].op \in {"list", "change"}
  BY <1>1, NamedForRequest DEF BackendInv
<1> QED
  BY <1>1, <1>2, <1>3, <1>4, NothingTold, AnswerKeeps DEF BackendInv

LEMMA CreateUserKeeps ==
    ASSUME BackendInv, NEW w \in Workers, CreateUser(w)
    PROVE  TablesOK' /\ WorkersOK' /\ (\A v \in Workers : Working(v)') /\ Undisturbed'
<1> DEFINE r == req[w]
           id == IF r.id = 0 THEN nextUser ELSE r.id
           free == id \in UserIds \ DOMAIN users /\ LoginFree(r.login, id)
           row == [login |-> r.login, pass |-> r.pass, adm |-> r.adm]
<1>1. /\ pc[w] = "createUser" /\ Answers(w, Says(None)) /\ tokens' = tokens
      /\ users' = IF free THEN Put(users, id, row) ELSE users
      /\ nextUser' = IF free /\ id >= nextUser THEN id + 1 ELSE nextUser
      /\ granted' = granted \cup (IF free /\ r.adm THEN {id} ELSE {})
  BY DEF CreateUser
<1>2. /\ r.op = "createUser" /\ r.id \in UserIds \cup {0} /\ r.login \in Logins
      /\ r.pass \in Passwords \ {Empty} /\ r.adm \in BOOLEAN
  BY <1>1, NamedForRequest, RequestTypes DEF BackendInv, Working
<1>3. nextUser \in 1 .. MaxUser + 1 /\ MaxUser \in Nat
  BY AccountsAssumption DEF BackendInv, TablesOK
<1> HIDE DEF id, row
<1>4. TablesOK' /\ Grows
  <2>1. CASE ~free
    BY <1>1, <1>3, <2>1 DEF BackendInv, TablesOK, Grows
  <2>2. CASE free
    <3>1. id \in UserIds /\ row \in UserRows
      BY <1>2, <2>2 DEF row, UserRows
    <3>2. id \in 1 .. MaxUser /\ nextUser' \in 1 .. MaxUser + 1 /\ id < nextUser' /\ nextUser <= nextUser'
      BY <1>1, <1>3, <2>2, <3>1 DEF UserIds
    <3>3. granted \subseteq granted' /\ granted' \subseteq UserIds /\ (row.adm => id \in granted')
      BY <1>1, <2>2, <3>1 DEF row, BackendInv, TablesOK
    <3>4. /\ IsTable(Put(users, id, row), UserIds, UserRows)
          /\ \A i \in DOMAIN Put(users, id, row) :
                i < nextUser' /\ (Put(users, id, row)[i].adm => i \in granted')
      BY <3>1, <3>2, <3>3, PutKeeps DEF BackendInv
    <3>5. users' = Put(users, id, row)
      BY <1>1, <2>2
    <3> QED
      BY <1>1, <1>3, <3>2, <3>3, <3>4, <3>5 DEF BackendInv, TablesOK, Grows
  <2> QED
    BY <2>1, <2>2
<1> QED
  BY <1>1, <1>2, <1>4, NothingTold, AnswerKeeps DEF BackendInv

LEMMA ReadUserKeeps ==
    ASSUME BackendInv, NEW w \in Workers, ReadUser(w)
    PROVE  TablesOK' /\ WorkersOK' /\ (\A v \in Workers : Working(v)') /\ Undisturbed'
<1> DEFINE r == req[w]
           row == Merged(cal[w], r, users[r.id])
<1>1. pc[w] = "readUser"
  BY DEF ReadUser
<1>2. r \in AllRequests /\ r.op = "updateUser" /\ cal[w] \in Claims
  BY <1>1, EditOfUser DEF BackendInv
<1>3. CASE r.id \in DOMAIN users
  <2>1. GoesOn(w, "saveUser", row)
    BY <1>3 DEF ReadUser
  <2>2. users[r.id] \in UserRows /\ (users[r.id].adm => r.id \in granted) /\ r.id < nextUser
    BY <1>3 DEF BackendInv, TablesOK, IsTable
  <2>3. row \in UserRows /\ Merits(row, cal[w], r, granted)
    BY <1>2, <2>2, MergedRow
  <2>4. TablesOK' /\ WorkersOK' /\ \A v \in Workers : Working(v)'
    BY <1>1, <2>1, <2>2, <2>3, GoesOnKeeps
  <2>5. Undisturbed'
    <3> HIDE DEF row
    <3>1. /\ pc' = [pc EXCEPT ![w] = "saveUser"] /\ loc' = [loc EXCEPT ![w] = row]
          /\ UNCHANGED <<users, cal, req, before>>
      BY <2>1 DEF GoesOn, tables
    <3>2. Busy' = Busy
      BY <1>1, <3>1 DEF Busy, BackendInv, WorkersOK
    <3> QED
      BY <1>3, <3>1, <3>2 DEF Undisturbed, BackendInv, WorkersOK, row, Merged
  <2> QED
    BY <2>4, <2>5
<1>4. CASE r.id \notin DOMAIN users
  <2>1. Answers(w, Refused) /\ UNCHANGED <<users, nextUser, tokens, granted>>
    BY <1>4 DEF ReadUser, Refuses, tables
  <2>2. TablesOK'
    BY <2>1 DEF BackendInv, TablesOK
  <2> QED
    BY <1>1, <2>1, <2>2, RefusalKeeps
<1> QED
  BY <1>3, <1>4

\* A row written under the id of the request, or not, and the answer either way.
LEMMA WritesKeeps ==
    ASSUME BackendInv, NEW w \in Workers, pc[w] \in {"saveUser", "upsertUser"}, Writes(w, loc[w])
    PROVE  TablesOK' /\ WorkersOK' /\ (\A v \in Workers : Working(v)') /\ Undisturbed'
<1> DEFINE id == req[w].id
           row == loc[w]
           free == LoginFree(row.login, id)
<1>1. /\ users' = IF free THEN Put(users, id, row) ELSE users
      /\ granted' = granted \cup (IF free /\ cal[w].adm /\ req[w].adm THEN {id} ELSE {})
      /\ Answers(w, Says(Show(id, row))) /\ UNCHANGED <<nextUser, tokens>>
  BY DEF Writes
<1>2. req[w].op = "updateUser" /\ id \in UserIds /\ cal[w] \in Claims /\ req[w].adm \in BOOLEAN
  BY EditOfUser, RequestTypes DEF BackendInv
<1>3. row \in UserRows /\ id < nextUser /\ (row.adm => id \in granted \/ (cal[w].adm /\ req[w].adm))
  BY DEF BackendInv, Working, Merits
<1>4. nextUser \in Int
  BY DEF BackendInv, TablesOK
<1> HIDE DEF id, row, free
<1>5. Grows /\ granted' \subseteq UserIds
  BY <1>1, <1>2, <1>4 DEF Grows, BackendInv, TablesOK
<1>6. TablesOK'
  <2>1. CASE free
    <3>1. /\ row.adm => id \in granted'
          /\ granted \subseteq granted' /\ nextUser <= nextUser /\ TablesOK
      BY <1>1, <1>3, <1>4, <2>1 DEF BackendInv
    <3>2. /\ IsTable(Put(users, id, row), UserIds, UserRows)
          /\ \A i \in DOMAIN Put(users, id, row) :
                i < nextUser /\ (Put(users, id, row)[i].adm => i \in granted')
      BY <1>2, <1>3, <1>4, <3>1, PutKeeps
    <3> QED
      BY <1>1, <1>5, <2>1, <3>2 DEF BackendInv, TablesOK, Grows
  <2>2. CASE ~free
    BY <1>1, <2>2 DEF BackendInv, TablesOK
  <2> QED
    BY <2>1, <2>2
<1>7. Show(id, row) \in Shown
  BY <1>2, <1>3 DEF Show, Shown, UserRows
<1>8. Says(Show(id, row)) \in Answered
  BY <1>7 DEF Says, Answered
<1>9. Tells(req[w], Says(Show(id, row)), granted')
  BY <1>2, <1>3, <1>5, <1>7 DEF Tells, Says, Show, Grows, id
<1> QED
  BY <1>1, <1>5, <1>6, <1>8, <1>9, AnswerKeeps DEF BackendInv

LEMMA SaveUserKeeps ==
    ASSUME BackendInv, NEW w \in Workers, SaveUser(w)
    PROVE  TablesOK' /\ WorkersOK' /\ (\A v \in Workers : Working(v)') /\ Undisturbed'
<1>1. pc[w] = "saveUser"
  BY DEF SaveUser
<1>2. CASE req[w].id \in DOMAIN users
  BY <1>1, <1>2, WritesKeeps DEF SaveUser
<1>3. CASE req[w].id \notin DOMAIN users
  <2>1. GoesOn(w, "upsertUser", loc[w])
    BY <1>3 DEF SaveUser
  <2>2. loc[w] \in UserRows /\ req[w].id < nextUser /\ Merits(loc[w], cal[w], req[w], granted)
    BY <1>1 DEF BackendInv, Working
  <2>3. TablesOK' /\ WorkersOK' /\ \A v \in Workers : Working(v)'
    BY <1>1, <2>1, <2>2, GoesOnKeeps
  <2>4. before = None /\ before' = before
    BY <1>1, <1>3, <2>1 DEF BackendInv, Undisturbed, GoesOn
  <2> QED
    BY <2>3, <2>4 DEF Undisturbed
<1> QED
  BY <1>2, <1>3

LEMMA DeleteUserKeeps ==
    ASSUME BackendInv, NEW w \in Workers, DeleteUser(w)
    PROVE  TablesOK' /\ WorkersOK' /\ (\A v \in Workers : Working(v)') /\ Undisturbed'
<1>1. /\ pc[w] = "deleteUser" /\ users' = Without(users, req[w].id)
      /\ Answers(w, Says(None)) /\ UNCHANGED <<nextUser, tokens, granted>>
  BY DEF DeleteUser
<1>2. TablesOK'
  BY <1>1 DEF BackendInv, TablesOK, IsTable, Without
<1>3. Grows
  BY <1>1 DEF Grows, BackendInv, TablesOK
<1>4. req[w].op = "deleteUser"
  BY <1>1, NamedForRequest DEF BackendInv
<1> QED
  BY <1>1, <1>2, <1>3, <1>4, NothingTold, AnswerKeeps DEF BackendInv

LEMMA StatementKeeps ==
    ASSUME BackendInv, NEW w \in Workers, Statement(w)
    PROVE  BackendInv'
<1>1. faults' \in 0 .. MaxFaults
  BY DEF Statement, BackendInv
<1>2. ASSUME UpsertUser(w)
      PROVE  TablesOK' /\ WorkersOK' /\ (\A v \in Workers : Working(v)') /\ Undisturbed'
  BY <1>2, WritesKeeps DEF UpsertUser
<1> QED
  BY <1>1, <1>2, LoginKeeps, ListUsersKeeps, OtherTablesKeeps, CreateUserKeeps, ReadUserKeeps,
     SaveUserKeeps, DeleteUserKeeps DEF Statement, BackendInv

-----------------------------------------------------------------------------
\* Faults, and the beginning and end of a request

LEMMA FaultCounted ==
    ASSUME faults \in 0 .. MaxFaults, Fault
    PROVE  faults' \in 0 .. MaxFaults
BY AccountsAssumption DEF Fault

LEMMA StatementFailsKeeps ==
    ASSUME BackendInv, NEW w \in Workers, StatementFails(w)
    PROVE  BackendInv'
<1> DEFINE a == FailureAnswer(w)
<1>1. /\ pc[w] \notin {"idle", "answered"} /\ Answers(w, a) /\ Fault
      /\ UNCHANGED <<users, nextUser, tokens, granted>>
  BY DEF StatementFails, tables
<1>2. TablesOK'
  BY <1>1 DEF BackendInv, TablesOK
<1>3. Grows
  BY <1>1 DEF Grows, BackendInv, TablesOK
<1>4. pc[w] \in PCs /\ Working(w)
  BY DEF BackendInv, WorkersOK
<1>5. a \in Answered /\ Tells(req[w], a, granted)
  <2>1. CASE pc[w] \in {"login", "readUser"}
    BY <2>1, NothingTold DEF FailureAnswer
  <2>2. CASE pc[w] = "listUsers"
    <3>1. a = Says(<< >>)
      BY <2>2 DEF FailureAnswer
    <3>2. << >> \in AccountLists
      <4>1. << >> \in [{} -> Shown]
        OBVIOUS
      <4> QED
        BY <4>1 DEF AccountLists
    <3>3. req[w].op = "listUsers"
      BY <1>4, <2>2, NamedForRequest
    <3> QED
      BY <3>1, <3>2, <3>3 DEF Says, Answered, Tells
  <2>3. CASE pc[w] \in {"saveUser", "upsertUser"}
    <3> DEFINE s == Show(req[w].id, loc[w])
    <3>1. a = Says(s)
      BY <2>3 DEF FailureAnswer
    <3>2. req[w].op = "updateUser" /\ req[w].id \in UserIds
      BY <1>4, <2>3, EditOfUser
    <3>3. loc[w] \in UserRows /\ (loc[w].adm => req[w].id \in granted \/ req[w].adm)
      BY <1>4, <2>3 DEF Working, Merits
    <3>4. s \in Shown
      BY <3>2, <3>3 DEF Show, Shown, UserRows
    <3> QED
      BY <3>1, <3>2, <3>3, <3>4 DEF Says, Answered, Tells, Show
  <2>4. CASE pc[w] \in {"list", "change", "createUser", "deleteUser"}
    <3>1. a = Says(None) /\ req[w].op \notin {"login", "listUsers", "updateUser"}
      BY <1>4, <2>4, NamedForRequest DEF FailureAnswer
    <3> QED
      BY <3>1, NothingTold
  <2> QED
    BY <1>1, <1>4, <2>1, <2>2, <2>3, <2>4 DEF PCs
<1>6. Tells(req[w], a, granted')
  BY <1>1, <1>5
<1> HIDE DEF a
<1>7. WorkersOK' /\ (\A v \in Workers : Working(v)') /\ Undisturbed'
  BY <1>1, <1>3, <1>5, <1>6, AnswerKeeps DEF BackendInv
<1> QED
  BY <1>1, <1>2, <1>7, FaultCounted DEF BackendInv

LEMMA RestartKeeps ==
    ASSUME BackendInv, Restart
    PROVE  BackendInv'
<1>1. /\ pc' = [w \in Workers |-> IF pc[w] = "idle" THEN "idle" ELSE "answered"]
      /\ answer' = [w \in Workers |->
                      IF pc[w] \in {"idle", "answered"} THEN answer[w] ELSE Refused]
      /\ loc' = [w \in Workers |-> None] /\ before' = None
      /\ UNCHANGED <<tokens, cal, req>> /\ Fault
  BY DEF Restart
<1>2. TablesOK' /\ Grows
  <2>1. CASE users = <<>> /\ nextUser < MaxUser
    <3>1. users' = Seeded(nextUser) /\ nextUser' = nextUser + 2 /\ granted' = granted \cup {nextUser}
      BY <2>1 DEF Restart
    <3>2. nextUser \in UserIds /\ nextUser + 1 \in UserIds /\ nextUser \in Int
      BY <2>1, AccountsAssumption DEF BackendInv, TablesOK, UserIds
    <3>3. /\ IsTable(users', UserIds, UserRows) /\ DOMAIN users' = {nextUser, nextUser + 1}
          /\ \A i \in DOMAIN users' : users'[i].adm => i = nextUser
      BY <3>1, <3>2, SeededTable
    <3>4. nextUser' \in 1 .. MaxUser + 1
      BY <3>1, <3>2, AccountsAssumption DEF UserIds
    <3>5. Grows /\ granted' \subseteq UserIds
      BY <3>1, <3>2 DEF BackendInv, TablesOK, Grows
    <3>6. \A i \in DOMAIN users' : i < nextUser' /\ (users'[i].adm => i \in granted')
      BY <3>1, <3>2, <3>3
    <3> QED
      BY <1>1, <3>3, <3>4, <3>5, <3>6 DEF BackendInv, TablesOK, Grows
  <2>2. CASE ~(users = <<>> /\ nextUser < MaxUser)
    <3>1. UNCHANGED <<users, nextUser, granted>>
      BY <2>2 DEF Restart
    <3> QED
      BY <1>1, <3>1 DEF BackendInv, TablesOK, Grows
  <2> QED
    BY <2>1, <2>2
<1>3. Refused \in Answered /\ Refused # None
  BY NothingTold, NotNone
<1>4. WorkersOK'
  BY <1>1, <1>3 DEF BackendInv, WorkersOK, PCs
<1>5. ASSUME NEW w \in Workers PROVE Working(w)'
  <2>1. Working(w)
    BY DEF BackendInv
  <2>2. CASE pc[w] = "idle"
    BY <1>1, <2>1, <2>2 DEF Working
  <2>3. CASE pc[w] # "idle"
    <3>1. pc'[w] = "answered" /\ req'[w] = req[w] /\ req[w] \in AllRequests
      BY <1>1, <2>1, <2>3 DEF Working
    <3>2. Tells(req[w], answer'[w], granted')
      <4>1. CASE pc[w] = "answered"
        BY <1>1, <1>2, <2>1, <4>1 DEF Working, Tells, Grows
      <4>2. CASE pc[w] # "answered"
        BY <1>1, <2>3, <4>2, NothingTold
      <4> QED
        BY <4>1, <4>2
    <3> QED
      BY <3>1, <3>2 DEF Working, Tells
  <2> QED
    BY <2>2, <2>3
<1>6. Undisturbed'
  BY <1>1 DEF Undisturbed
<1> QED
  BY <1>1, <1>2, <1>4, <1>5, <1>6, FaultCounted DEF BackendInv

LEMMA ExpireKeeps ==
    ASSUME BackendInv, Expire
    PROVE  BackendInv'
<1>1. UNCHANGED <<users, nextUser, pc, cal, req, loc, answer, granted, before>> /\ Fault
  BY DEF Expire, serving
<1>2. tokens' \subseteq tokens
  BY DEF Expire
<1>3. TablesOK' /\ Grows
  BY <1>1, <1>2 DEF BackendInv, TablesOK, Grows
<1>4. WorkersOK' /\ Undisturbed'
  BY <1>1 DEF BackendInv, WorkersOK, Undisturbed, Busy, Merged
<1>5. \A w \in Workers : Working(w)'
  BY <1>1, <1>3, WorkingStays DEF BackendInv
<1> QED
  BY <1>1, <1>3, <1>4, <1>5, FaultCounted DEF BackendInv

\* A request is accepted with the claims its sender had, and no token is forged.
LEMMA AcceptKeeps ==
    ASSUME BackendInv, NEW w \in Workers, NEW c \in Claims \cup {None}, NEW r \in AllRequests,
           r.op # "login" => c \in Claims, Accept(w, c, r)
    PROVE  BackendInv'
<1> DEFINE label == CASE ~Permitted(c, r) -> "answered"
                      [] Permitted(c, r) /\ r.op = "updateUser" -> "readUser"
                      [] OTHER -> r.op
           a == IF Permitted(c, r) THEN None ELSE Refused
<1>1. /\ pc[w] = "idle" /\ pc' = [pc EXCEPT ![w] = label] /\ cal' = [cal EXCEPT ![w] = c]
      /\ req' = [req EXCEPT ![w] = r] /\ answer' = [answer EXCEPT ![w] = a]
      /\ before' = IF \A v \in Workers : pc[v] \in {"idle", "answered"} THEN users ELSE None
      /\ UNCHANGED <<users, nextUser, tokens, loc, faults, granted>>
  BY DEF Accept, tables
<1>2. TablesOK' /\ Grows
  BY <1>1 DEF BackendInv, TablesOK, Grows
<1>3. r.op \in {"login", "listUsers", "list", "change", "createUser", "updateUser", "deleteUser"}
  BY RequestTypes
<1>4. /\ Permitted(c, r) => label \in Label(r) /\ label \in PCs \ {"idle", "answered", "saveUser", "upsertUser"}
      /\ ~Permitted(c, r) => label = "answered"
  BY <1>3 DEF Label, PCs
<1>5. Permitted(c, r) /\ label = "createUser" => r.pass # Empty
  BY <1>3 DEF Permitted
<1>6. label \in PCs /\ label \notin {"idle", "saveUser", "upsertUser"} /\ (label = "answered" <=> ~Permitted(c, r))
  BY <1>4 DEF PCs
<1>7. /\ a \in Answered \cup {None}
      /\ a # None <=> ~Permitted(c, r)
      /\ ~Permitted(c, r) => Tells(r, a, granted)
  BY NothingTold, NotNone
<1> HIDE DEF label, a
<1>8. loc[w] = None /\ WorkersOK
  BY <1>1 DEF BackendInv, WorkersOK
<1>9. WorkersOK'
  BY <1>1, <1>6, <1>7, <1>8 DEF WorkersOK
<1>10. ASSUME NEW v \in Workers \ {w} PROVE Working(v)'
  <2>1. /\ pc'[v] = pc[v] /\ cal'[v] = cal[v] /\ req'[v] = req[v] /\ loc'[v] = loc[v]
        /\ answer'[v] = answer[v]
    BY <1>1, <1>8 DEF WorkersOK
  <2> QED
    BY <1>2, <2>1, WorkingStays DEF BackendInv
<1>11. Working(w)'
  <2>1. pc'[w] = label /\ req'[w] = r /\ cal'[w] = c /\ answer'[w] = a
    BY <1>1, <1>8 DEF WorkersOK
  <2> QED
    BY <1>1, <1>4, <1>5, <1>6, <1>7, <2>1 DEF Working, Label, Tells
<1>12. Undisturbed'
  <2>1. CASE \A v \in Workers : pc[v] \in {"idle", "answered"}
    <3>1. \A v \in Workers : v # w => pc'[v] = pc[v]
      BY <1>1, <1>8 DEF WorkersOK
    <3>2. Busy' \subseteq {w}
      BY <2>1, <3>1 DEF Busy
    <3>3. pc'[w] \notin {"saveUser", "upsertUser"}
      BY <1>1, <1>6, <1>8 DEF WorkersOK
    <3> QED
      BY <1>1, <2>1, <3>1, <3>2, <3>3 DEF Undisturbed
  <2>2. CASE ~\A v \in Workers : pc[v] \in {"idle", "answered"}
    BY <1>1, <2>2 DEF Undisturbed
  <2> QED
    BY <2>1, <2>2
<1> QED
  BY <1>1, <1>2, <1>9, <1>10, <1>11, <1>12 DEF BackendInv

LEMMA FreesKeeps ==
    ASSUME BackendInv, NEW w \in Workers, pc[w] = "answered", Frees(w),
           UNCHANGED <<tables, faults, granted, before>>
    PROVE  BackendInv'
<1>1. /\ pc' = [pc EXCEPT ![w] = "idle"] /\ cal' = [cal EXCEPT ![w] = None]
      /\ req' = [req EXCEPT ![w] = None] /\ loc' = [loc EXCEPT ![w] = None]
      /\ answer' = [answer EXCEPT ![w] = None]
      /\ UNCHANGED <<users, nextUser, tokens, faults, granted, before>>
  BY DEF Frees, tables
<1>2. TablesOK' /\ Grows
  BY <1>1 DEF BackendInv, TablesOK, Grows
<1>3. WorkersOK
  BY DEF BackendInv
<1>4. WorkersOK'
  BY <1>1, <1>3 DEF WorkersOK, PCs
<1>5. \A v \in Workers \ {w} :
        /\ pc'[v] = pc[v] /\ cal'[v] = cal[v] /\ req'[v] = req[v] /\ loc'[v] = loc[v]
        /\ answer'[v] = answer[v]
  BY <1>1, <1>3 DEF WorkersOK
<1>6. \A v \in Workers \ {w} : Working(v)'
  BY <1>2, <1>5, WorkingStays DEF BackendInv
<1>7. pc'[w] = "idle"
  BY <1>1, <1>3 DEF WorkersOK
<1>8. Working(w)'
  BY <1>7 DEF Working
<1>9. Undisturbed'
  <2>1. Busy' = Busy
    BY <1>5, <1>7 DEF Busy
  <2> QED
    BY <1>1, <1>5, <1>7, <2>1 DEF Undisturbed, BackendInv, Merged
<1> QED
  BY <1>1, <1>2, <1>4, <1>6, <1>8, <1>9 DEF BackendInv

LEMMA BackendStays ==
    ASSUME BackendInv, UNCHANGED accounts
    PROVE  BackendInv'
<1>1. UNCHANGED <<users, nextUser, tokens, pc, cal, req, loc, answer, faults, granted, before>>
  BY DEF accounts, tables, serving
<1>2. TablesOK' /\ Grows /\ WorkersOK' /\ Undisturbed'
  BY <1>1 DEF BackendInv, TablesOK, Grows, WorkersOK, Undisturbed, Busy, Merged
<1>3. \A w \in Workers : Working(w)'
  BY <1>1, <1>2, WorkingStays DEF BackendInv
<1> QED
  BY <1>1, <1>2, <1>3 DEF BackendInv

LEMMA BackendStarts == AccountsInit => BackendInv
<1> SUFFICES ASSUME AccountsInit PROVE BackendInv
  OBVIOUS
<1>1. 1 \in UserIds /\ 1 + 1 \in UserIds /\ 3 \in 1 .. MaxUser + 1
  BY AccountsAssumption DEF UserIds
<1>2. TablesOK
  <2>1. /\ IsTable(Seeded(1), UserIds, UserRows) /\ DOMAIN Seeded(1) = {1, 1 + 1}
        /\ \A i \in DOMAIN Seeded(1) : Seeded(1)[i].adm => i = 1
    BY <1>1, SeededTable
  <2> QED
    BY <1>1, <2>1 DEF TablesOK, AccountsInit, Claims
<1>3. WorkersOK /\ Undisturbed /\ \A w \in Workers : Working(w)
  BY DEF AccountsInit, WorkersOK, Undisturbed, Working, PCs
<1> QED
  BY <1>2, <1>3, AccountsAssumption DEF BackendInv, AccountsInit

-----------------------------------------------------------------------------
\* A lone request

\* Only the statements of a handler, and the seed of an empty table, change accounts;
\* and a statement is of the worker whose turn it is.
LEMMA StatementMovesOne ==
    ASSUME BackendInv, NEW v \in Workers, Statement(v), NEW w \in Workers \ {v}
    PROVE  pc'[w] = pc[w]
<1>1. \E label : pc' = [pc EXCEPT ![v] = label]
  BY DEF Statement, Login, ListUsers, OtherTables, CreateUser, ReadUser, SaveUser, UpsertUser,
         DeleteUser, Writes, Refuses, GoesOn, Answers
<1> QED
  BY <1>1 DEF BackendInv, WorkersOK

LEMMA LoneStatement ==
    ASSUME BackendInv, NEW w \in Workers, Statement(w), before # None,
           pc'[w] = "answered", users' # users
    PROVE  users' = Made(w, before)
<1> DEFINE r == req[w]
<1>1. users = before /\ pc[w] # "upsertUser"
  BY DEF BackendInv, Undisturbed
<1>2. Working(w)
  BY DEF BackendInv
<1>3. CASE CreateUser(w)
  <2>1. r.op = "createUser"
    BY <1>2, <1>3, NamedForRequest DEF CreateUser
  <2>2. users' = IF (IF r.id = 0 THEN nextUser ELSE r.id) \in UserIds \ DOMAIN users
                    /\ LoginFree(r.login, IF r.id = 0 THEN nextUser ELSE r.id)
                 THEN Put(users, IF r.id = 0 THEN nextUser ELSE r.id,
                          [login |-> r.login, pass |-> r.pass, adm |-> r.adm])
                 ELSE users
    BY <1>3 DEF CreateUser
  <2> QED
    BY <1>1, <2>1, <2>2 DEF Made, LoginFree
<1>4. CASE SaveUser(w)
  <2>1. /\ r.op = "updateUser" /\ r.id \in DOMAIN users
        /\ loc[w] = Merged(cal[w], r, users[r.id])
    BY <1>2, <1>4, EditOfUser DEF SaveUser, BackendInv, Undisturbed
  <2>2. users' = IF LoginFree(loc[w].login, r.id) THEN Put(users, r.id, loc[w]) ELSE users
    BY <1>4, <2>1 DEF SaveUser, Writes
  <2>3. loc[w].login = r.login
    BY <2>1 DEF Merged
  <2> QED
    BY <1>1, <2>1, <2>2, <2>3 DEF Made, LoginFree, Merged
<1>5. CASE DeleteUser(w)
  <2>1. r.op = "deleteUser" /\ users' = Without(users, r.id)
    BY <1>2, <1>5, NamedForRequest DEF DeleteUser
  <2> QED
    BY <1>1, <2>1 DEF Made
<1>6. ASSUME Login(w) \/ ListUsers(w) \/ OtherTables(w) \/ ReadUser(w) PROVE FALSE
  BY <1>6 DEF Login, ListUsers, OtherTables, ReadUser, Refuses, GoesOn, tables
<1>7. ~UpsertUser(w)
  BY <1>1 DEF UpsertUser
<1> QED
  BY <1>3, <1>4, <1>5, <1>6, <1>7 DEF Statement

LEMMA LoneStep ==
    ASSUME BackendInv, [Next]_vars, NEW w \in Workers, before \notin {None, <<>>},
           pc[w] # "answered", pc'[w] = "answered", users' # users
    PROVE  users' = Made(w, before)
<1>1. CASE \E v \in Workers : Serve(v)
  <2>1. PICK v \in Workers : Statement(v)
    BY <1>1 DEF Serve
  <2>2. v = w
    BY <2>1, StatementMovesOne
  <2> QED
    BY <2>1, <2>2, LoneStatement
<1>2. ASSUME RestartBackend PROVE FALSE
  <2>1. users = before
    BY DEF BackendInv, Undisturbed
  <2> QED
    BY <1>2, <2>1 DEF RestartBackend, Restart
<1>3. ASSUME ~(\E v \in Workers : Serve(v)), ~RestartBackend PROVE users' = users
  <2>1. CASE LogIn \/ LogOut \/ ChangeTab \/ EditAccount \/ CreateAccount \/ RemoveAccount
             \/ ChangeOther \/ Reload
    BY <2>1 DEF LogIn, LogOut, ChangeTab, EditAccount, CreateAccount, RemoveAccount, ChangeOther,
                Reload, Acts, accounts, tables
  <2>2. CASE \E v \in Workers : Connect(v) \/ OtherClient(v)
    BY <2>2 DEF Connect, OtherClient, Accept, tables
  <2>3. CASE \E v \in Workers : Deliver(v) \/ Lose(v) \/ Leave(v)
    BY <2>3 DEF Deliver, Lose, Leave, Settles, tables
  <2>4. CASE \E v \in Workers : StatementBreaks(v)
    BY <2>4 DEF StatementBreaks, StatementFails, tables
  <2>5. CASE ExpireToken
    BY <2>5 DEF ExpireToken, Expire
  <2>6. CASE UNCHANGED vars
    BY <2>6 DEF vars, accounts, tables
  <2> QED
    BY <1>3, <2>1, <2>2, <2>3, <2>4, <2>5, <2>6 DEF Next, Moves
<1> QED
  BY <1>1, <1>2, <1>3

-----------------------------------------------------------------------------
\* The types of the page

LEMMA SeqMono ==
    ASSUME NEW S, NEW T, S \subseteq T, NEW s \in Seq(S)
    PROVE  s \in Seq(T)
OBVIOUS

LEMMA GoodCallsGrow ==
    ASSUME NEW g, NEW h, g \subseteq h
    PROVE  GoodCalls(g) \subseteq GoodCalls(h)
BY DEF GoodCalls

\* The lists a page asks for are requests it may make.
LEMMA ListsAreCalls ==
    ASSUME NEW c \in Claims \cup {None}, NEW t \in Tabs, NEW a \in Shown \cup {None},
           c # None => a # None, NEW g
    PROVE  /\ LoadCalls(c, t, a) \in Seq(GoodCalls(g))
           /\ c = None \/ t = "profile" => LoadCalls(c, t, a) = <<>>
           /\ c # None /\ t # "profile" =>
                /\ LoadCalls(c, t, a) = <<Call(c, ListRequest(t), t, a)>>
                /\ IsList(ListRequest(t))
<1>1. t # "profile" => ListRequest(t) \in AllRequests /\ IsList(ListRequest(t))
  BY DEF ListRequest, AllRequests, IsList, Tabs
<1>2. c # None /\ t # "profile" => Call(c, ListRequest(t), t, a) \in GoodCalls(g)
  BY <1>1 DEF Call, GoodCalls, IsList
<1> QED
  BY <1>1, <1>2 DEF LoadCalls

LEMMA HomeIsAllowed ==
    HomeTab \in Tabs /\ HomeTab # "profile" /\ HomeTab # "users" /\ \A a : Allowed(a, HomeTab)
BY ConsoleAssumption DEF Tabs, Allowed

\* Whatever the page becomes, it stays a page.
LEMMA BecomesKeeps ==
    ASSUME PageOK, granted \subseteq granted',
           NEW c \in Claims \cup {None}, NEW a \in Shown \cup {None}, c # None => a # None,
           a # None /\ a.adm => a.id \in granted',
           NEW t \in Tabs, NEW first \in Seq(GoodCalls(granted')),
           NEW r, r.what \in Tabs \cup {None}, DOMAIN r.shown \subseteq UserIds,
           Becomes(c, a, t, first, r)
    PROVE  PageOK'
<1> DEFINE there == IF Allowed(a, t) THEN t ELSE HomeTab
           load(x) == IF a = None THEN <<>> ELSE LoadCalls(c, x, a)
           lists == first \o load(t) \o (IF there = t THEN <<>> ELSE load(there))
           G == GoodCalls(granted')
<1>1. /\ token' = c /\ me' = a /\ tab' = there
      /\ rows' = IF there = "profile" /\ c # None /\ a # None THEN Profile(a) ELSE r
      /\ loading' = (loading \/ lists # <<>>)
      /\ queue' = queue \o lists
  BY DEF Becomes
<1>2. there \in Tabs /\ Allowed(a, there)
  BY HomeIsAllowed
<1>3. load(t) \in Seq(G) /\ load(there) \in Seq(G)
  BY <1>2, ListsAreCalls
<1>4. queue \in Seq(G)
  BY GoodCallsGrow, SeqMono DEF PageOK
<1> HIDE DEF there, load, G
<1>5. lists \in Seq(G) /\ queue \o lists \in Seq(G)
  BY <1>3, <1>4 DEF G
<1> HIDE DEF lists
<1>6. rows'.what \in Tabs \cup {None} /\ DOMAIN rows'.shown \subseteq UserIds
  <2>1. ASSUME a # None PROVE Profile(a).what \in Tabs /\ DOMAIN Profile(a).shown \subseteq UserIds
    BY <2>1 DEF Profile, Tabs, Shown
  <2> QED
    BY <1>1, <2>1
<1>7. queue' \in Seq(GoodCalls(granted)')
  BY <1>1, <1>5 DEF G, GoodCalls
<1> QED
  BY <1>1, <1>2, <1>6, <1>7 DEF PageOK, Allowed

LEMMA PageStays ==
    ASSUME PageOK, UNCHANGED page, granted \subseteq granted'
    PROVE  PageOK'
<1>1. queue \in Seq(GoodCalls(granted'))
  BY GoodCallsGrow, SeqMono DEF PageOK
<1>2. Allowed(me, tab)' <=> Allowed(me, tab)
  BY DEF page, Allowed
<1>3. GoodCalls(granted)' = GoodCalls(granted')
  BY DEF GoodCalls
<1> QED
  BY <1>1, <1>2, <1>3 DEF PageOK, page

-----------------------------------------------------------------------------
\* The types of what is in flight

\* What is in flight stays so while its worker goes on with the same request.
LEMMA CallsStay ==
    ASSUME CallsOK, UNCHANGED call, granted \subseteq granted',
           \A w \in Pending : pc'[w] # "idle" /\ cal'[w] = cal[w] /\ req'[w] = req[w]
    PROVE  CallsOK' /\ Pending' = Pending /\ \A w \in Pending : Asked(w)' = Asked(w)
<1>1. Pending' = Pending
  BY DEF Pending
<1>2. \A w \in Pending : Asked(w)' = Asked(w)
  BY DEF Asked, Call
<1>3. \A w \in Pending : Asked(w) \in GoodCalls(granted')
  BY GoodCallsGrow DEF CallsOK
<1>4. GoodCalls(granted)' = GoodCalls(granted')
  BY DEF GoodCalls
<1> QED
  BY <1>1, <1>2, <1>3, <1>4 DEF CallsOK

\* The user sends a request that is no list.
LEMMA SendsKeeps ==
    ASSUME PageOK, UNCHANGED granted, NEW r,
           Call(token, r, tab, me) \in GoodCalls(granted), Sends(r)
    PROVE  PageOK'
<1>1. queue' = Append(queue, Call(token, r, tab, me)) /\ UNCHANGED <<token, me, tab, rows, loading>>
  BY DEF Sends
<1>2. queue' \in Seq(GoodCalls(granted)')
  BY <1>1 DEF PageOK, GoodCalls
<1> QED
  BY <1>1, <1>2 DEF PageOK, Allowed

LEMMA ActsKeepsBackend ==
    ASSUME IInv, Acts
    PROVE  BackendInv' /\ CallsOK' /\ UNCHANGED granted
<1>1. UNCHANGED accounts /\ UNCHANGED call /\ UNCHANGED <<pc, cal, req, granted>>
  BY DEF Acts, accounts, serving
<1> QED
  BY <1>1, BackendStays, CallsStay DEF IInv, PageInv, CallsOK

LEMMA EditIsCall ==
    ASSUME PageOK, token # None, NEW r \in AllRequests, r.op # "login",
           r.op = "updateUser" /\ me.id = r.id /\ r.adm => r.id \in granted
    PROVE  Call(token, r, tab, me) \in GoodCalls(granted)
BY DEF PageOK, Call, GoodCalls

\* Whatever the user does, the page and the backend are as they should be.
UserActs ==
    LogIn \/ LogOut \/ ChangeTab \/ EditAccount \/ CreateAccount \/ RemoveAccount \/ ChangeOther

LEMMA UserKeeps ==
    ASSUME IInv, UserActs
    PROVE  BackendInv' /\ CallsOK' /\ PageOK'
<1>1. PageOK
  BY DEF IInv, PageInv
<1>2. CASE LogIn
  <2>1. PICK l \in Logins, p \in Passwords \ {Empty} : Sends([op |-> "login", login |-> l, pass |-> p])
    BY <1>2 DEF LogIn
  <2>2. token = None /\ UNCHANGED accounts /\ UNCHANGED call /\ UNCHANGED <<pc, cal, req, granted>>
    BY <1>2 DEF LogIn, accounts, serving
  <2>3. [op |-> "login", login |-> l, pass |-> p] \in AllRequests
    BY DEF AllRequests
  <2>4. Call(token, [op |-> "login", login |-> l, pass |-> p], tab, me) \in GoodCalls(granted)
    BY <1>1, <2>2, <2>3 DEF PageOK, Call, GoodCalls
  <2> QED
    BY <1>1, <2>1, <2>2, <2>4, SendsKeeps, BackendStays, CallsStay DEF IInv, PageInv, CallsOK
<1>3. CASE LogOut
  <2>1. Becomes(None, None, HomeTab, <<>>, NoRows) /\ BackendInv' /\ CallsOK' /\ UNCHANGED granted
    BY <1>3, ActsKeepsBackend DEF LogOut
  <2>2. NoRows.what \in Tabs \cup {None} /\ DOMAIN NoRows.shown \subseteq UserIds
    BY DEF NoRows
  <2>3. << >> \in Seq(GoodCalls(granted'))
    OBVIOUS
  <2> QED
    BY <1>1, <2>1, <2>2, <2>3, HomeIsAllowed, BecomesKeeps
<1>4. CASE ChangeTab
  <2>1. BackendInv' /\ CallsOK' /\ UNCHANGED granted /\ token # None
    BY <1>4, ActsKeepsBackend DEF ChangeTab
  <2>2. PICK t \in Tabs : Becomes(token, me, t, <<>>, rows)
    BY <1>4 DEF ChangeTab
  <2>3. << >> \in Seq(GoodCalls(granted'))
    OBVIOUS
  <2>4. /\ token \in Claims \cup {None} /\ me \in Shown \cup {None} /\ (token # None => me # None)
        /\ me # None /\ me.adm => me.id \in granted'
        /\ rows.what \in Tabs \cup {None} /\ DOMAIN rows.shown \subseteq UserIds
    BY <1>1, <2>1 DEF PageOK
  <2> QED
    BY <1>1, <2>1, <2>2, <2>3, <2>4, BecomesKeeps
<1>5. CASE EditAccount
  <2>1. BackendInv' /\ CallsOK' /\ UNCHANGED granted /\ token # None
    BY <1>5, ActsKeepsBackend DEF EditAccount
  <2>2. PICK e \in Edits, a \in BOOLEAN, i \in UserIds :
            /\ \/ tab = "users" /\ ~loading /\ i \in DOMAIN rows.shown
               \/ tab = "profile" /\ me # None /\ i = me.id /\ a = me.adm
            /\ Sends([op |-> "updateUser", id |-> i, login |-> e.login, pass |-> e.pass, adm |-> a])
    BY <1>5 DEF EditAccount
  <2> DEFINE r == [op |-> "updateUser", id |-> i, login |-> e.login, pass |-> e.pass, adm |-> a]
  <2>3. e.login \in Logins /\ e.pass \in Passwords
    BY ConsoleAssumption
  <2>4. r \in AllRequests
    BY <2>3 DEF AllRequests
  <2>5. tab = "users" => me # None /\ me.adm
    BY <1>1 DEF PageOK, Allowed
  <2>6. me.id = i /\ a => i \in granted
    BY <1>1, <2>1, <2>2, <2>5 DEF PageOK
  <2>7. Call(token, r, tab, me) \in GoodCalls(granted)
    BY <1>1, <2>1, <2>4, <2>6, EditIsCall
  <2> QED
    BY <1>1, <2>1, <2>2, <2>7, SendsKeeps
<1>6. CASE CreateAccount
  <2>1. BackendInv' /\ CallsOK' /\ UNCHANGED granted /\ token # None
    BY <1>6, ActsKeepsBackend DEF CreateAccount
  <2>2. PICK e \in Edits, a \in BOOLEAN :
            Sends([op |-> "createUser", id |-> 0, login |-> e.login, pass |-> e.pass, adm |-> a])
    BY <1>6 DEF CreateAccount
  <2>3. e.login \in Logins /\ e.pass \in Passwords
    BY ConsoleAssumption
  <2>4. [op |-> "createUser", id |-> 0, login |-> e.login, pass |-> e.pass, adm |-> a] \in AllRequests
    BY <2>3 DEF AllRequests
  <2> QED
    BY <1>1, <2>1, <2>2, <2>4, EditIsCall, SendsKeeps
<1>7. CASE RemoveAccount
  <2>1. BackendInv' /\ CallsOK' /\ UNCHANGED granted /\ token # None
    BY <1>7, ActsKeepsBackend DEF RemoveAccount
  <2>2. PICK i \in DOMAIN rows.shown : Sends([op |-> "deleteUser", id |-> i])
    BY <1>7 DEF RemoveAccount
  <2>3. [op |-> "deleteUser", id |-> i] \in AllRequests
    BY <1>1 DEF AllRequests, PageOK
  <2> QED
    BY <1>1, <2>1, <2>2, <2>3, EditIsCall, SendsKeeps
<1>8. CASE ChangeOther
  <2>1. BackendInv' /\ CallsOK' /\ UNCHANGED granted /\ token # None
    BY <1>8, ActsKeepsBackend DEF ChangeOther
  <2>2. tab \in Lists /\ Sends([op |-> "change", what |-> tab])
    BY <1>8 DEF ChangeOther
  <2>3. [op |-> "change", what |-> tab] \in AllRequests
    BY <2>2 DEF AllRequests
  <2> QED
    BY <1>1, <2>1, <2>2, <2>3, EditIsCall, SendsKeeps
<1> QED
  BY <1>2, <1>3, <1>4, <1>5, <1>6, <1>7, <1>8 DEF UserActs

LEMMA ReloadKeeps ==
    ASSUME IInv, Reload
    PROVE  BackendInv' /\ CallsOK' /\ PageOK'
<1> DEFINE lists == IF me = None THEN <<>> ELSE LoadCalls(token, HomeTab, me)
<1>1. /\ tab' = HomeTab /\ rows' = NoRows /\ loading' = (lists # <<>>) /\ queue' = lists
      /\ call' = [w \in Workers |-> None] /\ UNCHANGED <<token, me, granted>> /\ UNCHANGED accounts
  BY DEF Reload, accounts
<1>2. PageOK
  BY DEF IInv, PageInv
<1>3. lists \in Seq(GoodCalls(granted))
  BY <1>2, HomeIsAllowed, ListsAreCalls DEF PageOK
<1> HIDE DEF lists
<1>4. PageOK'
  <2>1. rows'.what \in Tabs \cup {None} /\ DOMAIN rows'.shown \subseteq UserIds
    BY <1>1 DEF NoRows
  <2>2. queue' \in Seq(GoodCalls(granted)')
    BY <1>1, <1>3 DEF GoodCalls
  <2>3. tab' \in Tabs /\ Allowed(me, tab)'
    BY <1>1, HomeIsAllowed DEF Allowed
  <2> QED
    BY <1>1, <1>2, <2>1, <2>2, <2>3 DEF PageOK
<1>5. Pending' = {} /\ CallsOK'
  BY <1>1 DEF CallsOK, Pending
<1> QED
  BY <1>1, <1>4, <1>5, BackendStays DEF IInv

\* What the backend does by itself takes no request from the page.
BackendActs ==
    \/ \E w \in Workers : Serve(w) \/ StatementBreaks(w) \/ OtherClient(w) \/ Leave(w)
    \/ RestartBackend \/ ExpireToken

LEMMA ServingGoesOn ==
    ASSUME BackendInv, \/ \E w \in Workers : Statement(w) \/ StatementFails(w)
                       \/ Restart \/ Expire
    PROVE  /\ UNCHANGED <<cal, req>> /\ granted \subseteq granted'
           /\ \A w \in Workers : pc[w] # "idle" => pc'[w] # "idle"
<1>1. ASSUME NEW w \in Workers, NEW a, Answers(w, a)
      PROVE  UNCHANGED <<cal, req>> /\ \A v \in Workers : pc[v] # "idle" => pc'[v] # "idle"
  BY <1>1 DEF Answers, BackendInv, WorkersOK
<1>2. ASSUME NEW w \in Workers, NEW label \in {"saveUser", "upsertUser"}, NEW row, GoesOn(w, label, row)
      PROVE  /\ UNCHANGED <<cal, req, granted>>
             /\ \A v \in Workers : pc[v] # "idle" => pc'[v] # "idle"
  BY <1>2 DEF GoesOn, BackendInv, WorkersOK
<1>3. ASSUME NEW w \in Workers, Statement(w)
      PROVE  \/ \E a : Answers(w, a)
             \/ \E label \in {"saveUser", "upsertUser"} : \E row : GoesOn(w, label, row)
  BY <1>3 DEF Statement, Login, ListUsers, OtherTables, CreateUser, ReadUser, SaveUser, UpsertUser,
              DeleteUser, Writes, Refuses
<1>4. ASSUME NEW w \in Workers, Statement(w) PROVE granted \subseteq granted'
  BY <1>4 DEF Statement, Login, ListUsers, OtherTables, CreateUser, ReadUser, SaveUser, UpsertUser,
              DeleteUser, Writes, Refuses, GoesOn
<1>5. CASE \E w \in Workers : Statement(w)
  BY <1>1, <1>2, <1>3, <1>4, <1>5
<1>6. CASE \E w \in Workers : StatementFails(w)
  BY <1>1, <1>6 DEF StatementFails
<1>7. CASE Restart
  BY <1>7 DEF Restart
<1>8. CASE Expire
  BY <1>8 DEF Expire, serving
<1> QED
  BY <1>5, <1>6, <1>7, <1>8

LEMMA BackendActsKeep ==
    ASSUME IInv, BackendActs
    PROVE  /\ BackendInv' /\ CallsOK' /\ PageOK'
           /\ UNCHANGED <<page, call, waits, inOrder>>
           /\ \A w \in Pending : cal'[w] = cal[w] /\ req'[w] = req[w]
<1>1. BackendInv /\ PageOK /\ CallsOK /\ WorkersOK /\ TablesOK
  BY DEF IInv, PageInv, BackendInv
<1>2. CASE \/ \E w \in Workers : Serve(w) \/ StatementBreaks(w)
           \/ RestartBackend \/ ExpireToken
  <2>1. UNCHANGED <<page, call, waits, inOrder>>
    BY <1>2 DEF Serve, StatementBreaks, RestartBackend, ExpireToken
  <2>2. \/ \E w \in Workers : Statement(w) \/ StatementFails(w)
        \/ Restart \/ Expire
    BY <1>2 DEF Serve, StatementBreaks, RestartBackend, ExpireToken
  <2>3. BackendInv'
    BY <1>1, <2>2, StatementKeeps, StatementFailsKeeps, RestartKeeps, ExpireKeeps
  <2>4. /\ UNCHANGED <<cal, req>> /\ granted \subseteq granted'
        /\ \A w \in Workers : pc[w] # "idle" => pc'[w] # "idle"
    BY <1>1, <2>2, ServingGoesOn
  <2>5. \A w \in Pending : pc[w] # "idle" /\ w \in Workers
    BY <1>1 DEF CallsOK, Pending
  <2> QED
    BY <1>1, <2>1, <2>3, <2>4, <2>5, CallsStay, PageStays
<1>3. CASE \E w \in Workers : OtherClient(w)
  <2>1. PICK w \in Workers : OtherClient(w)
    BY <1>3
  <2>2. PICK c \in tokens, r \in OtherRequests : Accept(w, c, r)
    BY <2>1 DEF OtherClient
  <2>3. c \in Claims /\ r \in AllRequests
    BY <1>1, ConsoleAssumption DEF TablesOK
  <2>4. BackendInv'
    BY <1>1, <2>2, <2>3, AcceptKeeps
  <2>5. w \notin Pending /\ UNCHANGED <<page, call, waits, inOrder, granted>>
    BY <2>1, <2>2 DEF OtherClient, Accept, Pending
  <2>6. \A v \in Pending : pc'[v] = pc[v] /\ cal'[v] = cal[v] /\ req'[v] = req[v]
    BY <1>1, <2>2, <2>5 DEF Accept, WorkersOK, Pending
  <2> QED
    BY <1>1, <2>4, <2>5, <2>6, CallsStay, PageStays DEF CallsOK
<1>4. CASE \E w \in Workers : Leave(w)
  <2>1. PICK w \in Workers : Leave(w)
    BY <1>4
  <2>2. BackendInv'
    BY <1>1, <2>1, FreesKeeps DEF Leave
  <2>3. w \notin Pending /\ UNCHANGED <<page, call, waits, inOrder, granted>>
    BY <2>1 DEF Leave, Pending
  <2>4. \A v \in Pending : pc'[v] = pc[v] /\ cal'[v] = cal[v] /\ req'[v] = req[v]
    BY <1>1, <2>1, <2>3 DEF Leave, Frees, WorkersOK, Pending
  <2> QED
    BY <1>1, <2>2, <2>3, <2>4, CallsStay, PageStays DEF CallsOK
<1> QED
  BY <1>2, <1>3, <1>4 DEF BackendActs

\* The browser sends the request it has had longest.
LEMMA ConnectKeeps ==
    ASSUME IInv, NEW w \in Workers, Connect(w)
    PROVE  /\ BackendInv' /\ CallsOK' /\ PageOK'
           /\ w \notin Pending /\ Pending' = Pending \cup {w}
           /\ queue # <<>> /\ queue' = Tail(queue) /\ Asked(w)' = Head(queue)
           /\ req'[w] = Head(queue).req
           /\ call'[w].after = PendingLists
           /\ \A v \in Pending : call'[v] = call[v] /\ cal'[v] = cal[v] /\ req'[v] = req[v]
           /\ UNCHANGED <<token, me, tab, rows, waits, inOrder>>
<1> DEFINE k == Head(queue)
           h == [tab |-> k.tab, me |-> k.me, after |-> PendingLists]
<1>1. BackendInv /\ PageOK /\ CallsOK /\ WorkersOK
  BY DEF IInv, PageInv, BackendInv
<1>2. /\ queue # <<>> /\ pc[w] = "idle" /\ call[w] = None /\ Accept(w, k.cal, k.req)
      /\ call' = [call EXCEPT ![w] = h] /\ queue' = Tail(queue)
      /\ UNCHANGED <<token, me, tab, rows, loading, bounds, waits, inOrder>>
  BY DEF Connect, PendingLists
<1>3. k \in GoodCalls(granted) /\ queue' \in Seq(GoodCalls(granted))
  BY <1>1, <1>2 DEF PageOK
<1> HIDE DEF k
<1>4. /\ k.cal \in Claims \cup {None} /\ k.req \in AllRequests /\ k.tab \in Tabs
      /\ k.me \in Shown \cup {None} /\ (k.req.op # "login" => k.cal \in Claims)
      /\ k = Call(k.cal, k.req, k.tab, k.me)
  BY <1>3 DEF GoodCalls, Call
<1>5. BackendInv'
  BY <1>1, <1>2, <1>4, AcceptKeeps
<1>6. /\ pc'[w] # "idle" /\ cal'[w] = k.cal /\ req'[w] = k.req /\ granted' = granted
      /\ \A v \in Workers \ {w} : pc'[v] = pc[v] /\ cal'[v] = cal[v] /\ req'[v] = req[v]
  <2>1. k.req.op # "idle"
    BY <1>4, RequestTypes
  <2> QED
    BY <1>1, <1>2, <2>1 DEF Accept, WorkersOK
<1>7. PendingLists \subseteq Pending /\ Pending \subseteq Workers \ {w}
  BY <1>2 DEF PendingLists, Pending
<1>8. h \in Handlers /\ h # None
  BY <1>4, <1>7, NotNone DEF Handlers
<1> HIDE DEF h
<1>9. /\ Pending' = Pending \cup {w} /\ call'[w] = h
      /\ \A v \in Workers \ {w} : call'[v] = call[v]
      /\ call' \in [Workers -> Handlers \cup {None}]
  BY <1>1, <1>2, <1>8 DEF CallsOK, Pending
<1>10. Asked(w)' = k
  BY <1>4, <1>6, <1>9 DEF Asked, Call, h
<1>11. \A v \in Pending : Asked(v)' = Asked(v)
  BY <1>6, <1>7, <1>9 DEF Asked, Call
<1>12. CallsOK'
  <2>1. GoodCalls(granted)' = GoodCalls(granted)
    BY <1>6 DEF GoodCalls
  <2>2. \A v \in Pending' : pc'[v] # "idle" /\ Asked(v)' \in GoodCalls(granted)
    BY <1>1, <1>3, <1>6, <1>7, <1>9, <1>10, <1>11 DEF CallsOK
  <2>3. h.after = PendingLists
    BY DEF h
  <2>4. \A v \in Pending' : call'[v].after \subseteq Pending' \ {v}
    BY <1>1, <1>7, <1>9, <2>3 DEF CallsOK
  <2> QED
    BY <1>9, <2>1, <2>2, <2>4 DEF CallsOK
<1>13. PageOK'
  BY <1>1, <1>2, <1>3, <1>6 DEF PageOK, Allowed, GoodCalls
<1> QED
  BY <1>2, <1>5, <1>6, <1>7, <1>9, <1>10, <1>12, <1>13 DEF k, h

\* A request that is over leaves the others in flight as they were.
Settled(w) ==
    /\ w \in Pending /\ Pending' = Pending \ {w} /\ UNCHANGED waits
    /\ inOrder' = (inOrder /\ (IsList(req[w]) => call[w].after = {}))
    /\ \A v \in Pending \ {w} :
         /\ Asked(v)' = Asked(v) /\ req'[v] = req[v] /\ cal'[v] = cal[v]
         /\ call'[v].after = call[v].after \ {w} /\ call'[v].tab = call[v].tab

LEMMA SettlesKeeps ==
    ASSUME CallsOK, NEW w \in Pending, Settles(w),
           \A v \in Workers \ {w} : pc'[v] = pc[v] /\ cal'[v] = cal[v] /\ req'[v] = req[v]
    PROVE  CallsOK' /\ Settled(w) /\ UNCHANGED granted
<1>1. /\ call' = [v \in Workers |->
                    CASE v = w -> None
                      [] v # w /\ call[v] # None -> [call[v] EXCEPT !.after = @ \ {w}]
                      [] OTHER -> None]
      /\ inOrder' = (inOrder /\ (IsList(req[w]) => call[w].after = {}))
      /\ UNCHANGED <<granted, waits>>
  BY DEF Settles
<1>2. \A v \in Pending : v \in Workers /\ call[v] \in Handlers
  BY DEF CallsOK, Pending
<1>3. ASSUME NEW v \in Pending \ {w}
      PROVE  /\ call'[v] \in Handlers /\ call'[v].after = call[v].after \ {w}
             /\ call'[v].tab = call[v].tab /\ call'[v].me = call[v].me
  <2>1. call[v] \in Handlers /\ v \in Workers /\ v # w /\ call[v] # None
    BY <1>2 DEF Pending
  <2>2. call'[v] = [call[v] EXCEPT !.after = @ \ {w}]
    BY <1>1, <2>1
  <2> QED
    BY <2>1, <2>2 DEF Handlers
<1>4. \A v \in Workers : v \notin Pending \ {w} => call'[v] = None
  BY <1>1 DEF Pending
<1>5. Pending' = Pending \ {w}
  BY <1>2, <1>3, <1>4, NotNone DEF Pending
<1>6. call' \in [Workers -> Handlers \cup {None}]
  BY <1>1, <1>3, <1>4
<1>7. \A v \in Pending \ {w} : Asked(v)' = Asked(v) /\ pc'[v] = pc[v]
  BY <1>2, <1>3 DEF Asked, Call
<1>8. GoodCalls(granted)' = GoodCalls(granted)
  BY <1>1 DEF GoodCalls
<1>9. \A v \in Pending' :
        /\ pc'[v] # "idle" /\ call'[v].after \subseteq Pending' \ {v}
        /\ Asked(v)' \in GoodCalls(granted)
  BY <1>3, <1>5, <1>7 DEF CallsOK
<1> QED
  BY <1>1, <1>2, <1>3, <1>5, <1>6, <1>7, <1>8, <1>9 DEF CallsOK, Settled

LEMMA ErrorKeeps ==
    ASSUME PageOK, UNCHANGED granted, NEW w \in Workers, GetsError(w)
    PROVE  PageOK'
<1>1. CASE IsList(req[w])
  <2>1. rows' = NoRows /\ loading' = FALSE /\ UNCHANGED <<token, me, tab, queue>>
    BY <1>1 DEF GetsError
  <2>2. rows'.what \in Tabs \cup {None} /\ DOMAIN rows'.shown \subseteq UserIds
    BY <2>1 DEF NoRows
  <2> QED
    BY <2>1, <2>2 DEF PageOK, Allowed, GoodCalls
<1>2. CASE ~IsList(req[w])
  BY <1>2, PageStays DEF GetsError
<1> QED
  BY <1>1, <1>2

\* What an answer makes of the page, when it tells what is so.
LEMMA TakesKeeps ==
    ASSUME PageOK, CallsOK, UNCHANGED granted, NEW w \in Pending,
           NEW a \in Answered, a.ok, Tells(req[w], a, granted), Takes(w, a.val)
    PROVE  PageOK'
<1> DEFINE r == req[w]
           k == call[w]
           val == a.val
<1>1. /\ cal[w] \in Claims \cup {None} /\ r \in AllRequests /\ k.tab \in Tabs
      /\ k.me \in Shown \cup {None}
      /\ r.op # "login" => cal[w] # None /\ k.me # None
      /\ r.op = "updateUser" /\ k.me.id = r.id /\ r.adm => r.id \in granted
  BY DEF CallsOK, Asked, Call, GoodCalls
<1>2. /\ rows.what \in Tabs \cup {None} /\ DOMAIN rows.shown \subseteq UserIds
      /\ tab \in Tabs /\ token \in Claims \cup {None} /\ granted \subseteq granted'
  BY DEF PageOK
<1>3. CASE r.op = "login"
  <2>1. Becomes([id |-> val.id, adm |-> val.adm], val, tab, <<>>, rows)
    <3>1. TakesLogin(val)
      BY <1>3 DEF Takes, IsList
    <3> QED
      BY <3>1 DEF TakesLogin
  <2>2. val \in Shown /\ (val.adm => val.id \in granted')
    BY <1>3 DEF Tells
  <2>3. [id |-> val.id, adm |-> val.adm] \in Claims /\ val # None
    BY <2>2, NotNone DEF Shown, Claims
  <2>4. << >> \in Seq(GoodCalls(granted'))
    OBVIOUS
  <2> HIDE DEF val
  <2> QED
    BY <1>2, <2>1, <2>2, <2>3, <2>4, BecomesKeeps
<1>4. CASE IsList(r)
  <2>1. /\ rows' = [what |-> k.tab, by |-> cal[w].id,
                    shown |-> IF r.op = "listUsers" THEN val ELSE <<>>]
        /\ loading' = FALSE /\ UNCHANGED <<token, me, tab, queue>>
    BY <1>4 DEF Takes, TakesList, IsList
  <2>2. DOMAIN rows'.shown \subseteq UserIds
    <3>1. r.op = "listUsers" => DOMAIN val \subseteq UserIds
      BY DEF Tells, AccountLists
    <3> QED
      BY <2>1, <3>1
  <2> QED
    BY <1>1, <2>1, <2>2 DEF PageOK, Allowed, GoodCalls
<1>5. CASE r.op # "login" /\ ~IsList(r)
  <2> DEFINE lists == LoadCalls(cal[w], k.tab, k.me)
             t == IF k.tab = "profile" THEN Profile(k.me) ELSE rows
  <2>1. /\ r.op = "updateUser" /\ k.me # None /\ k.me.id = r.id => Becomes(token, val, tab, lists, t)
        /\ ~(r.op = "updateUser" /\ k.me # None /\ k.me.id = r.id) =>
              /\ queue' = queue \o lists /\ loading' = (loading \/ lists # <<>>)
              /\ rows' = t /\ UNCHANGED <<token, me, tab>>
    BY <1>5 DEF Takes, TakesChange
  <2>2. lists \in Seq(GoodCalls(granted')) /\ k.me \in Shown
    BY <1>1, <1>5, ListsAreCalls
  <2>3. t.what \in Tabs \cup {None} /\ DOMAIN t.shown \subseteq UserIds
    <3>1. Profile(k.me).what \in Tabs /\ DOMAIN Profile(k.me).shown \subseteq UserIds
      BY <2>2 DEF Profile, Tabs, Shown
    <3> QED
      BY <1>2, <3>1
  <2> HIDE DEF lists, t
  <2>4. CASE r.op = "updateUser" /\ k.me # None /\ k.me.id = r.id
    <3>1. val \in Shown /\ (val.adm => val.id \in granted')
      BY <1>1, <2>4 DEF Tells
    <3>2. val # None
      BY <3>1, NotNone
    <3> HIDE DEF val
    <3> QED
      BY <1>2, <2>1, <2>2, <2>3, <2>4, <3>1, <3>2, BecomesKeeps
  <2>5. CASE ~(r.op = "updateUser" /\ k.me # None /\ k.me.id = r.id)
    <3>1. queue' \in Seq(GoodCalls(granted)')
      <4> DEFINE G == GoodCalls(granted)
      <4>1. queue \in Seq(G) /\ lists \in Seq(G)
        BY <2>2 DEF PageOK
      <4>2. GoodCalls(granted)' = G
        BY DEF GoodCalls
      <4> HIDE DEF G
      <4>3. queue \o lists \in Seq(G)
        BY <4>1
      <4>4. queue' = queue \o lists
        BY <2>1, <2>5
      <4> QED
        BY <4>2, <4>3, <4>4
    <3> QED
      BY <2>1, <2>3, <2>5, <3>1 DEF PageOK, Allowed
  <2> QED
    BY <2>4, <2>5
<1> QED
  BY <1>3, <1>4, <1>5

LEMMA DeliverKeeps ==
    ASSUME IInv, NEW w \in Workers, Deliver(w)
    PROVE  /\ BackendInv' /\ CallsOK' /\ PageOK' /\ Settled(w)
           /\ \/ GetsError(w)
              \/ Takes(w, answer[w].val) /\ answer[w].ok /\ Tells(req[w], answer[w], granted)
<1>1. BackendInv /\ PageOK /\ CallsOK /\ WorkersOK
  BY DEF IInv, PageInv, BackendInv
<1>2. /\ pc[w] = "answered" /\ w \in Pending /\ Frees(w) /\ UNCHANGED faults /\ Settles(w)
      /\ IF answer[w].ok THEN Takes(w, answer[w].val) ELSE GetsError(w)
  BY DEF Deliver, Pending
<1>3. UNCHANGED <<tables, faults, granted, before>>
  BY <1>2 DEF Settles
<1>4. BackendInv'
  BY <1>1, <1>2, <1>3, FreesKeeps
<1>5. \A v \in Workers \ {w} : pc'[v] = pc[v] /\ cal'[v] = cal[v] /\ req'[v] = req[v]
  BY <1>1, <1>2 DEF Frees, WorkersOK
<1>6. CallsOK' /\ Settled(w)
  BY <1>1, <1>2, <1>5, SettlesKeeps
<1>7. answer[w] \in Answered /\ Tells(req[w], answer[w], granted)
  BY <1>1, <1>2 DEF WorkersOK, BackendInv, Working
<1>8. PageOK'
  BY <1>1, <1>2, <1>3, <1>7, ErrorKeeps, TakesKeeps
<1> QED
  BY <1>2, <1>4, <1>6, <1>7, <1>8

LEMMA LoseKeeps ==
    ASSUME IInv, NEW w \in Workers, Lose(w)
    PROVE  /\ BackendInv' /\ CallsOK' /\ PageOK' /\ Settled(w)
           /\ GetsError(w)
<1>1. BackendInv /\ PageOK /\ CallsOK /\ WorkersOK
  BY DEF IInv, PageInv, BackendInv
<1>2. /\ w \in Pending /\ Fault /\ GetsError(w) /\ Settles(w)
      /\ UNCHANGED <<users, nextUser, tokens, pc, cal, req, loc, answer, granted, before>>
  BY DEF Lose, Pending, Settles, serving, tables
<1>3. CallsOK' /\ Settled(w)
  BY <1>1, <1>2, SettlesKeeps
<1>4. BackendInv'
  <2>1. TablesOK' /\ Grows /\ WorkersOK' /\ Undisturbed'
    BY <1>1, <1>2 DEF BackendInv, TablesOK, Grows, WorkersOK, Undisturbed, Busy, Merged
  <2>2. \A v \in Workers : Working(v)'
    BY <1>1, <1>2, <2>1, WorkingStays DEF BackendInv
  <2> QED
    BY <1>1, <1>2, <2>1, <2>2, FaultCounted DEF BackendInv
<1>5. PageOK'
  BY <1>1, <1>2, ErrorKeeps
<1> QED
  BY <1>2, <1>3, <1>4, <1>5

-----------------------------------------------------------------------------
\* The patient user

\* Before anything else is in flight, what the page becomes shows its tab, or asks for
\* its list last.
LEMMA BecomesUnder ==
    ASSUME queue = <<>>, NEW c \in Claims, NEW a \in Shown, a.id = c.id, NEW t \in Tabs,
           NEW g, NEW first \in Seq(GoodCalls(g)), t = "profile" => first = <<>>,
           \A i \in 1 .. Len(first) : IsList(first[i].req),
           NEW r, Becomes(c, a, t, first, r), Pending' = {}
    PROVE  token' = c /\ me' = a /\ Sole' /\ Latest' /\ Matches'
<1> DEFINE there == IF Allowed(a, t) THEN t ELSE HomeTab
           G == GoodCalls(g)
<1>1. c # None /\ a # None
  BY NotNone
<1>2. /\ token' = c /\ me' = a /\ tab' = there
      /\ rows' = IF there = "profile" THEN Profile(a) ELSE r
      /\ queue' = queue \o (first \o LoadCalls(c, t, a)
                              \o (IF there = t THEN <<>> ELSE LoadCalls(c, there, a)))
  BY <1>1 DEF Becomes
<1>3. there \in Tabs /\ (t = "profile" /\ there # t => there # "profile")
  BY HomeIsAllowed
<1>4. PendingLists' = {}
  BY DEF PendingLists
<1>5. ASSUME there = "profile" PROVE t = "profile"
  BY <1>5, HomeIsAllowed
<1>8. ASSUME NEW x \in Tabs
      PROVE  /\ LoadCalls(c, x, a) \in Seq(G)
             /\ x = "profile" => LoadCalls(c, x, a) = <<>>
             /\ x # "profile" => /\ LoadCalls(c, x, a) = <<Call(c, ListRequest(x), x, a)>>
                                /\ IsList(ListRequest(x))
  BY <1>1, ListsAreCalls
<1> HIDE DEF there, G
<1>6. CASE there = "profile"
  <2>1. LoadCalls(c, t, a) = <<>> /\ first = <<>> /\ there = t
    BY <1>5, <1>6, <1>8
  <2>2. queue' = <<>>
    BY <1>2, <2>1
  <2>3. rows'.what = tab' /\ rows'.by = token'.id
    BY <1>2, <1>6 DEF Profile
  <2>4. Len(queue') = 0
    BY <2>2
  <2>5. Sole'
    BY <2>4 DEF Sole
  <2>6. Latest'
    BY <1>4, <2>2 DEF Latest
  <2>7. Matches'
    BY <2>3 DEF Matches
  <2> QED
    BY <1>2, <2>5, <2>6, <2>7
<1>7. CASE there # "profile"
  <2> DEFINE k == Call(c, ListRequest(there), there, a)
             before1 == first \o (IF there = t THEN <<>> ELSE LoadCalls(c, t, a))
  <2>1. LoadCalls(c, there, a) = <<k>> /\ IsList(k.req) /\ k.tab = there /\ k.cal = c
    BY <1>3, <1>7, <1>8 DEF Call
  <2> HIDE DEF k
  <2>2. k \in G
    <3>1. <<k>> \in Seq(G)
      BY <1>3, <1>8, <2>1
    <3>2. Len(<<k>>) = 1 /\ <<k>>[1] = k
      OBVIOUS
    <3> HIDE DEF k
    <3> QED
      BY <3>1, <3>2, ElementOfSeq
  <2> DEFINE l == LoadCalls(c, t, a)
  <2>3. l \in Seq(G) /\ \A i \in 1 .. Len(l) : IsList(l[i].req)
    <3>1. \/ l = <<>>
          \/ l = <<Call(c, ListRequest(t), t, a)>> /\ IsList(ListRequest(t))
      BY <1>8
    <3> QED
      BY <1>8, <3>1 DEF Call
  <2>7. there = t => l = <<k>>
    BY <2>1
  <2>8. before1 = first \o (IF there = t THEN <<>> ELSE l)
    OBVIOUS
  <2>9. first \in Seq(G)
    BY DEF G
  <2> HIDE DEF l
  <2>10. queue' = <<>> \o (first \o l \o (IF there = t THEN <<>> ELSE <<k>>))
    BY <1>2, <2>1 DEF l
  <2> HIDE DEF before1
  <2>4. before1 \in Seq(G) /\ \A i \in 1 .. Len(before1) : IsList(before1[i].req)
    <3>1. CASE there = t
      <4>1. before1 = first
        BY <2>8, <2>9, <3>1
      <4> QED
        BY <2>9, <4>1
    <3>2. CASE there # t
      <4>1. before1 = first \o l
        BY <2>8, <3>2
      <4>2. before1 \in Seq(G) /\ Len(before1) = Len(first) + Len(l)
        BY <2>3, <2>9, <4>1
      <4>3. ASSUME NEW i \in 1 .. Len(before1) PROVE IsList(before1[i].req)
        <5>1. CASE i <= Len(first)
          <6>1. i \in 1 .. Len(first) /\ before1[i] = first[i]
            BY <2>3, <2>9, <4>1, <4>2, <5>1
          <6> QED
            BY <6>1
        <5>2. CASE i > Len(first)
          <6>1. i - Len(first) \in 1 .. Len(l) /\ before1[i] = l[i - Len(first)]
            BY <2>3, <2>9, <4>1, <4>2, <5>2
          <6> QED
            BY <2>3, <6>1
        <5> QED
          BY <2>3, <2>9, <4>2, <5>1, <5>2
      <4> QED
        BY <4>2, <4>3
    <3> QED
      BY <3>1, <3>2
  <2>5. queue' = Append(before1, k)
    <3>1. CASE there = t
      <4>1. queue' = <<>> \o (first \o <<k>> \o <<>>) /\ before1 = first \o <<>>
        BY <2>7, <2>8, <2>10, <3>1
      <4> QED
        BY <2>2, <2>9, <4>1
    <3>2. CASE there # t
      <4>1. queue' = <<>> \o (first \o l \o <<k>>) /\ before1 = first \o l
        BY <2>8, <2>10, <3>2
      <4> QED
        BY <2>2, <2>3, <2>9, <4>1
    <3> QED
      BY <3>1, <3>2
  <2>6. /\ queue' # <<>> /\ queue'[Len(queue')] = k /\ Len(queue') >= 1
        /\ \A i \in 1 .. Len(queue') : IsList(queue'[i].req)
    BY <2>1, <2>2, <2>4, <2>5
  <2> QED
    BY <1>2, <1>4, <2>1, <2>6 DEF Sole, Latest, Matches
<1> QED
  BY <1>2, <1>6, <1>7

\* A user who waits sends a request that is no list.
LEMMA SendsAlone ==
    ASSUME Quiet, NEW r, ~IsList(r), Sends(r), UNCHANGED call
    PROVE  Sole' /\ Latest' /\ (Matches => Matches')
<1> DEFINE k == Call(token, r, tab, me)
<1>1. queue = <<>> /\ Pending = {} /\ queue' = <<k>> /\ UNCHANGED <<token, me, tab, rows>>
  BY DEF Quiet, Sends
<1>2. k.req = r /\ k.cal = token /\ k.tab = tab /\ k.me = me
  BY DEF Call
<1> HIDE DEF k
<1>3. Pending' = {} /\ PendingLists = {} /\ PendingLists' = {}
  BY <1>1 DEF Pending, PendingLists
<1>4. Len(queue') = 1 /\ queue'[1] = k /\ Len(queue) = 0
  BY <1>1
<1>5. Sole'
  BY <1>1, <1>2, <1>3, <1>4 DEF Sole, Mine
<1>6. Latest'
  BY <1>2, <1>3, <1>4 DEF Latest
<1>7. Matches => Matches'
  BY <1>1, <1>3, <1>4 DEF Matches
<1> QED
  BY <1>5, <1>6, <1>7

LEMMA UserWaits ==
    ASSUME IInv, UserActs
    PROVE  PatientInv'
<1> SUFFICES ASSUME waits'
             PROVE  /\ token' = None <=> me' = None
                    /\ token' # None => me'.id = token'.id
                    /\ Sole'
                    /\ inOrder' /\ token' # None => Latest' /\ Matches'
  BY DEF PatientInv
<1>1. PageOK /\ PatientInv
  BY DEF IInv, PageInv
<1>2. CASE LogIn
  <2>1. PICK l \in Logins, p \in Passwords : Sends([op |-> "login", login |-> l, pass |-> p])
    BY <1>2 DEF LogIn
  <2>2. token = None /\ me = None /\ Quiet /\ UNCHANGED call
    BY <1>2 DEF LogIn
  <2>3. ~IsList([op |-> "login", login |-> l, pass |-> p])
    BY DEF IsList
  <2> QED
    BY <2>1, <2>2, <2>3, SendsAlone DEF Sends
<1>3. ASSUME Acts /\ Waiting PROVE waits /\ Quiet /\ UNCHANGED <<call, inOrder>>
  BY <1>3 DEF Acts, Waiting
<1>4. CASE LogOut
  <2>1. Becomes(None, None, HomeTab, <<>>, NoRows) /\ Quiet /\ UNCHANGED call
    BY <1>3, <1>4 DEF LogOut
  <2>2. token' = None /\ me' = None /\ queue' = <<>>
    BY <2>1, HomeIsAllowed DEF Becomes, Quiet
  <2>3. Pending' = {}
    BY <2>1 DEF Quiet, Pending
  <2> QED
    BY <2>2, <2>3 DEF Sole
<1>5. CASE ChangeTab
  <2>1. token # None /\ waits /\ Quiet /\ UNCHANGED call
    BY <1>3, <1>5 DEF ChangeTab
  <2>2. PICK t \in Tabs : Becomes(token, me, t, <<>>, rows)
    BY <1>5 DEF ChangeTab
  <2>3. Pending' = {} /\ queue = <<>>
    BY <2>1 DEF Quiet, Pending
  <2>4. token \in Claims /\ me \in Shown /\ me.id = token.id
    BY <1>1, <2>1 DEF PageOK, PatientInv
  <2>5. << >> \in Seq(GoodCalls(granted)) /\ \A i \in 1 .. Len(<< >>) : IsList(<< >>[i].req)
    OBVIOUS
  <2>6. token' = token /\ me' = me /\ Sole' /\ Latest' /\ Matches'
    BY <2>2, <2>3, <2>4, <2>5, BecomesUnder
  <2> QED
    BY <2>1, <2>4, <2>6, NotNone
<1>6. ASSUME NEW r, ~IsList(r), Sends(r), Acts, Waiting, token # None
      PROVE  /\ token' = None <=> me' = None
             /\ token' # None => me'.id = token'.id
             /\ Sole'
             /\ inOrder' /\ token' # None => Latest' /\ Matches'
  <2>1. waits /\ Quiet /\ UNCHANGED <<call, inOrder, token, me>>
    BY <1>3, <1>6 DEF Sends
  <2> QED
    BY <1>1, <1>6, <2>1, SendsAlone DEF PatientInv
<1>7. CASE EditAccount
  <2>1. PICK e \in Edits, a \in BOOLEAN, i \in UserIds :
            Sends([op |-> "updateUser", id |-> i, login |-> e.login, pass |-> e.pass, adm |-> a])
    BY <1>7 DEF EditAccount
  <2> QED
    BY <1>6, <1>7, <2>1 DEF EditAccount, IsList
<1>8. CASE CreateAccount
  <2>1. PICK e \in Edits, a \in BOOLEAN :
            Sends([op |-> "createUser", id |-> 0, login |-> e.login, pass |-> e.pass, adm |-> a])
    BY <1>8 DEF CreateAccount
  <2> QED
    BY <1>6, <1>8, <2>1 DEF CreateAccount, IsList
<1>9. CASE RemoveAccount
  <2>1. PICK i \in DOMAIN rows.shown : Sends([op |-> "deleteUser", id |-> i])
    BY <1>9 DEF RemoveAccount
  <2> QED
    BY <1>6, <1>9, <2>1 DEF RemoveAccount, IsList
<1>10. CASE ChangeOther
  <2>1. Sends([op |-> "change", what |-> tab])
    BY <1>10 DEF ChangeOther
  <2> QED
    BY <1>6, <1>10, <2>1 DEF ChangeOther, IsList
<1> QED
  BY <1>2, <1>4, <1>5, <1>7, <1>8, <1>9, <1>10 DEF UserActs

LEMMA ReloadWaits ==
    ASSUME IInv, Reload
    PROVE  PatientInv'
<1> DEFINE lists == IF me = None THEN <<>> ELSE LoadCalls(token, HomeTab, me)
           k == Call(token, ListRequest(HomeTab), HomeTab, me)
<1>1. /\ tab' = HomeTab /\ queue' = lists /\ call' = [w \in Workers |-> None]
      /\ UNCHANGED <<token, me, waits, inOrder>>
  BY DEF Reload
<1>2. PageOK /\ PatientInv
  BY DEF IInv, PageInv
<1>3. Pending' = {} /\ PendingLists' = {}
  BY <1>1 DEF Pending, PendingLists
<1>4. CASE token = None
  <2>1. Len(queue') = 0
    BY <1>1, <1>4 DEF LoadCalls
  <2> QED
    BY <1>1, <1>2, <1>3, <1>4, <2>1 DEF PatientInv, Sole
<1>5. CASE token # None
  <2>1. lists = <<k>> /\ IsList(k.req) /\ k.tab = HomeTab /\ k.cal = token
    BY <1>2, <1>5, HomeIsAllowed, ListsAreCalls DEF PageOK, Call
  <2> HIDE DEF k, lists
  <2>2. queue' # <<>> /\ Len(queue') = 1 /\ queue'[1] = k
    BY <1>1, <2>1
  <2>3. Sole' /\ Latest' /\ Matches'
    BY <1>1, <1>3, <2>1, <2>2 DEF Sole, Latest, Matches
  <2> QED
    BY <1>1, <1>2, <2>3 DEF PatientInv
<1> QED
  BY <1>4, <1>5

LEMMA BackendWaits ==
    ASSUME IInv, BackendActs
    PROVE  PatientInv'
<1>1. CallsOK /\ PatientInv
  BY DEF IInv, PageInv
<1>2. /\ UNCHANGED <<token, me, tab, rows, queue, call, waits, inOrder>>
      /\ \A w \in Pending : cal'[w] = cal[w] /\ req'[w] = req[w]
  BY BackendActsKeep DEF page
<1>3. Pending' = Pending /\ \A w \in Pending : Asked(w)' = Asked(w)
  BY <1>2 DEF Pending, Asked, Call
<1>4. PendingLists' = PendingLists /\ PendingLists \subseteq Pending
  BY <1>2, <1>3 DEF PendingLists
<1>5. Sole => Sole'
  BY <1>2, <1>3 DEF Sole, Mine
<1>6. Latest => Latest'
  BY <1>2, <1>4 DEF Latest
<1>7. Matches => Matches'
  BY <1>2, <1>4 DEF Matches
<1> QED
  BY <1>1, <1>2, <1>5, <1>6, <1>7 DEF PatientInv

LEMMA ConnectWaits ==
    ASSUME IInv, NEW w \in Workers, Connect(w)
    PROVE  PatientInv'
<1>1. PageOK /\ CallsOK /\ PatientInv
  BY DEF IInv, PageInv
<1>2. /\ w \notin Pending /\ Pending' = Pending \cup {w}
      /\ queue # <<>> /\ queue' = Tail(queue) /\ Asked(w)' = Head(queue)
      /\ req'[w] = Head(queue).req
      /\ call'[w].after = PendingLists
      /\ \A v \in Pending : call'[v] = call[v] /\ cal'[v] = cal[v] /\ req'[v] = req[v]
      /\ UNCHANGED <<token, me, tab, rows, waits, inOrder>>
  BY ConnectKeeps
<1>3. /\ Len(queue) \in Nat \ {0} /\ Len(queue') = Len(queue) - 1 /\ Head(queue) = queue[1]
      /\ \A i \in 1 .. Len(queue') : queue'[i] = queue[i + 1] /\ i + 1 \in 1 .. Len(queue)
      /\ queue' = <<>> <=> Len(queue) = 1
  <2>1. queue \in Seq(GoodCalls(granted))
    BY <1>1 DEF PageOK
  <2>2. /\ Len(queue) \in Nat \ {0} /\ Len(queue') = Len(queue) - 1 /\ Head(queue) = queue[1]
        /\ \A i \in 1 .. Len(queue) - 1 : queue'[i] = queue[i + 1]
    BY <1>2, <2>1, HeadTailProperties
  <2>3. queue' \in Seq(GoodCalls(granted))
    BY <1>2, <2>1
  <2>4. queue' = <<>> <=> Len(queue') = 0
    BY <2>3
  <2> QED
    BY <2>2, <2>4
<1>4. PendingLists' = PendingLists \cup (IF IsList(queue[1].req) THEN {w} ELSE {})
  BY <1>2, <1>3 DEF PendingLists
<1>5. /\ cal'[w] = queue[1].cal /\ call'[w].tab = queue[1].tab
      /\ \A v \in Pending : Asked(v)' = Asked(v)
  BY <1>2, <1>3 DEF Asked, Call
<1>6. PendingLists \subseteq Pending
  BY DEF PendingLists
<1>7. ASSUME Sole PROVE Sole'
  <2>1. ASSUME NEW i \in 1 .. Len(queue') PROVE IsList(queue'[i].req)
    BY <1>3, <1>7, <2>1 DEF Sole
  <2>2. ASSUME NEW v \in Pending', ~IsList(req'[v])
        PROVE  queue' = <<>> /\ Pending' = {v} /\ Mine(Asked(v))'
    <3>1. CASE v = w
      <4>1. Len(queue) = 1 /\ Pending = {} /\ Mine(queue[1])
        BY <1>2, <1>3, <1>7, <2>2, <3>1 DEF Sole
      <4>2. Mine(Asked(w))'
        BY <1>2, <1>3, <4>1 DEF Mine
      <4> QED
        BY <1>2, <1>3, <3>1, <4>1, <4>2
    <3>2. CASE v # w
      <4>1. v \in Pending /\ ~IsList(req[v])
        BY <1>2, <2>2, <3>2
      <4> QED
        BY <1>2, <1>7, <4>1 DEF Sole
    <3> QED
      BY <3>1, <3>2
  <2> QED
    BY <2>1, <2>2 DEF Sole
<1>8. ASSUME Sole, Latest PROVE Latest'
  <2>1. CASE queue' # <<>>
    <3>1. Len(queue') \in 1 .. Len(queue') /\ queue'[Len(queue')] = queue[Len(queue)]
      BY <1>3, <2>1
    <3> QED
      BY <1>2, <1>8, <2>1, <3>1 DEF Latest
  <2>2. CASE queue' = <<>>
    <3>1. Len(queue) = 1
      BY <1>3, <2>2
    <3>2. ASSUME NEW v \in PendingLists', \A u \in PendingLists' : v \notin call'[u].after
          PROVE  call'[v].tab = tab' /\ cal'[v] = token'
      <4>1. CASE IsList(queue[1].req)
        <5>1. v = w
          BY <1>2, <1>4, <3>2, <4>1
        <5> QED
          BY <1>2, <1>5, <1>8, <3>1, <4>1, <5>1 DEF Latest
      <4>2. CASE ~IsList(queue[1].req)
        <5>1. v \in PendingLists /\ Pending = {}
          BY <1>4, <1>8, <3>1, <3>2, <4>2 DEF Sole
        <5> QED
          BY <1>6, <5>1
      <4> QED
        BY <4>1, <4>2
    <3> QED
      BY <2>2, <3>2 DEF Latest
  <2> QED
    BY <2>1, <2>2
<1>9. ASSUME Matches PROVE Matches'
  <2>1. ASSUME PendingLists' = {}, \A i \in 1 .. Len(queue') : ~IsList(queue'[i].req)
        PROVE  PendingLists = {} /\ \A i \in 1 .. Len(queue) : ~IsList(queue[i].req)
    <3>1. PendingLists = {} /\ ~IsList(queue[1].req)
      BY <1>4, <2>1
    <3>2. ASSUME NEW i \in 1 .. Len(queue), i # 1 PROVE ~IsList(queue[i].req)
      <4>1. i - 1 \in 1 .. Len(queue') /\ queue'[i - 1] = queue[i]
        BY <1>3, <3>2
      <4> QED
        BY <2>1, <4>1
    <3> QED
      BY <3>1, <3>2
  <2> QED
    BY <1>2, <1>9, <2>1 DEF Matches
<1> QED
  BY <1>1, <1>2, <1>7, <1>8, <1>9 DEF PatientInv

\* A list that is over leaves its table, or none.
LEMMA ListWaits ==
    ASSUME PatientInv, PageOK, CallsOK, NEW w \in Workers, Settled(w), IsList(req[w]),
           UNCHANGED <<token, me, tab, queue>>,
           rows' = NoRows \/ (rows'.what = call[w].tab /\ rows'.by = cal[w].id)
    PROVE  PatientInv'
<1>1. /\ w \in Pending /\ Pending' = Pending \ {w} /\ UNCHANGED waits
      /\ inOrder' = (inOrder /\ call[w].after = {})
      /\ \A v \in Pending \ {w} :
           /\ Asked(v)' = Asked(v) /\ req'[v] = req[v] /\ cal'[v] = cal[v]
           /\ call'[v].after = call[v].after \ {w} /\ call'[v].tab = call[v].tab
  BY DEF Settled
<1>2. PendingLists' = PendingLists \ {w} /\ w \in PendingLists /\ PendingLists \subseteq Pending
  BY <1>1 DEF PendingLists
<1>3. ASSUME Sole
      PROVE  /\ \A i \in 1 .. Len(queue) : IsList(queue[i].req)
             /\ \A v \in Pending : IsList(req[v])
  BY <1>1, <1>3 DEF Sole
<1>4. Sole => Sole'
  BY <1>1, <1>3 DEF Sole
<1>5. ASSUME inOrder', Latest PROVE Latest'
  <2>1. ASSUME NEW v \in PendingLists', \A u \in PendingLists' : v \notin call'[u].after
        PROVE  v \in Pending \ {w} /\ \A u \in PendingLists : v \notin call[u].after
    <3>1. v \in Pending \ {w}
      BY <1>2, <2>1
    <3>2. ASSUME NEW u \in PendingLists PROVE v \notin call[u].after
      <4>1. CASE u = w
        BY <1>1, <1>5, <4>1
      <4>2. CASE u # w
        BY <1>1, <1>2, <2>1, <3>1, <4>2
      <4> QED
        BY <4>1, <4>2
    <3> QED
      BY <3>1, <3>2
  <2>2. ASSUME queue' = <<>>, NEW v \in PendingLists',
               \A u \in PendingLists' : v \notin call'[u].after
        PROVE  call'[v].tab = tab' /\ cal'[v] = token'
    <3>1. v \in Pending \ {w} /\ v \in PendingLists /\ \A u \in PendingLists : v \notin call[u].after
      BY <1>2, <2>1, <2>2
    <3> QED
      BY <1>1, <1>5, <2>2, <3>1 DEF Latest
  <2> QED
    BY <1>5, <2>2 DEF Latest
<1>6. ASSUME Sole, inOrder', Latest PROVE Matches'
  <2>1. ASSUME PendingLists' = {}, \A i \in 1 .. Len(queue) : ~IsList(queue[i].req)
        PROVE  call[w].tab = tab /\ cal[w] = token
    <3>1. queue = <<>>
      <4>1. Len(queue) \in Nat /\ (Len(queue) = 0 => queue = <<>>)
        BY DEF PageOK
      <4>2. 1 \notin 1 .. Len(queue)
        BY <1>3, <1>6, <2>1
      <4> QED
        BY <4>1, <4>2
    <3>2. \A u \in PendingLists : w \notin call[u].after
      BY <1>1, <1>2, <1>6, <2>1
    <3> QED
      BY <1>2, <1>6, <3>1, <3>2 DEF Latest
  <2> QED
    BY <2>1 DEF Matches
<1> QED
  BY <1>1, <1>4, <1>5, <1>6 DEF PatientInv

\* Another request that is over, with nothing else in flight.
LEMMA OtherWaits ==
    ASSUME IInv, NEW w \in Workers, Settled(w), ~IsList(req[w]), PageOK', CallsOK',
           \/ UNCHANGED page
           \/ \E a : Takes(w, a.val) /\ a.ok /\ Tells(req[w], a, granted)
    PROVE  PatientInv'
<1> SUFFICES ASSUME waits'
             PROVE  /\ token' = None <=> me' = None
                    /\ token' # None => me'.id = token'.id
                    /\ Sole'
                    /\ inOrder' /\ token' # None => Latest' /\ Matches'
  BY DEF PatientInv
<1>1. PageOK /\ CallsOK /\ PatientInv
  BY DEF IInv, PageInv
<1>2. w \in Pending /\ waits /\ (inOrder' => inOrder) /\ Pending' = Pending \ {w}
  BY DEF Settled
<1>3. /\ token = None <=> me = None
      /\ token # None => me.id = token.id
      /\ queue = <<>> /\ Pending = {w} /\ Mine(Asked(w))
      /\ inOrder /\ token # None => Matches
  BY <1>1, <1>2 DEF PatientInv, Sole
<1>4. Pending' = {} /\ PendingLists' = {} /\ PendingLists = {} /\ Len(queue) = 0
  BY <1>2, <1>3 DEF PendingLists
<1>5. CASE UNCHANGED page
  <2>1. UNCHANGED <<token, me, tab, rows, queue>>
    BY <1>5 DEF page
  <2>2. Sole' /\ Latest'
    BY <1>3, <1>4, <2>1 DEF Sole, Latest
  <2>3. Matches => Matches'
    BY <1>3, <1>4, <2>1 DEF Matches
  <2> QED
    BY <1>2, <1>3, <2>1, <2>2, <2>3
<1>6. ASSUME NEW a, Takes(w, a.val), a.ok, Tells(req[w], a, granted)
      PROVE  /\ token' = None <=> me' = None
             /\ token' # None => me'.id = token'.id
             /\ Sole'
             /\ inOrder' /\ token' # None => Latest' /\ Matches'
  <2> DEFINE val == a.val
             r == req[w]
             k == call[w]
             lists == LoadCalls(cal[w], k.tab, k.me)
             rest == IF k.tab = "profile" THEN Profile(k.me) ELSE rows
  <2>1. /\ cal[w] = token /\ k.tab = tab /\ k.me = me
        /\ cal[w] \in Claims \cup {None} /\ r \in AllRequests /\ tab \in Tabs
        /\ me \in Shown \cup {None} /\ (r.op # "login" => cal[w] # None /\ me # None)
    BY <1>1, <1>2, <1>3 DEF Mine, CallsOK, Asked, Call, GoodCalls
  <2>2. CASE r.op = "login"
    <3> DEFINE c == [id |-> val.id, adm |-> val.adm]
    <3>1. Becomes(c, val, tab, <<>>, rows)
      <4>1. TakesLogin(val)
        BY <1>6, <2>2 DEF Takes, IsList
      <4> QED
        BY <4>1 DEF TakesLogin
    <3>2. val \in Shown
      BY <1>6, <2>2 DEF Tells
    <3>3. c \in Claims /\ val.id = c.id
      BY <3>2 DEF Claims, Shown
    <3>4. << >> \in Seq(GoodCalls(granted)) /\ \A i \in 1 .. Len(<< >>) : IsList(<< >>[i].req)
      OBVIOUS
    <3> HIDE DEF c, val
    <3>5. token' = c /\ me' = val /\ Sole' /\ Latest' /\ Matches'
      BY <1>3, <1>4, <2>1, <3>1, <3>2, <3>3, <3>4, BecomesUnder
    <3> QED
      BY <3>2, <3>3, <3>5, NotNone
  <2>3. CASE r.op # "login"
    <3>1. /\ token \in Claims /\ me \in Shown /\ token # None /\ me # None /\ me.id = token.id
      BY <1>3, <2>1, <2>3
    <3>2. /\ lists \in Seq(GoodCalls(granted)) /\ (tab = "profile" => lists = <<>>)
          /\ tab # "profile" => /\ lists = <<Call(token, ListRequest(tab), tab, me)>>
                                /\ IsList(ListRequest(tab))
      BY <2>1, <3>1, ListsAreCalls
    <3>3. \A i \in 1 .. Len(lists) : IsList(lists[i].req)
      BY <3>2 DEF Call
    <3>4. CASE r.op = "updateUser" /\ k.me # None /\ k.me.id = r.id
      <4>1. Becomes(token, val, tab, lists, rest)
        BY <1>6, <3>4 DEF Takes, TakesChange, IsList
      <4>2. val \in Shown /\ val.id = token.id
        BY <1>6, <2>1, <3>1, <3>4 DEF Tells
      <4> HIDE DEF val, lists, rest
      <4>3. token' = token /\ me' = val /\ Sole' /\ Latest' /\ Matches'
        BY <1>3, <1>4, <2>1, <3>1, <3>2, <3>3, <4>1, <4>2, BecomesUnder
      <4> QED
        BY <3>1, <4>2, <4>3, NotNone
    <3>5. CASE ~(r.op = "updateUser" /\ k.me # None /\ k.me.id = r.id)
      <4>1. queue' = queue \o lists /\ rows' = rest /\ UNCHANGED <<token, me, tab>>
        BY <1>6, <2>3, <3>5 DEF Takes, TakesChange
      <4>2. CASE tab = "profile"
        <5>1. Len(queue') = 0 /\ queue' = <<>>
          BY <1>3, <3>2, <4>1, <4>2
        <5>2. rows'.what = tab' /\ rows'.by = token'.id
          BY <2>1, <3>1, <4>1, <4>2 DEF Profile
        <5>3. Sole' /\ Latest' /\ Matches'
          BY <1>4, <5>1, <5>2 DEF Sole, Latest, Matches
        <5> QED
          BY <3>1, <4>1, <5>3
      <4>3. CASE tab # "profile"
        <5> DEFINE q == Call(token, ListRequest(tab), tab, me)
        <5>1. IsList(q.req) /\ q.tab = tab /\ q.cal = token /\ lists = <<q>>
          BY <3>2, <4>3 DEF Call
        <5> HIDE DEF q, lists
        <5>2. queue' # <<>> /\ Len(queue') = 1 /\ queue'[1] = q
          BY <1>3, <4>1, <5>1
        <5>3. Sole' /\ Latest' /\ Matches'
          BY <1>4, <4>1, <5>1, <5>2 DEF Sole, Latest, Matches
        <5> QED
          BY <3>1, <4>1, <5>3
      <4> QED
        BY <4>2, <4>3
    <3> QED
      BY <3>4, <3>5
  <2> QED
    BY <2>2, <2>3
<1> QED
  BY <1>5, <1>6

LEMMA AnswerWaits ==
    ASSUME IInv, NEW w \in Workers, Deliver(w) \/ Lose(w)
    PROVE  PatientInv'
<1>1. PageOK /\ CallsOK /\ PatientInv
  BY DEF IInv, PageInv
<1>2. /\ CallsOK' /\ PageOK' /\ Settled(w)
      /\ \/ GetsError(w)
         \/ Takes(w, answer[w].val) /\ answer[w].ok /\ Tells(req[w], answer[w], granted)
  BY DeliverKeeps, LoseKeeps
<1>3. CASE IsList(req[w])
  <2>1. req[w].op # "login"
    BY <1>3 DEF IsList
  <2>2. /\ UNCHANGED <<token, me, tab, queue>>
        /\ rows' = NoRows \/ (rows'.what = call[w].tab /\ rows'.by = cal[w].id)
    <3>1. CASE GetsError(w)
      BY <1>3, <3>1 DEF GetsError
    <3>2. CASE Takes(w, answer[w].val)
      <4>1. TakesList(w, answer[w].val)
        BY <1>3, <2>1, <3>2 DEF Takes
      <4> QED
        BY <4>1 DEF TakesList
    <3> QED
      BY <1>2, <3>1, <3>2
  <2> QED
    BY <1>1, <1>2, <1>3, <2>2, ListWaits
<1>4. CASE ~IsList(req[w])
  <2>1. GetsError(w) => UNCHANGED page
    BY <1>4 DEF GetsError
  <2> QED
    BY <1>2, <1>4, <2>1, OtherWaits
<1> QED
  BY <1>3, <1>4

-----------------------------------------------------------------------------
\* The invariant

LEMMA PageStarts == Init => PageInv
<1> SUFFICES ASSUME Init PROVE PageInv
  OBVIOUS
<1>1. /\ token = None /\ me = None /\ tab = HomeTab /\ rows = NoRows /\ loading = FALSE
      /\ queue = <<>> /\ call = [w \in Workers |-> None]
  BY DEF Init
<1>2. Pending = {} /\ PendingLists = {} /\ Len(queue) = 0 /\ queue \in Seq(GoodCalls(granted))
  BY <1>1 DEF Pending, PendingLists
<1>3. PageOK
  <2>1. rows.what \in Tabs \cup {None} /\ DOMAIN rows.shown \subseteq UserIds
    BY <1>1 DEF NoRows
  <2>2. tab \in Tabs /\ Allowed(me, tab)
    BY <1>1, HomeIsAllowed
  <2> QED
    BY <1>1, <1>2, <2>1, <2>2 DEF PageOK
<1>4. CallsOK
  BY <1>1, <1>2 DEF CallsOK
<1>5. PatientInv
  BY <1>1, <1>2 DEF PatientInv, Sole
<1> QED
  BY <1>3, <1>4, <1>5 DEF PageInv

LEMMA NothingChanges ==
    ASSUME IInv, UNCHANGED vars
    PROVE  IInv'
<1>1. BackendInv /\ PageOK /\ CallsOK /\ PatientInv
  BY DEF IInv, PageInv
<1>2. /\ UNCHANGED accounts /\ UNCHANGED page /\ UNCHANGED call
      /\ UNCHANGED <<pc, cal, req, granted, waits, inOrder, token, me, tab, rows, queue>>
  BY DEF vars, accounts, serving, page
<1>3. BackendInv' /\ PageOK' /\ CallsOK'
  BY <1>1, <1>2, BackendStays, PageStays, CallsStay DEF CallsOK
<1>4. PatientInv'
  BY <1>1, <1>2 DEF PatientInv, Sole, Latest, Matches, Mine, Asked, Call, Pending, PendingLists
<1> QED
  BY <1>3, <1>4 DEF IInv, PageInv

LEMMA StepKeeps ==
    ASSUME IInv, [Next]_vars
    PROVE  IInv'
<1>1. CASE UserActs
  BY <1>1, UserKeeps, UserWaits DEF IInv, PageInv
<1>2. CASE Reload
  BY <1>2, ReloadKeeps, ReloadWaits DEF IInv, PageInv
<1>3. CASE BackendActs
  BY <1>3, BackendActsKeep, BackendWaits DEF IInv, PageInv
<1>4. CASE \E w \in Workers : Connect(w)
  BY <1>4, ConnectKeeps, ConnectWaits DEF IInv, PageInv
<1>5. CASE \E w \in Workers : Deliver(w) \/ Lose(w)
  BY <1>5, DeliverKeeps, LoseKeeps, AnswerWaits DEF IInv, PageInv
<1>6. CASE UNCHANGED vars
  BY <1>6, NothingChanges
<1> QED
  BY <1>1, <1>2, <1>3, <1>4, <1>5, <1>6 DEF Next, Moves, UserActs, BackendActs

LEMMA Invariance == Spec => []IInv
<1>1. Init => IInv
  BY BackendStarts, PageStarts DEF Init, IInv
<1>2. IInv /\ [Next]_vars => IInv'
  BY StepKeeps
<1> QED
  BY <1>1, <1>2, PTL DEF Spec

-----------------------------------------------------------------------------
\* The accounts, the requests in progress and the page are of their types: a tab is
\* always one the account may see, and no list that is waited for has been answered
\* (mainTabs.ts, useMainData.ts).
THEOREM TypeCorrect == Spec => []TypeOK
<1>1. ASSUME IInv PROVE TypeOK
  <2>1. BackendInv /\ PageOK /\ CallsOK
    BY <1>1 DEF IInv, PageInv
  <2>2. AccountsTypeOK
    BY <2>1 DEF BackendInv, TablesOK, WorkersOK, AccountsTypeOK
  <2>3. \A w \in Workers : call[w] # None => pc[w] # "idle" /\ call[w].after \subseteq Pending \ {w}
    BY <2>1 DEF CallsOK, Pending
  <2> QED
    BY <2>1, <2>2, <2>3 DEF PageOK, TypeOK
<1> QED
  BY <1>1, Invariance, PTL

\* Nobody is an administrator in the table, in a token or on the page whom neither an
\* administrator nor the seed made one: the flag an edit writes back is that of the row
\* it read, of the caller's own body only when the caller is one (UpdateUser, Login).
THEOREM AdminsAreMade == Spec => []AdminsWereGranted
<1>1. ASSUME IInv PROVE AdminsWereGranted
  BY <1>1 DEF IInv, PageInv, BackendInv, TablesOK, PageOK, AdminsWereGranted
<1> QED
  BY <1>1, Invariance, PTL

\* The page of a user who waits for answers, and who logged in to the page of nobody,
\* is of one account: that of its token (useMainActions.ts, AuthContext).
THEOREM PageIsOfTheAccount == Spec => []PageIsOfOneAccount
<1>1. ASSUME IInv PROVE PageIsOfOneAccount
  BY <1>1 DEF IInv, PageInv, PatientInv, PageIsOfOneAccount
<1> QED
  BY <1>1, Invariance, PTL

\* When all is answered, in the order it was asked for, the table of a user who waits
\* is that of the tab, fetched with the claims of the token (useMainData.ts).
THEOREM TableIsRight == Spec => []TableIsOfItsTab
<1>1. ASSUME IInv PROVE TableIsOfItsTab
  <2>1. ASSUME waits, inOrder, Quiet, token # None, rows # NoRows
        PROVE  rows.what = tab /\ rows.by = token.id
    <3>1. Matches /\ PendingLists = {} /\ Len(queue) = 0
      BY <1>1, <2>1 DEF IInv, PageInv, PatientInv, Quiet, PendingLists
    <3> QED
      BY <2>1, <3>1 DEF Matches
  <2> QED
    BY <2>1 DEF TableIsOfItsTab
<1> QED
  BY <1>1, Invariance, PTL

\* A request that the backend serves while no other is in progress makes of the accounts
\* what its handler makes of them in one step, or nothing: what UpdateUser saves is the
\* merge with the row that is still there (admin_handlers.go).
THEOREM LoneRequests == Spec => LoneRequestsAreWhole
<1>1. ASSUME IInv, [Next]_vars
      PROVE  [\A w \in Workers :
                (/\ before \notin {None, <<>>} /\ pc[w] # "answered" /\ pc'[w] = "answered"
                 /\ users' # users)
                => users' = Made(w, before)]_vars
  BY <1>1, LoneStep DEF IInv
<1> QED
  BY <1>1, Invariance, PTL DEF Spec, LoneRequestsAreWhole
=============================================================================
