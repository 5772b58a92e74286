---------------------------- MODULE AdminConsole ----------------------------
(***************************************************************************)
(* The lab3 console, a React page, with the accounts of its backend.  The  *)
(* page keeps the token and the account it is logged in as (me), in        *)
(* localStorage too; an effect loads the list of the current tab whenever  *)
(* one of token, me and tab changes, and another leaves a tab that is not  *)
(* allowed.  Requests are sent in order, answered in any, and answers act  *)
(* on the page as it is then, with what it was when they were asked for.   *)
(* Other clients of the backend edit accounts meanwhile.                   *)
(***************************************************************************)
EXTENDS TransportAccounts, Sequences

CONSTANTS
    HomeTab,        \* the tab a page starts on: cards
    Edits,          \* what the user types: login, password
    OtherRequests,  \* what other clients ask for
    MaxActs,        \* bound: what the user does
    MaxOthers       \* bound: what the others ask for

ASSUME ConsoleAssumption ==
    /\ OtherRequests \subseteq AllRequests
    /\ HomeTab \in Lists \ AdminLists /\ {"users", "profile"} \cap Lists = {}
    /\ Edits \subseteq [login : Logins, pass : Passwords]

VARIABLES
    token,     \* the claims of the page's token, or None
    me,        \* the account it shows as its own, or None
    tab,
    rows,      \* the table: what of, fetched as whom, and the accounts it shows
    loading,
    queue,     \* requests the browser has not sent yet
    call,      \* the request of the page each worker serves, or None
    acts, others,
    waits,     \* history: since he logged in to a page of nobody, the user has acted
               \* only when nothing was in flight
    inOrder    \* history: lists have been answered in the order they were asked for

page == <<token, me, tab, rows, loading, queue>>
bounds == <<acts, others>>
vars == <<accounts, page, call, bounds, waits, inOrder>>

Profile(a) == [what |-> "profile", by |-> a.id, shown |-> [i \in {a.id} |-> a]]
NoRows == [what |-> None, by |-> 0, shown |-> <<>>]
Tabs == Lists \cup {"users", "profile"}

\* useMainTabs: only an administrator has tabs of AdminLists and of the users.
Allowed(a, t) == IF a # None /\ a.adm THEN t # "profile" ELSE t \notin AdminLists \cup {"users"}

\* A request of the page, and what its handler has closed over: the claims of the
\* token, the tab, and the account of the page.
Call(c, r, t, a) == [cal |-> c, req |-> r, tab |-> t, me |-> a]
IsList(r) == r.op \in {"list", "listUsers"}

\* What a handler remembers of a request while the backend has it, and the lists
\* that were in flight when it was sent.
Handlers == [tab : Tabs, me : Shown \cup {None}, after : SUBSET Workers]
ASSUME NoHandlerAssumption == None \notin Handlers

Pending == {w \in Workers : call[w] # None}
Quiet == queue = <<>> /\ Pending = {}

-----------------------------------------------------------------------------
\* What the page does when its state changes

\* loadList: the profile is shown at once, the other tabs are asked for.
ListRequest(t) == IF t = "users" THEN [op |-> "listUsers"] ELSE [op |-> "list", what |-> t]
LoadCalls(c, t, a) ==
    IF c = None \/ t = "profile" THEN <<>> ELSE <<Call(c, ListRequest(t), t, a)>>

\* Fault: a tab is not left when the account may not see it any more.
BecomesStaying(c, a, t, first, r) ==
    LET lists == first \o (IF a = None THEN <<>> ELSE LoadCalls(c, t, a))
    IN  /\ token' = c /\ me' = a /\ tab' = t /\ rows' = r
        /\ loading' = (loading \/ lists # <<>>)
        /\ queue' = queue \o lists

\* The state becomes c, a and t, and the effects run: they load the list of the tab,
\* and if the account may not see it, of the first tab instead.  Lists asked for
\* before that, first, are sent before; the table is r until an answer comes.
Becomes(c, a, t, first, r) ==
    LET there == IF Allowed(a, t) THEN t ELSE HomeTab
        load(x) == IF a = None THEN <<>> ELSE LoadCalls(c, x, a)
        lists == first \o load(t) \o (IF there = t THEN <<>> ELSE load(there))
    IN  /\ token' = c /\ me' = a /\ tab' = there
        /\ rows' = IF there = "profile" /\ c # None /\ a # None
                   THEN Profile(a) ELSE r
        /\ loading' = (loading \/ lists # <<>>)
        /\ queue' = queue \o lists

\* The user does something, with nothing in flight if he waits.
Acts ==
    /\ acts < MaxActs /\ acts' = acts + 1
    /\ UNCHANGED <<accounts, call, others, inOrder>>
Waiting == waits' = (waits /\ Quiet)

Sends(r) ==
    /\ queue' = Append(queue, Call(token, r, tab, me))
    /\ UNCHANGED <<token, me, tab, rows, loading>>

-----------------------------------------------------------------------------
\* The user

LogIn ==
    /\ token = None
    /\ acts < MaxActs /\ acts' = acts + 1
    /\ \E l \in Logins, p \in Passwords \ {Empty} : Sends([op |-> "login", login |-> l, pass |-> p])
    /\ waits' = (Quiet /\ me = None) /\ inOrder' = (Quiet \/ inOrder)
    /\ UNCHANGED <<accounts, call, others>>

LogOut ==
    /\ token # None
    /\ Becomes(None, None, HomeTab, <<>>, NoRows)
    /\ Acts /\ Waiting

\* Fault: the effect that loads the list does not depend on the tab.
ChangeTabOnly ==
    /\ token # None
    /\ \E t \in Tabs \ {tab} : Allowed(me, t) /\ tab' = t
    /\ UNCHANGED <<token, me, rows, loading, queue>>
    /\ Acts /\ Waiting

ChangeTab ==
    /\ token # None
    /\ \E t \in Tabs \ {tab} : Allowed(me, t) /\ Becomes(token, me, t, <<>>, rows)
    /\ Acts /\ Waiting

\* saveModal: an account of the table, or one's own from the profile, is put back
\* with what was typed, or a new one made.
EditAccount ==
    /\ token # None
    /\ \E e \in Edits, a \in BOOLEAN, i \in UserIds :
        /\ \/ tab = "users" /\ ~loading /\ i \in DOMAIN rows.shown
           \/ tab = "profile" /\ me # None /\ i = me.id /\ a = me.adm
        /\ Sends([op |-> "updateUser", id |-> i, login |-> e.login, pass |-> e.pass, adm |-> a])
    /\ Acts /\ Waiting

CreateAccount ==
    /\ token # None /\ tab = "users"
    /\ \E e \in Edits, a \in BOOLEAN :
        /\ e.pass # Empty
        /\ Sends([op |-> "createUser", id |-> 0, login |-> e.login, pass |-> e.pass, adm |-> a])
    /\ Acts /\ Waiting

RemoveAccount ==
    /\ token # None /\ tab = "users" /\ ~loading
    /\ \E i \in DOMAIN rows.shown : Sends([op |-> "deleteUser", id |-> i])
    /\ Acts /\ Waiting

\* Anything saved, removed or paid on another tab.
ChangeOther ==
    /\ token # None /\ tab \in Lists
    /\ Sends([op |-> "change", what |-> tab])
    /\ Acts /\ Waiting

\* The page is loaded anew, from what localStorage has; nobody takes the answers.
Reload ==
    /\ acts < MaxActs /\ acts' = acts + 1
    /\ LET lists == IF me = None THEN <<>> ELSE LoadCalls(token, HomeTab, me)
       IN  /\ tab' = HomeTab /\ rows' = NoRows
           /\ loading' = (lists # <<>>) /\ queue' = lists
    /\ call' = [w \in Workers |-> None]
    /\ UNCHANGED <<accounts, token, me, others, waits, inOrder>>

-----------------------------------------------------------------------------
\* The network

\* The browser sends the oldest request it has.
Connect(w) ==
    /\ queue # <<>> /\ pc[w] = "idle" /\ call[w] = None
    /\ LET k == Head(queue) IN
       /\ Accept(w, k.cal, k.req)
       /\ call' = [call EXCEPT ![w] =
                     [tab |-> k.tab, me |-> k.me,
                      after |-> {v \in Pending : IsList(req[v])}]]
    /\ queue' = Tail(queue)
    /\ UNCHANGED <<token, me, tab, rows, loading, bounds, waits, inOrder>>

\* A list arrives.
TakesList(w, val) ==
    /\ rows' = [what |-> call[w].tab, by |-> cal[w].id,
                shown |-> IF req[w].op = "listUsers" THEN val ELSE <<>>]
    /\ loading' = FALSE
    /\ UNCHANGED <<token, me, tab, queue>>

\* Of a login: the token and the account.
TakesLogin(val) == Becomes([id |-> val.id, adm |-> val.adm], val, tab, <<>>, rows)

\* Fault: whatever account is saved is shown as one's own.
TakesChangeOfAnybody(w, val) ==
    LET k == call[w]
        lists == LoadCalls(cal[w], k.tab, k.me)
    IN  IF req[w].op = "updateUser" THEN Becomes(token, val, tab, lists, rows)
        ELSE /\ queue' = queue \o lists /\ loading' = (loading \/ lists # <<>>)
             /\ UNCHANGED <<token, me, tab, rows>>

\* Of an edit, a creation or a removal: the list of the tab it was made on is loaded
\* again, with the token it was made with; one's own account is shown as it is
\* answered.
TakesChange(w, val) ==
    LET k == call[w]
        lists == LoadCalls(cal[w], k.tab, k.me)
        r == IF k.tab = "profile" THEN Profile(k.me) ELSE rows
    IN  IF req[w].op = "updateUser" /\ k.me # None /\ k.me.id = req[w].id
        THEN Becomes(token, val, tab, lists, r)
        ELSE /\ queue' = queue \o lists /\ loading' = (loading \/ lists # <<>>)
             /\ rows' = r
             /\ UNCHANGED <<token, me, tab>>

Takes(w, val) ==
    CASE req[w].op = "login" -> TakesLogin(val)
      [] IsList(req[w]) -> TakesList(w, val)
      [] OTHER -> TakesChange(w, val)

\* Fault: loading is reset only when the list is there.
GetsErrorHiding(w) ==
    IF IsList(req[w]) THEN rows' = NoRows /\ UNCHANGED <<token, me, tab, loading, queue>>
    ELSE UNCHANGED page

\* An error, of the backend or the network: no list is the end of its loading, and
\* anything else leaves the page as it is.
GetsError(w) ==
    IF IsList(req[w]) THEN rows' = NoRows /\ loading' = FALSE /\ UNCHANGED <<token, me, tab, queue>>
    ELSE UNCHANGED page

\* The request is over for the page.
Settles(w) ==
    /\ call' = [v \in Workers |->
                  CASE v = w -> None
                    [] v # w /\ call[v] # None -> [call[v] EXCEPT !.after = @ \ {w}]
                    [] OTHER -> None]
    /\ inOrder' = (inOrder /\ (IsList(req[w]) => call[w].after = {}))
    /\ UNCHANGED <<tables, granted, before, bounds, waits>>

\* The answer arrives, or the connection breaks and the backend goes on.
Deliver(w) ==
    /\ pc[w] = "answered" /\ call[w] # None
    /\ IF answer[w].ok THEN Takes(w, answer[w].val) ELSE GetsError(w)
    /\ Frees(w) /\ UNCHANGED faults
    /\ Settles(w)

Lose(w) ==
    /\ Fault /\ pc[w] # "idle" /\ call[w] # None
    /\ GetsError(w)
    /\ Settles(w)
    /\ UNCHANGED serving

-----------------------------------------------------------------------------
\* The others

OtherClient(w) ==
    /\ call[w] = None /\ others < MaxOthers /\ others' = others + 1
    /\ \E c \in tokens, r \in OtherRequests : Accept(w, c, r)
    /\ UNCHANGED <<page, call, acts, waits, inOrder>>

\* An answer nobody of this page waits for.
Leave(w) ==
    /\ pc[w] = "answered" /\ call[w] = None
    /\ Frees(w)
    /\ UNCHANGED <<tables, faults, granted, before, page, call, bounds, waits, inOrder>>

Serve(w) == Statement(w) /\ UNCHANGED <<page, call, bounds, waits, inOrder>>
StatementBreaks(w) == StatementFails(w) /\ UNCHANGED <<page, call, bounds, waits, inOrder>>
RestartBackend == Restart /\ UNCHANGED <<page, call, bounds, waits, inOrder>>
ExpireToken == Expire /\ UNCHANGED <<page, call, bounds, waits, inOrder>>

-----------------------------------------------------------------------------
Init ==
    /\ AccountsInit
    /\ token = None /\ me = None /\ tab = HomeTab /\ rows = NoRows /\ loading = FALSE
    /\ queue = <<>> /\ call = [w \in Workers |-> None]
    /\ acts = 0 /\ others = 0 /\ waits = TRUE /\ inOrder = TRUE

Moves(w) == Connect(w) \/ Serve(w) \/ Deliver(w) \/ Leave(w)

Next ==
    \/ LogIn \/ LogOut \/ ChangeTab \/ EditAccount \/ CreateAccount \/ RemoveAccount
    \/ ChangeOther \/ Reload
    \/ \E w \in Workers : Moves(w) \/ StatementBreaks(w) \/ Lose(w) \/ OtherClient(w)
    \/ RestartBackend \/ ExpireToken

Spec == Init /\ [][Next]_vars

\* A request the browser can send is sent, and answered or broken off.
Fairness == \A w \in Workers : WF_vars(Moves(w))
FairSpec == Spec /\ Fairness

-----------------------------------------------------------------------------
TypeOK ==
    /\ AccountsTypeOK
    /\ token \in Claims \cup {None} /\ me \in Shown \cup {None}
    /\ tab \in Tabs /\ Allowed(me, tab)
    /\ rows.what \in Tabs \cup {None} /\ loading \in BOOLEAN
    /\ \A w \in Workers : call[w] # None => pc[w] # "idle" /\ call[w].after \subseteq Pending \ {w}

\* Nobody is an administrator, in the table, in a token or on the page, unless an
\* administrator or the seed made him one: though edits write back rows that are
\* long changed or gone, and the page shows what they answer.
AdminsWereGranted ==
    /\ \A i \in DOMAIN users : users[i].adm => i \in granted
    /\ \A c \in tokens : c.adm => c.id \in granted
    /\ me # None /\ me.adm => me.id \in granted

\* While the user waits for answers, the page is of one account: me is the account
\* of the token, whoever edits, renames or deletes it, and after a reload too.
PageIsOfOneAccount ==
    waits => (token = None <=> me = None) /\ (token # None => me.id = token.id)

\* When all is answered, the table shows the tab it stands under, fetched as the
\* account that is logged in: for a user who waits, and lists answered in order.
TableIsOfItsTab ==
    (waits /\ inOrder /\ Quiet /\ token # None /\ rows # NoRows)
        => rows.what = tab /\ rows.by = token.id

\* A request the backend serves alone changes the accounts as one step of its
\* handler would, or not at all.
LoneRequestsAreWhole ==
    [][\A w \in Workers :
        (/\ before \notin {None, <<>>} /\ pc[w] # "answered" /\ pc'[w] = "answered"
         /\ users' # users)
        => users' = Made(w, before)]_vars

\* The table is not hidden for ever: what is loading is loaded, or given up.
LoadingEnds == loading ~> ~loading
=============================================================================
