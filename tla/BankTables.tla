----------------------------- MODULE BankTables -----------------------------
(***************************************************************************)
(* The tables of the lab2 payment server that money depends on, the SQL    *)
(* statements its handlers issue on them, and the requests it accepts.  A  *)
(* record d with IsDatabase(d) is one state of the database file.          *)
(*                                                                         *)
(* A card row keeps its number, balance, blocked flag and owning user; a   *)
(* transaction row its amount, card number, terminal and approved flag.    *)
(* Amounts are integers.  A terminal's serial number stands for its id.    *)
(* Owner names, keys, addresses and dates decide nothing here.             *)
(***************************************************************************)
EXTENDS Tables, Integers, FiniteSets

CONSTANTS
    Users,      \* users(id); the table does not change in this module
    Admins,     \* the users whose token says is_admin
    Numbers,    \* card numbers
    Terminals,  \* terminal serial numbers a request may name
    Absent,     \* an omitted user_id (a nil *int64)
    MaxCard,    \* bound: cards.id runs over 1..MaxCard
    MaxTxn,     \* bound: transactions.id runs over 1..MaxTxn
    Workers,    \* requests the server can be serving at a time
    Requests,   \* the requests clients send
    NoRequest,  \* what an idle worker serves
    InitialDb   \* the contents of the database file when it is opened

ASSUME UsersAssumption == Admins \subseteq Users /\ Absent \notin Users
ASSUME BoundsAssumption == MaxCard \in Nat /\ MaxTxn \in Nat

CardIds == 1 .. MaxCard
TxnIds == 1 .. MaxTxn

CardRows == [num : Numbers, bal : Int, blk : BOOLEAN, own : Users]
TxnRows == [amt : Int, num : Numbers, term : Terminals, ok : BOOLEAN]

\* nextCard and nextTxn are the AUTOINCREMENT counters: an id is never reused,
\* and a rolled-back insert gives its id back.
IsDatabase(d) ==
    /\ d \in [cards : {d.cards}, nextCard : 1 .. MaxCard + 1,
              txns : {d.txns}, nextTxn : 1 .. MaxTxn + 1, terms : SUBSET Terminals]
    /\ IsTable(d.cards, 1 .. d.nextCard - 1, CardRows)
    /\ IsTable(d.txns, 1 .. d.nextTxn - 1, TxnRows)

-----------------------------------------------------------------------------
\* SELECT ... FROM cards WHERE card_number = n
CardsNumbered(d, n) == {i \in DOMAIN d.cards : d.cards[i].num = n}

\* Is the caller an administrator or the owner of card i?
MayUse(u, d, i) == u \in Admins \/ d.cards[i].own = u

\* SELECT t.id ... JOIN cards ... : the caller owns the card of transaction t
MayUseTxn(u, d, t) ==
    u \in Admins \/ \E i \in CardsNumbered(d, d.txns[t].num) : d.cards[i].own = u

\* UPDATE cards SET balance = balance + a WHERE card_number = n
Credit(d, n, a) ==
    [d EXCEPT !.cards =
        [i \in DOMAIN d.cards |->
            IF d.cards[i].num = n
              THEN [d.cards[i] EXCEPT !.bal = d.cards[i].bal + a]
              ELSE d.cards[i]]]

\* FOREIGN KEY(card_number) and FOREIGN KEY(terminal_id) of transactions
TxnKeysExist(d, row) == CardsNumbered(d, row.num) # {} /\ row.term \in d.terms

\* Fault: the id does not come from the counter's next value.
InsertTxnKeepingCounter(d, row) == [d EXCEPT !.txns = Put(d.txns, d.nextTxn, row)]

\* INSERT INTO transactions
InsertTxn(d, row) ==
    [d EXCEPT !.txns = Put(d.txns, d.nextTxn, row), !.nextTxn = d.nextTxn + 1]

\* INSERT INTO cards
InsertCard(d, row) ==
    [d EXCEPT !.cards = Put(d.cards, d.nextCard, row), !.nextCard = d.nextCard + 1]

\* Is there an id left for one more row?  Past the largest one an AUTOINCREMENT
\* insert fails (SQLITE_FULL): the bounds bring that limit within reach.
TxnRoom(d) == d.nextTxn <= MaxTxn
CardRoom(d) == d.nextCard <= MaxCard

\* UPDATE and DELETE by id touch no row when the id does not exist.
SetTxn(d, t, row) ==
    IF t \in DOMAIN d.txns THEN [d EXCEPT !.txns = Put(d.txns, t, row)] ELSE d
DropTxn(d, t) == [d EXCEPT !.txns = Without(d.txns, t)]
SetCard(d, i, row) ==
    IF i \in DOMAIN d.cards THEN [d EXCEPT !.cards = Put(d.cards, i, row)] ELSE d
DropCard(d, i) == [d EXCEPT !.cards = Without(d.cards, i)]

\* Fault: foreign keys are off, as SQLite has them by default.
NeverReferenced(d, i) == FALSE

\* Some transaction refers to card i (through its number), or to terminal t.
CardReferenced(d, i) ==
    i \in DOMAIN d.cards /\ \E t \in DOMAIN d.txns : d.txns[t].num = d.cards[i].num
TerminalReferenced(d, s) == \E t \in DOMAIN d.txns : d.txns[t].term = s

\* UNIQUE(card_number): may card i take number n?
NumberFree(d, i, n) == CardsNumbered(d, n) \subseteq {i}

\* The constraints SQLite checks on UPDATE cards ... WHERE id = i
CardUpdateAllowed(d, i, n) ==
    i \in DOMAIN d.cards =>
        NumberFree(d, i, n) /\ (d.cards[i].num = n \/ ~CardReferenced(d, i))

-----------------------------------------------------------------------------
\* The requests: the body of each handler's JSON, the id of its URL and the
\* caller its token names.
AuthorizeRequests == [op : {"authorize"}, usr : Users, num : Numbers, amt : Int,
                      term : Terminals]
CreateRequests == [op : {"createTxn"}, usr : Users, num : Numbers, amt : Int,
                   term : Terminals, ok : BOOLEAN]
AmendRequests == [op : {"updateTxn"}, usr : Users, txn : TxnIds, num : Numbers,
                  amt : Int, term : Terminals, ok : BOOLEAN]
DropTxnRequests == [op : {"deleteTxn"}, usr : Users, txn : TxnIds]
NewCardRequests == [op : {"createCard"}, usr : Users, num : Numbers, bal : Int,
                    blk : BOOLEAN, own : Users \cup {Absent}]
EditCardRequests == [op : {"updateCard"}, usr : Users, card : CardIds, num : Numbers,
                     bal : Int, blk : BOOLEAN, own : Users \cup {Absent}]
DropCardRequests == [op : {"deleteCard"}, usr : Users, card : CardIds]
TerminalRequests == [op : {"createTerminal", "deleteTerminal"}, usr : Users,
                     term : Terminals]
ListRequests == [op : {"list"}, usr : Users]

AllRequests == AuthorizeRequests \cup CreateRequests \cup AmendRequests
    \cup DropTxnRequests \cup NewCardRequests \cup EditCardRequests
    \cup DropCardRequests \cup TerminalRequests \cup ListRequests

ASSUME RequestsAssumption == Requests \subseteq AllRequests /\ NoRequest \notin Requests
ASSUME InitialDbAssumption == IsDatabase(InitialDb)

\* The row a payment request journals.
RowOf(r, approved) == [amt |-> r.amt, num |-> r.num, term |-> r.term, ok |-> approved]

=============================================================================
