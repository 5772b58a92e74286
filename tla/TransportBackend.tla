-------------------------- MODULE TransportBackend --------------------------
(***************************************************************************)
(* The cards, the journal and the payments of the lab3 backend.  Unlike    *)
(* lab2's, its handlers open no transaction and mostly ignore the errors   *)
(* of their writes: each statement GORM issues is an action of its own,    *)
(* other requests run between any two, and a row is written back whole as  *)
(* it was read.  SQLite is opened without foreign keys.                    *)
(***************************************************************************)
EXTENDS Tables, Integers, FiniteSetsExt

CONSTANTS
    Numbers,             \* card numbers
    Serials,             \* serial numbers of terminals
    Amounts,             \* amounts and balances
    Callers,             \* the claims of valid tokens: id, adm
    MaxCard, MaxEntry,   \* bounds: the largest ids of cards and transactions
    InitialCards,        \* the cards there are at first: id -> row
    Workers,             \* requests the server can be serving at a time
    Requests,            \* the requests clients send
    Failing,             \* may statements fail, and may the process die?
    None                 \* no request, caller, row or database

ASSUME CallersAssumption == \A c \in Callers : c.id \in Nat \ {0} /\ c.adm \in BOOLEAN
ASSUME BackendBoundsAssumption ==
    MaxCard \in Nat /\ MaxEntry \in Nat /\ Amounts \subseteq Nat /\ Failing \in BOOLEAN

VARIABLES
    cards,      \* cards: id -> number, balance, blocked, user_id
    nextCard,   \* its AUTOINCREMENT counter
    journal,    \* transactions: id -> card_id, amount, status
    nextEntry,
    terminals,  \* the serial numbers of the terminals there are
    pc,         \* the next statement of each worker
    cal,        \* the claims its request came with
    req,        \* the request
    loc,        \* what it has read, and is to write
    given,      \* history: the cards an administrator, or their creation, gave each user
    his,        \* history: the cards that were its regular user's own at its statements
    before      \* history: the database a request found that has run alone, or None

tables == <<cards, nextCard, journal, nextEntry, terminals>>
workers == <<pc, cal, req, loc>>
vars == <<tables, workers, given, his, before>>

CardIds == 1 .. MaxCard
EntryIds == 1 .. MaxEntry
Users == {c.id : c \in Callers} \cup {0}      \* 0: the card is nobody's
CardRows == [num : Numbers, bal : Int, blk : BOOLEAN, own : Users]
Entries == [card : CardIds \cup {0}, amt : Amounts, st : {"approved", "declined", "pending"}]
Nests == [id : CardIds \cup {0}, row : CardRows]     \* a card in the body of an entry
Locals == [id : CardIds \cup {0}, row : CardRows \cup {None}, entry : Entries \cup {None},
           nest : Nests \cup {None}, term : Serials \cup {None}]
NoLocals == [id |-> 0, row |-> None, entry |-> None, nest |-> None, term |-> None]
Database == [cards |-> cards, journal |-> journal, terminals |-> terminals]

\* An id of 0 in the body of a creation asks for the next one.  The body of an entry
\* may bring the card and the terminal themselves.
AllRequests ==
    [op : {"pay"}, num : Numbers, amt : Amounts, term : Serials]
    \cup [op : {"createCard"}, id : CardIds \cup {0}, row : CardRows]
    \cup [op : {"updateCard"}, id : CardIds, row : CardRows]
    \cup [op : {"deleteCard"}, id : CardIds]
    \cup [op : {"createEntry"}, id : EntryIds \cup {0}, entry : Entries,
          nest : Nests \cup {None}, term : Serials \cup {None}]
    \cup [op : {"updateEntry"}, id : EntryIds, entry : Entries,
          nest : Nests \cup {None}, term : Serials \cup {None}]
    \cup [op : {"deleteEntry"}, id : EntryIds]
    \cup [op : {"createTerminal", "deleteTerminal"}, term : Serials]

ASSUME BackendRequestsAssumption == Requests \subseteq AllRequests /\ None \notin Requests

\* Nobody writes a negative balance himself: the form that edits a card, and
\* the station, send what was typed, and updateCard stores it as it comes.
ASSUME BalancesAssumption ==
    \A r \in Requests :
        /\ r.op \in {"createCard", "updateCard"} => r.row.bal >= 0
        /\ r.op \in {"createEntry", "updateEntry"} /\ r.nest # None => r.nest.row.bal >= 0

ASSUME InitialCardsAssumption ==
    /\ IsTable(InitialCards, CardIds, CardRows)
    /\ DOMAIN InitialCards = 1 .. Cardinality(DOMAIN InitialCards)
    /\ \A i \in DOMAIN InitialCards : InitialCards[i].bal >= 0
    /\ \A i, j \in DOMAIN InitialCards : InitialCards[i].num = InitialCards[j].num => i = j

PCs == {"idle", "findCard", "findTerminal", "saveCard", "upsertCard", "insertCard",
        "readCard", "removeCard", "insertEntry", "readEntry", "readEntryCard",
        "readNewCard", "saveEntry", "upsertEntry", "removeEntry",
        "createTerminal", "deleteTerminal"}

-----------------------------------------------------------------------------
\* How a handler moves

Regular(w) == cal[w] # None /\ ~cal[w].adm

\* The cards of the regular user w serves.
Owned(w) == IF Regular(w) THEN {i \in DOMAIN cards : cards[i].own = cal[w].id} ELSE {}

GoesOn(w, label, locals) ==
    /\ pc' = [pc EXCEPT ![w] = label]
    /\ loc' = [loc EXCEPT ![w] = locals]
    /\ his' = [his EXCEPT ![w] = @ \cup Owned(w)]
    /\ UNCHANGED <<cal, req, before>>

Ends(w) ==
    /\ pc' = [pc EXCEPT ![w] = "idle"]
    /\ cal' = [cal EXCEPT ![w] = None]
    /\ req' = [req EXCEPT ![w] = None]
    /\ loc' = [loc EXCEPT ![w] = NoLocals]
    /\ his' = [his EXCEPT ![w] = {}]
    /\ before' = None

Refuses(w) == Ends(w) /\ UNCHANGED <<tables, given>>
Reads(w, label, locals) == GoesOn(w, label, locals) /\ UNCHANGED <<tables, given>>

\* crud and the handlers after it let a regular user at his own cards only.
Sees(c, own) == c.adm \/ own = c.id

NumberFree(num, id) == \A i \in DOMAIN cards \ {id} : cards[i].num # num

\* What follows the write of a card: the journal of a payment, or the answer.
AfterCard(w) ==
    IF req[w].op = "pay" THEN GoesOn(w, "insertEntry", loc[w]) ELSE Ends(w)

\* Does the request w serves say whose the card it writes shall be?
Gives(w) == req[w].op = "updateCard" /\ cal[w].adm

\* The card row a worker writes, unless the UNIQUE number forbids it; either
\* way the handler goes on.
WritesCard(w, id, row) ==
    /\ cards' = IF NumberFree(row.num, id) THEN Put(cards, id, row) ELSE cards
    /\ given' = given \cup (IF Gives(w) THEN {<<id, row.own>>} ELSE {})
    /\ UNCHANGED <<journal, nextEntry, terminals>>

\* INSERT: the id asked for or the next one, unless the id or the number is taken.
IdFor(id) == IF id = 0 THEN nextCard ELSE id
Insertable(id, num) == id \notin DOMAIN cards /\ NumberFree(num, id)

\* AUTOINCREMENT never gives out an id at or below one that was used.
Past(next, id) == IF id < next THEN next ELSE id + 1

InsertsCard(id, row) ==
    /\ id <= MaxCard
    /\ IF Insertable(id, row.num)
       THEN /\ cards' = Put(cards, id, row) /\ nextCard' = Past(nextCard, id)
            /\ given' = given \cup {<<id, row.own>>}
       ELSE UNCHANGED <<cards, nextCard, given>>

-----------------------------------------------------------------------------
\* A request arrives; what its method, token and body settle is settled.

FirstStatement(c, r) ==
    CASE r.op = "pay" -> "findCard"
      [] r.op = "createCard" -> "insertCard"
      [] r.op \in {"updateCard", "deleteCard"} -> "readCard"
      [] r.op = "createEntry" -> IF c.adm THEN "insertEntry" ELSE "readNewCard"
      [] r.op \in {"updateEntry", "deleteEntry"} -> "readEntry"
      [] OTHER -> r.op

FirstLocals(c, r) ==
    CASE r.op = "createCard" ->
            [NoLocals EXCEPT !.row = IF c.adm THEN r.row ELSE [r.row EXCEPT !.own = c.id]]
      [] r.op \in {"createEntry", "updateEntry"} ->
            [NoLocals EXCEPT !.entry = r.entry, !.nest = r.nest, !.term = r.term]
      [] OTHER -> NoLocals

Accept(w, c, r) ==
    /\ pc[w] = "idle"
    /\ r.op = "pay" => c = None /\ r.amt > 0
    /\ r.op # "pay" => c \in Callers
    /\ r.op \in {"createTerminal", "deleteTerminal"} => c.adm
    /\ pc' = [pc EXCEPT ![w] = FirstStatement(c, r)]
    /\ cal' = [cal EXCEPT ![w] = c]
    /\ req' = [req EXCEPT ![w] = r]
    /\ loc' = [loc EXCEPT ![w] = FirstLocals(c, r)]
    /\ before' = IF \A v \in Workers : pc[v] = "idle" THEN Database ELSE None
    /\ UNCHANGED <<tables, given, his>>

-----------------------------------------------------------------------------
\* AuthorizePayment

FindCard(w) ==
    /\ pc[w] = "findCard"
    /\ \/ \E i \in DOMAIN cards :
            /\ cards[i].num = req[w].num
            /\ Reads(w, "findTerminal", [NoLocals EXCEPT !.id = i, !.row = cards[i]])
       \/ /\ \A i \in DOMAIN cards : cards[i].num # req[w].num
          /\ Refuses(w)

\* Fault: a balance that is just enough is declined.
ApprovesStrictly(row, amt) == ~row.blk /\ row.bal > amt

Approves(row, amt) == ~row.blk /\ row.bal >= amt

FindTerminal(w) ==
    LET row == loc[w].row
        amt == req[w].amt
        Booked(st) == [card |-> loc[w].id, amt |-> amt, st |-> st]
    IN  /\ pc[w] = "findTerminal"
        /\ CASE req[w].term \notin terminals -> Refuses(w)
             [] req[w].term \in terminals /\ Approves(row, amt) ->
                    Reads(w, "saveCard", [loc[w] EXCEPT !.row = [row EXCEPT !.bal = @ - amt],
                                                        !.entry = Booked("approved")])
             [] req[w].term \in terminals /\ ~Approves(row, amt) ->
                    Reads(w, "insertEntry", [loc[w] EXCEPT !.entry = Booked("declined")])

\* Fault: UPDATE cards SET balance = balance - amount, after the check.
SaveCardRelative(w) ==
    LET id == loc[w].id
        pays == req[w].op = "pay"
    IN  /\ pc[w] = "saveCard"
        /\ IF id \in DOMAIN cards
           THEN /\ WritesCard(w, id, IF pays THEN [cards[id] EXCEPT !.bal = @ - req[w].amt]
                                             ELSE loc[w].row)
                /\ AfterCard(w) /\ UNCHANGED nextCard
           ELSE Reads(w, "upsertCard", loc[w])

\* Save of a card: UPDATE of all its columns by id.
SaveCard(w) ==
    LET id == loc[w].id IN
    /\ pc[w] = "saveCard"
    /\ IF id \in DOMAIN cards
       THEN WritesCard(w, id, loc[w].row) /\ AfterCard(w) /\ UNCHANGED nextCard
       ELSE Reads(w, "upsertCard", loc[w])

\* When it met no row, Save goes on to INSERT it ON CONFLICT (id) DO UPDATE.
UpsertCard(w) ==
    /\ pc[w] = "upsertCard"
    /\ WritesCard(w, loc[w].id, loc[w].row) /\ AfterCard(w) /\ UNCHANGED nextCard

-----------------------------------------------------------------------------
\* createCard, updateCard and deleteCard

InsertCard(w) ==
    /\ pc[w] = "insertCard"
    /\ InsertsCard(IdFor(req[w].id), loc[w].row)
    /\ Ends(w)
    /\ UNCHANGED <<journal, nextEntry, terminals>>

\* Fault: user_id is taken from anybody's body.
MergedTrusting(c, body, existing) ==
    IF body.own # 0 THEN body ELSE [body EXCEPT !.own = existing.own]

\* The row updateCard writes: the body's, with the owner the caller may choose.
Merged(c, body, existing) ==
    IF c.adm /\ body.own # 0 THEN body ELSE [body EXCEPT !.own = existing.own]

ReadCard(w) ==
    LET id == req[w].id IN
    /\ pc[w] = "readCard"
    /\ IF id \in DOMAIN cards /\ Sees(cal[w], cards[id].own)
       THEN IF req[w].op = "deleteCard"
            THEN Reads(w, "removeCard", NoLocals)
            ELSE Reads(w, "saveCard",
                       [NoLocals EXCEPT !.id = id,
                                        !.row = Merged(cal[w], req[w].row, cards[id])])
       ELSE Refuses(w)

RemoveCard(w) ==
    /\ pc[w] = "removeCard"
    /\ cards' = Without(cards, req[w].id)
    /\ Ends(w)
    /\ UNCHANGED <<nextCard, journal, nextEntry, terminals, given>>

-----------------------------------------------------------------------------
\* createTransaction, updateTransaction and deleteTransaction

\* Fault: deleteTransaction was copied from updateTransaction, and Saves.
AfterEntrySaves(w) == "saveEntry"

AfterEntry(w) == IF req[w].op = "deleteEntry" THEN "removeEntry" ELSE "saveEntry"

\* The entry; its card is Preloaded by a second SELECT.
ReadEntry(w) ==
    LET id == req[w].id IN
    /\ pc[w] = "readEntry"
    /\ IF id \in DOMAIN journal
       THEN Reads(w, "readEntryCard", [loc[w] EXCEPT !.id = journal[id].card])
       ELSE Refuses(w)

\* Fault: updateTransaction forgets to check the card the row is moved to.
ReadEntryCardOnly(w) ==
    LET card == loc[w].id
        own == IF card \in DOMAIN cards THEN cards[card].own ELSE 0
    IN  /\ pc[w] = "readEntryCard"
        /\ IF Sees(cal[w], own) THEN Reads(w, AfterEntry(w), loc[w]) ELSE Refuses(w)

ReadEntryCard(w) ==
    LET card == loc[w].id
        own == IF card \in DOMAIN cards THEN cards[card].own ELSE 0
    IN  /\ pc[w] = "readEntryCard"
        /\ IF Sees(cal[w], own)
           THEN Reads(w, IF cal[w].adm \/ req[w].op = "deleteEntry"
                         THEN AfterEntry(w) ELSE "readNewCard",
                      loc[w])
           ELSE Refuses(w)

\* The card a regular user's entry is to name.
ReadNewCard(w) ==
    LET card == loc[w].entry.card IN
    /\ pc[w] = "readNewCard"
    /\ IF card \in DOMAIN cards /\ cards[card].own = cal[w].id
       THEN Reads(w, IF req[w].op = "createEntry" THEN "insertEntry" ELSE "saveEntry", loc[w])
       ELSE Refuses(w)

\* The card in an entry's body is INSERTed ON CONFLICT DO NOTHING, and its terminal
\* likewise, in the transaction of the entry; the card's id then replaces card_id,
\* whatever card_id was: 0, when none was given and the number is taken.
NestedCard(w) ==
    LET nest == loc[w].nest
        id == IdFor(nest.id)
    IN  IF nest.id # 0 \/ Insertable(id, nest.row.num) THEN id ELSE 0

SavesNested(w) ==
    /\ IF loc[w].nest = None
       THEN UNCHANGED <<cards, nextCard, given>>
       ELSE InsertsCard(IdFor(loc[w].nest.id), loc[w].nest.row)
    /\ terminals' = terminals \cup ({loc[w].term} \ {None})

EntryRow(w) ==
    IF loc[w].nest = None THEN loc[w].entry ELSE [loc[w].entry EXCEPT !.card = NestedCard(w)]

\* Create of a transaction, the last statement of a payment too: a taken id undoes it all.
NewEntry(w) == IF req[w].op = "createEntry" /\ req[w].id # 0 THEN req[w].id ELSE nextEntry

InsertEntry(w) ==
    LET id == NewEntry(w) IN
    /\ pc[w] = "insertEntry"
    /\ id <= MaxEntry
    /\ IF id \in DOMAIN journal
       THEN UNCHANGED <<tables, given>>
       ELSE /\ SavesNested(w)
            /\ journal' = Put(journal, id, EntryRow(w))
            /\ nextEntry' = Past(nextEntry, id)
    /\ Ends(w)

\* Save of a transaction.  The card it brought stays when it met no row, and comes
\* again, under the id it has now, with the INSERT that follows.
SaveEntry(w) ==
    /\ pc[w] = "saveEntry"
    /\ SavesNested(w)
    /\ IF req[w].id \in DOMAIN journal
       THEN journal' = Put(journal, req[w].id, EntryRow(w)) /\ Ends(w)
       ELSE /\ UNCHANGED journal
            /\ GoesOn(w, "upsertEntry",
                      IF loc[w].nest = None THEN loc[w]
                      ELSE [loc[w] EXCEPT !.nest = [@ EXCEPT !.id = NestedCard(w)]])
    /\ UNCHANGED nextEntry

UpsertEntry(w) ==
    /\ pc[w] = "upsertEntry"
    /\ SavesNested(w)
    /\ journal' = Put(journal, req[w].id, EntryRow(w))
    /\ Ends(w)
    /\ UNCHANGED nextEntry

RemoveEntry(w) ==
    /\ pc[w] = "removeEntry"
    /\ journal' = Without(journal, req[w].id)
    /\ Ends(w)
    /\ UNCHANGED <<cards, nextCard, nextEntry, terminals, given>>

-----------------------------------------------------------------------------
\* Terminals come and go by the generic create and del of crud.
EditTerminals(w) ==
    /\ \/ pc[w] = "createTerminal" /\ terminals' = terminals \cup {req[w].term}
       \/ pc[w] = "deleteTerminal" /\ terminals' = terminals \ {req[w].term}
    /\ Ends(w)
    /\ UNCHANGED <<cards, nextCard, journal, nextEntry, given>>

-----------------------------------------------------------------------------
\* Failures: a locked or full database, an insert past the bounds

PastBounds(w) ==
    \/ pc[w] = "insertEntry" /\ nextEntry > MaxEntry
    \/ /\ nextCard > MaxCard
       /\ \/ pc[w] = "insertCard"
          \/ pc[w] \in {"insertEntry", "saveEntry", "upsertEntry"} /\ loc[w].nest # None

\* The error of a SELECT is answered with 404, that of a write is ignored.
StatementFails(w) ==
    /\ Failing \/ PastBounds(w)
    /\ pc[w] # "idle"
    /\ IF pc[w] \in {"saveCard", "upsertCard"} /\ req[w].op = "pay"
       THEN /\ pc' = [pc EXCEPT ![w] = "insertEntry"] /\ before' = None
            /\ UNCHANGED <<cal, req, loc, his>>
       ELSE Ends(w)
    /\ UNCHANGED <<tables, given>>

\* The process is killed and started again on the same file.
Restart ==
    /\ Failing
    /\ \E w \in Workers : pc[w] # "idle"
    /\ pc' = [w \in Workers |-> "idle"]
    /\ cal' = [w \in Workers |-> None]
    /\ req' = [w \in Workers |-> None]
    /\ loc' = [w \in Workers |-> NoLocals]
    /\ his' = [w \in Workers |-> {}]
    /\ before' = None
    /\ UNCHANGED <<tables, given>>

-----------------------------------------------------------------------------
Init ==
    /\ cards = InitialCards /\ nextCard = Cardinality(DOMAIN InitialCards) + 1
    /\ journal = <<>> /\ nextEntry = 1
    /\ terminals = Serials
    /\ pc = [w \in Workers |-> "idle"]
    /\ cal = [w \in Workers |-> None]
    /\ req = [w \in Workers |-> None]
    /\ loc = [w \in Workers |-> NoLocals]
    /\ given = {<<i, InitialCards[i].own>> : i \in DOMAIN InitialCards}
    /\ his = [w \in Workers |-> {}]
    /\ before = None

StatementRuns(w) ==
    \/ FindCard(w) \/ FindTerminal(w) \/ SaveCard(w) \/ UpsertCard(w) \/ InsertEntry(w)
    \/ InsertCard(w) \/ ReadCard(w) \/ RemoveCard(w)
    \/ ReadEntry(w) \/ ReadEntryCard(w) \/ ReadNewCard(w)
    \/ SaveEntry(w) \/ UpsertEntry(w) \/ RemoveEntry(w)
    \/ EditTerminals(w)

Statement(w) == StatementRuns(w) \/ StatementFails(w)

Next ==
    \/ \E w \in Workers :
        Statement(w) \/ \E c \in Callers \cup {None}, r \in Requests : Accept(w, c, r)
    \/ Restart

Spec == Init /\ [][Next]_vars

-----------------------------------------------------------------------------
\* Types.  A journal row may name any id, or 0: nothing ties card_id to a card there is.
TypeOK ==
    /\ IsTable(cards, CardIds, CardRows) /\ nextCard \in 1 .. MaxCard + 1
    /\ IsTable(journal, EntryIds, Entries) /\ nextEntry \in 1 .. MaxEntry + 1
    /\ terminals \subseteq Serials
    /\ \A w \in Workers :
        /\ pc[w] \in PCs
        /\ cal[w] \in Callers \cup {None} /\ req[w] \in Requests \cup {None}
        /\ loc[w] \in Locals
    /\ given \subseteq CardIds \X Users /\ his \in [Workers -> SUBSET CardIds]
    /\ before \in {None} \/ DOMAIN before = {"cards", "journal", "terminals"}

\* However payments, edits, failures and restarts interleave, no card is driven
\* below zero: AuthorizePayment writes back a balance it computed from the one it
\* checked.
BalancesStayNonNegative == \A i \in DOMAIN cards : cards[i].bal >= 0

\* A card belongs to somebody an administrator, or its creation, gave it to, even
\* when a payment or its user's own edit writes back an old row: updateCard takes
\* user_id from an administrator only.
OwnersWereGiven == \A i \in DOMAIN cards : <<i, cards[i].own>> \in given

\* Is the journal row to land on a card that came with it?
BringsCard(w) == req[w].op \in {"createEntry", "updateEntry"} /\ req[w].nest # None

\* What a regular user changes are cards that were his at a statement of his own
\* request, even if the card, or the row he edits, changes hands under the handler:
\* no other card that exists is changed or deleted, and every journal row he writes is
\* on such a card.  Only an entry whose body brings a card lands on that one, since GORM
\* puts its id over the card_id that was checked; and it never changes a card there is.
KeepsToOwnCards ==
    [][\A w \in Workers :
        LET mine == his[w] \cup Owned(w) IN
        pc'[w] # pc[w] /\ Regular(w) =>
            /\ \A i \in DOMAIN cards \ mine : i \in DOMAIN cards' /\ cards'[i] = cards[i]
            /\ ~BringsCard(w) =>
                \A k \in DOMAIN journal' :
                    \/ k \in DOMAIN journal /\ journal'[k] = journal[k]
                    \/ journal'[k].card \in mine]_vars

\* The books of a payment: from d to e the card is charged if it can be, and the
\* journal gets one row that says so.
Books(r, d, e) ==
    /\ r.term \in d.terminals
    /\ \E i \in DOMAIN d.cards, k \in EntryIds \ DOMAIN d.journal :
        LET ok == ~d.cards[i].blk /\ d.cards[i].bal >= r.amt IN
        /\ d.cards[i].num = r.num
        /\ e.cards = IF ok THEN [d.cards EXCEPT ![i].bal = @ - r.amt] ELSE d.cards
        /\ e.journal = Put(d.journal, k, [card |-> i, amt |-> r.amt,
                                         st |-> IF ok THEN "approved" ELSE "declined"])

\* A payment that no other request overlaps, and no failure meets, is decided,
\* charged and journalled as one step of AuthorizePayment would have done it.
LonePaymentsAreBooked ==
    [][\A w \in Workers :
        (/\ before # None /\ pc[w] = "insertEntry" /\ pc'[w] = "idle"
         /\ req[w].op = "pay" /\ journal' # journal)
        => Books(req[w], before, Database')]_vars

\* What the page says of a payment: when it is approved the card is charged and
\* the journal shows it.  For requests that only pay: whenever none is in progress,
\* what a card has lost is what the journal says was approved.
ApprovedPaymentsAreCharged ==
    (\A w \in Workers : pc[w] = "idle") =>
        \A i \in DOMAIN InitialCards :
            LET approved == {k \in DOMAIN journal :
                                journal[k].card = i /\ journal[k].st = "approved"}
            IN  cards[i].bal + MapThenSumSet(LAMBDA k : journal[k].amt, approved)
                  = InitialCards[i].bal
=============================================================================
