------------------------------- MODULE Ledger -------------------------------
(***************************************************************************)
(* What each request to the payment server means to its books: how the     *)
(* database a request leaves follows from the one it found, if nothing     *)
(* else happened in between.  No lock, statement or connection is in here. *)
(***************************************************************************)
EXTENDS BankTables, Functions

\* What a request that succeeds makes of database d: the relation between d
\* and the database e it leaves.

Authorized(r, d, e) ==
    /\ r.term \in d.terms
    /\ \E i \in CardsNumbered(d, r.num) :
        MayUse(r.usr, d, i) /\ ~d.cards[i].blk /\ d.cards[i].bal >= r.amt
    /\ TxnRoom(d)
    /\ e = InsertTxn(Credit(d, r.num, -r.amt), RowOf(r, TRUE))

\* A declined payment is journalled, and touches no balance.
Declined(r, d, e) ==
    /\ r.term \in d.terms
    /\ \E i \in CardsNumbered(d, r.num) :
        MayUse(r.usr, d, i) /\ (d.cards[i].blk \/ d.cards[i].bal < r.amt)
    /\ TxnRoom(d)
    /\ e = InsertTxn(d, RowOf(r, FALSE))

Recorded(r, d, e) ==
    /\ r.amt >= 0
    /\ r.term \in d.terms
    /\ \E i \in CardsNumbered(d, r.num) :
        MayUse(r.usr, d, i) /\ (r.ok => d.cards[i].bal >= r.amt)
    /\ TxnRoom(d)
    /\ e = InsertTxn(IF r.ok THEN Credit(d, r.num, -r.amt) ELSE d, RowOf(r, r.ok))

\* The balances after the old amount of transaction t has been given back.
Refunded(d, t) ==
    IF d.txns[t].ok THEN Credit(d, d.txns[t].num, d.txns[t].amt) ELSE d

\* ... and the new amount of request r has been taken.
Recharged(r, d) ==
    IF r.ok THEN Credit(Refunded(d, r.txn), r.num, -r.amt) ELSE Refunded(d, r.txn)

Amended(r, d, e) ==
    /\ r.amt >= 0
    /\ r.term \in d.terms
    /\ r.txn \in DOMAIN d.txns
    /\ MayUseTxn(r.usr, d, r.txn)
    /\ \E i \in CardsNumbered(d, r.num) : MayUse(r.usr, d, i)
    /\ r.ok => \E i \in CardsNumbered(Refunded(d, r.txn), r.num) :
        Refunded(d, r.txn).cards[i].bal >= r.amt
    /\ e = SetTxn(Recharged(r, d), r.txn, RowOf(r, r.ok))

\* What a request is shown before it takes effect, if it looks: the owner of the card
\* it names, or of the card of its transaction, or the transaction it replaces.
Shown(r, d) ==
    CASE r.op \in {"updateCard", "deleteCard"} ->
            {d.cards[i].own : i \in {r.card} \cap DOMAIN d.cards}
      [] r.op = "deleteTxn" ->
            {d.cards[i].own : i \in {j \in DOMAIN d.cards :
                r.txn \in DOMAIN d.txns /\ d.cards[j].num = d.txns[r.txn].num}}
      [] r.op = "updateTxn" -> {d.txns[t] : t \in {r.txn} \cap DOMAIN d.txns}
      [] OTHER -> {}

\* May r edit a card whose owner was o?  Only an administrator may give it away.
MayEdit(r, o) == r.usr \in Admins \/ (o = r.usr /\ r.own \in {Absent, o})

\* May r write, having seen s?  The owner is the one it was shown: no statement
\* compares it with the owner at the time of the write.
MayWrite(r, s) ==
    IF r.op = "updateCard" THEN s \in Users /\ MayEdit(r, s)
    ELSE r.usr \in Admins \/ s = r.usr

\* The row a request makes of a card, when it was owner's before.
CardRow(r, owner) ==
    [num |-> r.num, bal |-> r.bal, blk |-> r.blk,
     own |-> IF r.usr \in Admins /\ r.own # Absent THEN r.own ELSE owner]

TxnDropped(r, s, d, e) == MayWrite(r, s) /\ e = DropTxn(d, r.txn)

CardAdded(r, d, e) ==
    /\ NumberFree(d, d.nextCard, r.num) /\ CardRoom(d)
    /\ e = InsertCard(d, CardRow(r, r.usr))

\* A card is overwritten as a whole, its owner by the one that was seen.
CardEdited(r, s, d, e) ==
    /\ MayWrite(r, s) /\ CardUpdateAllowed(d, r.card, r.num)
    /\ e = SetCard(d, r.card, CardRow(r, s))

CardDropped(r, s, d, e) ==
    MayWrite(r, s) /\ ~CardReferenced(d, r.card) /\ e = DropCard(d, r.card)

TerminalAdded(r, d, e) ==
    r.term \notin d.terms /\ e = [d EXCEPT !.terms = d.terms \cup {r.term}]

TerminalDropped(r, d, e) ==
    ~TerminalReferenced(d, r.term) /\ e = [d EXCEPT !.terms = d.terms \ {r.term}]

\* The effect of request r answered with outcome o, if it had seen s.
Effect(r, s, o, d, e) ==
    CASE o = "approved" -> r.op = "authorize" /\ Authorized(r, d, e)
      [] o = "declined" -> r.op = "authorize" /\ (e = d \/ Declined(r, d, e))
      [] o = "done" ->
            \/ r.op = "createTxn" /\ Recorded(r, d, e)
            \/ r.op = "updateTxn" /\ Amended(r, d, e)
            \/ r.op = "deleteTxn" /\ TxnDropped(r, s, d, e)
            \/ r.op = "createCard" /\ CardAdded(r, d, e)
            \/ r.op = "updateCard" /\ CardEdited(r, s, d, e)
            \/ r.op = "deleteCard" /\ CardDropped(r, s, d, e)
            \/ r.op = "createTerminal" /\ TerminalAdded(r, d, e)
            \/ r.op = "deleteTerminal" /\ TerminalDropped(r, d, e)
            \/ r.op = "list" /\ e = d
      [] OTHER -> e = d

-----------------------------------------------------------------------------
\* The money on the cards with number n, which is on one card at most, and what
\* the approved transactions of that number have taken.
Balance(d, n) ==
    SumFunctionOnSet([i \in DOMAIN d.cards |-> d.cards[i].bal], CardsNumbered(d, n))
Approved(d, n) == {t \in DOMAIN d.txns : d.txns[t].num = n /\ d.txns[t].ok}
Spent(d, n) ==
    SumFunctionOnSet([t \in DOMAIN d.txns |-> d.txns[t].amt], Approved(d, n))

\* The value of card number n.
Worth(d, n) == Balance(d, n) + Spent(d, n)

\* Every transaction names a card and a terminal that exist, and no two cards
\* share a number (the FOREIGN KEYs of 00001_init.sql, which _fk=1 turns on).
ReferencesExist(d) ==
    /\ \A t \in DOMAIN d.txns : TxnKeysExist(d, d.txns[t])
    /\ \A i \in DOMAIN d.cards : CardsNumbered(d, d.cards[i].num) = {i}

\* The file the server opens was written under the same constraints.
ASSUME InitialReferencesAssumption == ReferencesExist(InitialDb)

=============================================================================
