-------------------------- MODULE MCPaymentServer --------------------------
(***************************************************************************)
(* Small instances of PaymentServer: two requests at a time, two cards,    *)
(* amounts up to 2.  Each run picks the set of requests it is about.       *)
(***************************************************************************)
EXTENDS PaymentServer

CONSTANTS root, ann, bob, c1, c2, t1, t2

MCUsers == {root, ann, bob}
MCAdmins == {root}
MCNumbers == {c1, c2}
MCTerminals == {t1, t2}

\* ann's card c1 holds 2, bob's card c2 holds 1 and has paid 1 already.
MCInitialDb ==
    [cards |-> <<[num |-> c1, bal |-> 2, blk |-> FALSE, own |-> ann],
                 [num |-> c2, bal |-> 1, blk |-> FALSE, own |-> bob]>>,
     nextCard |-> 3,
     txns |-> <<[amt |-> 1, num |-> c2, term |-> t1, ok |-> TRUE]>>,
     nextTxn |-> 2,
     terms |-> {t1}]

Authorize(u, n, a, t) == [op |-> "authorize", usr |-> u, num |-> n, amt |-> a, term |-> t]
Record(u, n, a, t, b) ==
    [op |-> "createTxn", usr |-> u, num |-> n, amt |-> a, term |-> t, ok |-> b]
Amend(u, i, n, a, t, b) ==
    [op |-> "updateTxn", usr |-> u, txn |-> i, num |-> n, amt |-> a, term |-> t, ok |-> b]
Remove(u, i) == [op |-> "deleteTxn", usr |-> u, txn |-> i]
NewCard(u, n, a, b, o) ==
    [op |-> "createCard", usr |-> u, num |-> n, bal |-> a, blk |-> b, own |-> o]
EditCard(u, i, n, a, b, o) ==
    [op |-> "updateCard", usr |-> u, card |-> i, num |-> n, bal |-> a, blk |-> b, own |-> o]
RemoveCard(u, i) == [op |-> "deleteCard", usr |-> u, card |-> i]
AddTerminal(u, t) == [op |-> "createTerminal", usr |-> u, term |-> t]
RemoveTerminal(u, t) == [op |-> "deleteTerminal", usr |-> u, term |-> t]
List(u) == [op |-> "list", usr |-> u]

\* Payments of all three kinds on two cards.
PaymentRequests ==
    {Authorize(ann, c1, 2, t1), Authorize(root, c2, 1, t1), Authorize(bob, c1, 1, t1),
     Record(ann, c1, 1, t1, TRUE), Record(root, c2, 1, t2, TRUE), Record(root, c2, 2, t1, FALSE),
     Amend(bob, 1, c2, 2, t1, TRUE), Amend(root, 1, c1, 2, t1, TRUE), Amend(root, 2, c2, 0, t1, FALSE),
     Record(ann, c1, -1, t1, TRUE), List(ann)}

\* Cards, terminals and the journal are edited under a payment.
MaintenanceRequests ==
    {Authorize(ann, c1, 2, t1), Authorize(root, c2, 1, t2),
     Remove(bob, 1), Remove(root, 1),
     NewCard(ann, c1, 1, FALSE, Absent), NewCard(bob, c1, 1, FALSE, ann),
     NewCard(root, c1, 1, TRUE, bob), EditCard(ann, 1, c1, 1, TRUE, Absent),
     EditCard(root, 1, c2, 0, FALSE, Absent), EditCard(root, 1, c1, 2, FALSE, bob),
     RemoveCard(ann, 1), RemoveCard(root, 2), AddTerminal(root, t2),
     RemoveTerminal(root, t1), RemoveTerminal(ann, t1)}

\* A user edits his card while an administrator gives it to another.
ReassignRequests ==
    {EditCard(ann, 1, c1, 1, FALSE, Absent), EditCard(root, 1, c1, 2, FALSE, bob)}

=============================================================================
