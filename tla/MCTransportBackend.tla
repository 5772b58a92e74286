------------------------- MODULE MCTransportBackend -------------------------
(***************************************************************************)
(* Small instances of TransportBackend: one card of a user who has one     *)
(* more user beside him, an administrator, one terminal.                   *)
(***************************************************************************)
EXTENDS TransportBackend, TLC

CONSTANTS n1, n2, t1, w1, w2

Admin == [id |-> 1, adm |-> TRUE]
Owner == [id |-> 2, adm |-> FALSE]
Other == [id |-> 3, adm |-> FALSE]
MCCallers == {Admin, Owner, Other}

Row(n, b, o) == [num |-> n, bal |-> b, blk |-> FALSE, own |-> o]
OneCard == (1 :> Row(n1, 2, 2))

Pay(n, a) == [op |-> "pay", num |-> n, amt |-> a, term |-> t1]
EditCard(i, row) == [op |-> "updateCard", id |-> i, row |-> row]
Entry(i, a) == [card |-> i, amt |-> a, st |-> "pending"]
Nest(i, n, o) == [id |-> i, row |-> Row(n, 1, o)]

\* The workers are alike: every property is one of all of them.
Alike == Permutations({w1, w2})

\* Payments beside edits of the card they pay with, and of the journal, with and
\* without a card in the body.
MixedRequests ==
    {Pay(n1, 1),
     [op |-> "createCard", id |-> 0, row |-> Row(n2, 1, 3)],
     EditCard(1, Row(n1, 1, 0)), EditCard(1, [Row(n1, 2, 3) EXCEPT !.blk = TRUE]),
     [op |-> "deleteCard", id |-> 1],
     [op |-> "createEntry", id |-> 0, entry |-> Entry(1, 1), nest |-> None, term |-> None],
     [op |-> "createEntry", id |-> 1, entry |-> Entry(0, 1),
      nest |-> Nest(0, n2, 2), term |-> t1],
     [op |-> "updateEntry", id |-> 1, entry |-> Entry(2, 1), nest |-> None, term |-> None],
     [op |-> "updateEntry", id |-> 1, entry |-> Entry(1, 1),
      nest |-> Nest(1, n1, 3), term |-> None],
     [op |-> "deleteEntry", id |-> 1],
     [op |-> "createTerminal", term |-> t1], [op |-> "deleteTerminal", term |-> t1]}

\* Nothing but payments.
PaymentRequests == {Pay(n1, 1), Pay(n1, 2)}
=============================================================================
