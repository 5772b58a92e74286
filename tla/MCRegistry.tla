----------------------------- MODULE MCRegistry -----------------------------
(***************************************************************************)
(* Small instances of Registry: the built-in administrator, one more login *)
(* and one card number.  Each run picks the requests it is about.          *)
(***************************************************************************)
EXTENDS Registry

CONSTANTS admin, ann, secret, word, n1, v1, v2

MCLogins == {admin, ann}
MCPasswords == {Empty, secret, word}
MCNumbers == {n1}
MCValues == {v1, v2}

LogIn(l, p) == [op |-> "login", login |-> l, pass |-> p]
NewUser(l, p, a) == [op |-> "createUser", login |-> l, pass |-> p, adm |-> a]
EditUser(i, l, p, a) == [op |-> "updateUser", id |-> i, login |-> l, pass |-> p, adm |-> a]
RemoveUser(i) == [op |-> "deleteUser", id |-> i]
NewKey(v) == [op |-> "createKey", val |-> v]
EditKey(k, v) == [op |-> "updateKey", key |-> k, val |-> v]
RemoveKey(k) == [op |-> "deleteKey", key |-> k]
NewCard(n, k, o) == [op |-> "createCard", card |-> n, key |-> k, own |-> o]
EditCard(n, k, o) == [op |-> "updateCard", card |-> n, key |-> k, own |-> o]
RemoveCard(n) == [op |-> "deleteCard", card |-> n]

\* Accounts are made, edited by two at a time, promoted and deleted.
AccountRequests ==
    {LogIn(admin, secret), LogIn(ann, word), NewUser(ann, word, FALSE),
     EditUser(2, ann, Empty, Unset), EditUser(2, ann, word, TRUE),
     RemoveUser(2), RemoveUser(1)}

\* Cards refer to users and keys that are being deleted.
ReferenceRequests ==
    {LogIn(admin, secret), LogIn(ann, word), NewUser(ann, word, FALSE), RemoveUser(2),
     NewKey(v1), EditKey(1, v2), RemoveKey(1), NewCard(n1, 1, Unset), NewCard(n1, 1, 2),
     EditCard(n1, 1, 2), RemoveCard(n1)}
=============================================================================
