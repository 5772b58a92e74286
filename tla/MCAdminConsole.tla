--------------------------- MODULE MCAdminConsole ---------------------------
(***************************************************************************)
(* A console whose user logs in as the administrator or the regular user   *)
(* of the seed, and a second administrator elsewhere.                      *)
(***************************************************************************)
EXTENDS AdminConsole

CONSTANTS admin, user, p, q

MCEdits == {[login |-> user, pass |-> p]}
MCOthers == {[op |-> "updateUser", id |-> 2, login |-> user, pass |-> Empty, adm |-> TRUE]}
=============================================================================
