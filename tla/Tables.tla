------------------------------- MODULE Tables -------------------------------
(***************************************************************************)
(* An SQL table with an integer key: a function from the ids that exist to *)
(* their rows.                                                             *)
(***************************************************************************)

\* f is a table: its keys are among Ids, its rows among Rows.
IsTable(f, Ids, Rows) == DOMAIN f \subseteq Ids /\ f \in [DOMAIN f -> Rows]

\* INSERT of a row under a new id, or UPDATE of the row of an old one.
Put(table, id, row) ==
    [i \in DOMAIN table \cup {id} |-> IF i = id THEN row ELSE table[i]]

\* DELETE by id: no row goes when there is none.
Without(table, id) == [i \in DOMAIN table \ {id} |-> table[i]]
=============================================================================
