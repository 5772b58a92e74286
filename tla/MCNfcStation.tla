---------------------------- MODULE MCNfcStation ----------------------------
(***************************************************************************)
(* A station with one card the operator holds, which the backend believes  *)
(* to be empty, and a blank one that may lie on the reader at first.  Any  *)
(* two actions follow each other, and a payment overlaps any other.        *)
(***************************************************************************)
EXTENDS NfcStation, TLC

CONSTANTS u1, u2, t1, b1, b2,
          short, long, cut, front,   \* names: long is too long for the chip
          e, x, y, z, q              \* halves of names; e is empty

\* long is cut in the middle of a letter, which comes back as another: cut.
MCEncoded == (short :> <<x, e>>) @@ (long :> <<y, z>>) @@ (cut :> <<y, q>>) @@ (front :> <<y, e>>)
MCDecoded ==
    [p \in Halves \X Halves |->
        CASE p = <<y, e>> -> front
          [] p[1] = y /\ p[2] \in {z, q} -> cut
          [] OTHER -> short]

MCChips == (u1 :> [magic |-> TRUE, bal |-> 1, lo |-> x, hi |-> e])
        @@ (u2 :> [magic |-> FALSE, bal |-> 0, lo |-> e, hi |-> e])
MCCards == (1 :> [num |-> u1, bal |-> 0, blk |-> FALSE, own |-> 2])

MCJobs == {[op |-> "read"], [op |-> "register", name |-> long, bal |-> 1],
           [op |-> "pay", amt |-> 1, term |-> t1], [op |-> "topUp", amt |-> 1, term |-> t1]}
MCJobsOf == (b1 :> MCJobs) @@ (b2 :> {j \in MCJobs : j.op = "pay"})
=============================================================================
