----------------------------- MODULE MCPinEntry -----------------------------
(***************************************************************************)
(* Two taps, in any order; three digits and PINs of two; an amount with a  *)
(* digit in every nibble and one with a nibble that is none; data of one   *)
(* block and of a byte more.                                               *)
(***************************************************************************)
EXTENDS PinEntry, TLC

CONSTANTS a, b

MCRight == <<1, 2>>
MCGarbage == [j \in 1 .. 8 |-> 7]

key == <<1, 35, 69, 103, 137, 171, 205, 239, 1, 35, 69, 103, 137, 171, 205, 224>>
tag == <<159, 2, 6>>
MCInput ==
    (a :> [trd |-> tag \o <<0, 0, 18, 52, 86, 120>>, key |-> key,
           data |-> <<0, 0, 0, 0, 0, 0, 1, 2>>]) @@
    (b :> [trd |-> tag \o <<0, 0, 0, 0, 10, 0>>, key |-> key,
           data |-> <<1, 2, 3, 4, 5, 6, 7, 8, 1>>])
=============================================================================
