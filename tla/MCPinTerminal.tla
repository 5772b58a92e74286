--------------------------- MODULE MCPinTerminal ---------------------------
(***************************************************************************)
(* Small instances of PinTerminal: two or three taps; a PIN that is right, *)
(* one that is wrong, and none.                                            *)
(***************************************************************************)
EXTENDS PinTerminal

CONSTANT wrong

MCPins == {Right, wrong, Empty}
=============================================================================
