--------------------------- MODULE MCForwardHistory ---------------------------
(* Instances of ForwardHistory for TLC. *)
EXTENDS ForwardHistory

CONSTANTS r1, m1, none, e1

OneFixedExit == <<{e1}>>
=============================================================================
