------------------------------ MODULE MCForward ------------------------------
(* Instances of Forward for TLC. *)
EXTENDS Forward, TLC

CONSTANTS r1, m1, m2, none, e1, e2

\* Two proxies share e1, the third has e2.
SharedExit == <<{e1}, {e1}, {e2}>>
\* A direct exit whose address changes.
OneMoving == <<{e1, e2}>>
=============================================================================
