----------------------------- MODULE MCApiRouter -----------------------------
(* Instances of ApiRouter for TLC. *)
EXTENDS ApiRouter, TLC

CONSTANTS r1, r2, a, b, c, tokenrouter, opencode

OneProvider == [i \in Instances |-> tokenrouter]

Symmetry == Permutations({r1, r2})
=============================================================================
