------------------------------ MODULE MCKeySync ------------------------------
(* An instance of KeySync for TLC: a key, and one that is split in two; a       *)
(* bounded number of operations and restarts.                                  *)
EXTENDS KeySync, Naturals

CONSTANT MaxBegun

VARIABLE begun

PiecesOf == [k \in {"a", "b,c"} |-> IF k = "a" THEN {"a"} ELSE {"b", "c"}]

MCInit == Init /\ begun = 0

MCNext ==
    \/ Begins /\ begun < MaxBegun /\ begun' = begun + 1
    \/ Proceeds /\ UNCHANGED begun
    \/ Quiet /\ begun = MaxBegun /\ UNCHANGED <<vars, begun>>

MCSpec == MCInit /\ [][MCNext]_<<vars, begun>>
=============================================================================
