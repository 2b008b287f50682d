------------------------------ MODULE BodyRelay ------------------------------
(***************************************************************************)
(* What forward relies on when it hands the body of a stream to the relay: *)
(* nothing reaches the client until the relay commits, a committed body is *)
(* never offered for another attempt, and the relay reports success only   *)
(* for a body it has committed.                                            *)
(***************************************************************************)
VARIABLES
    phase,  \* "open", "committed", "done", "retryable", "broken"
    sent    \* the client has received part of the body

vars == <<phase, sent>>

\* A body that is not held back is committed before it starts.
Init == phase \in {"open", "committed"} /\ sent = FALSE

Commit == phase = "open" /\ phase' = "committed" /\ sent' = TRUE

Relay == phase = "committed" /\ sent' = TRUE /\ UNCHANGED phase

Finish == phase = "committed" /\ phase' = "done" /\ UNCHANGED sent

Break ==
    /\ \/ phase = "open" /\ phase' = "retryable"
       \/ phase = "committed" /\ phase' = "broken"
    /\ UNCHANGED sent

Next == Commit \/ Relay \/ Finish \/ Break

Spec == Init /\ [][Next]_vars
=============================================================================
