--------------------------- MODULE RequestService ---------------------------
(***************************************************************************)
(* What a gateway instance promises to the client of a request, whatever   *)
(* the exits, the upstream and the administrator do: it sends the request  *)
(* upstream at most MaxAttempts times, gives the client at most one reply, *)
(* and once a reply has begun the request is not sent again.               *)
(***************************************************************************)
EXTENDS Naturals

CONSTANTS Requests, MaxAttempts

VARIABLES
    phase,   \* "idle", "trying", "replied" or "done"
    sends,   \* times the request went upstream
    replies  \* response headers the client received

vars == <<phase, sends, replies>>

Init ==
    /\ phase = [r \in Requests |-> "idle"]
    /\ sends = [r \in Requests |-> 0]
    /\ replies = [r \in Requests |-> 0]

Start(r) ==
    /\ phase[r] \in {"idle", "done"}
    /\ phase' = [phase EXCEPT ![r] = "trying"]
    /\ sends' = [sends EXCEPT ![r] = 0]
    /\ replies' = [replies EXCEPT ![r] = 0]

Attempt(r) ==
    /\ phase[r] = "trying"
    /\ sends[r] < MaxAttempts
    /\ sends' = [sends EXCEPT ![r] = @ + 1]
    /\ UNCHANGED <<phase, replies>>

Reply(r) ==
    /\ phase[r] = "trying"
    /\ phase' = [phase EXCEPT ![r] = "replied"]
    /\ replies' = [replies EXCEPT ![r] = 1]
    /\ UNCHANGED sends

\* A short reply ends with the request; a client that left gets none.
Return(r) ==
    /\ phase[r] \in {"trying", "replied"}
    /\ phase' = [phase EXCEPT ![r] = "done"]
    /\ sends' = [sends EXCEPT ![r] = 0]
    /\ \/ UNCHANGED replies
       \/ phase[r] = "trying" /\ replies' = [replies EXCEPT ![r] = 1]

Next == \E r \in Requests : Start(r) \/ Attempt(r) \/ Reply(r) \/ Return(r)

Spec == Init /\ [][Next]_vars
=============================================================================
