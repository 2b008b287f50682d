------------------------------ MODULE Admission ------------------------------
(***************************************************************************)
(* Gateway.serve: how one gateway instance admits requests before forward  *)
(* carries them (internal/gateway/gateway.go).  Two buffered channels hold *)
(* the permits: `queue' for being inside at all, taken without blocking,   *)
(* and `sem' for running forward, for which a request blocks until its     *)
(* context ends.  Deferred calls give the permits back, sem before queue.  *)
(*                                                                         *)
(*    out         not in serve                                             *)
(*    admitted    holds a queue permit, about to ask for sem               *)
(*    waiting     blocked on sem                                           *)
(*    forwarding  holds both permits, inside forward                       *)
(*    leaving     holds the queue permit only, its reply is out            *)
(*                                                                         *)
(* The senders blocked on a Go channel are woken in the order in which     *)
(* they blocked, and a sender whose context ends leaves the line.          *)
(***************************************************************************)
EXTENDS Integers, FiniteSets

CONSTANTS
    Requests,        \* request goroutines that may run at once
    MaxConcurrency,  \* MAX_CONCURRENCY
    QueueSize        \* QUEUE_SIZE

ASSUME AdmissionAssumption ==
    /\ IsFiniteSet(Requests)
    /\ MaxConcurrency \in Nat \ {0}
    /\ QueueSize \in Nat

VARIABLES
    pc,     \* where the goroutine of each request stands
    ended,  \* the context of the request has ended
    ahead,  \* ahead[r]: the requests that blocked on sem before r did
    queue,  \* len(g.queue)
    sem     \* len(g.sem)

vars == <<pc, ended, ahead, queue, sem>>

Locations == {"out", "admitted", "waiting", "forwarding", "leaving"}

At(locations) == {r \in Requests : pc[r] \in locations}

Waiters == At({"waiting"})

Move(r, location) == pc' = [pc EXCEPT ![r] = location]

Init ==
    /\ pc = [r \in Requests |-> "out"]
    /\ ended = [r \in Requests |-> FALSE]
    /\ ahead = [r \in Requests |-> {}]
    /\ queue = 0
    /\ sem = 0

-----------------------------------------------------------------------------
\* A request that finds the queue full is answered 429 and changes nothing.
Admit(r) ==
    /\ pc[r] = "out"
    /\ queue < MaxConcurrency + QueueSize
    /\ queue' = queue + 1
    /\ Move(r, "admitted")
    /\ ended' = [ended EXCEPT ![r] = FALSE]
    /\ UNCHANGED <<ahead, sem>>

\* The line behind a request closes up when it leaves.
Leave(r) == ahead' = [q \in Requests |-> ahead[q] \ {r}]

\* A blocked request whose context ends is woken at once and out of the line;
\* it answers 504.
ContextEnds(r) ==
    /\ pc[r] \in {"admitted", "waiting", "forwarding"}
    /\ ~ended[r]
    /\ ended' = [ended EXCEPT ![r] = TRUE]
    /\ IF pc[r] = "waiting" THEN Move(r, "leaving") /\ Leave(r)
       ELSE UNCHANGED <<pc, ahead>>
    /\ UNCHANGED <<queue, sem>>

\* The select on sem and the context: a free permit is taken even by a request
\* whose context has ended, for select chooses at random.
Acquire(r) ==
    /\ pc[r] = "admitted"
    /\ sem < MaxConcurrency
    /\ sem' = sem + 1
    /\ Move(r, "forwarding")
    /\ UNCHANGED <<ended, ahead, queue>>

TimeOut(r) ==
    /\ pc[r] = "admitted"
    /\ ended[r]
    /\ Move(r, "leaving")
    /\ UNCHANGED <<ended, ahead, queue, sem>>

Block(r) ==
    /\ pc[r] = "admitted"
    /\ ~ended[r]
    /\ sem = MaxConcurrency
    /\ Move(r, "waiting")
    /\ ahead' = [ahead EXCEPT ![r] = Waiters]
    /\ UNCHANGED <<ended, queue, sem>>

\* Faulty variant: whoever happens to be woken takes the permit.
AnyWaiter(w) == w \in Waiters

First(w) == w \in Waiters /\ ahead[w] = {}

\* Faulty variant: the permit is freed without waking anybody.
FinishSilently(r) ==
    /\ pc[r] = "forwarding"
    /\ sem' = sem - 1
    /\ Move(r, "leaving")
    /\ UNCHANGED <<ended, ahead, queue>>

\* forward has returned.  The receive on sem hands the permit to the request
\* that has blocked longest, if any.
Finish(r) ==
    /\ pc[r] = "forwarding"
    /\ IF Waiters = {}
       THEN sem' = sem - 1 /\ Move(r, "leaving") /\ UNCHANGED ahead
       ELSE /\ \E w \in Requests :
                 /\ First(w)
                 /\ pc' = [pc EXCEPT ![r] = "leaving", ![w] = "forwarding"]
                 /\ Leave(w)
            /\ UNCHANGED sem
    /\ UNCHANGED <<ended, queue>>

\* Faulty variant: a request that timed out keeps its permit.
ExitUnlessEnded(r) ==
    /\ pc[r] = "leaving"
    /\ queue' = IF ended[r] THEN queue ELSE queue - 1
    /\ Move(r, "out")
    /\ UNCHANGED <<ended, ahead, sem>>

Exit(r) ==
    /\ pc[r] = "leaving"
    /\ queue' = queue - 1
    /\ Move(r, "out")
    /\ UNCHANGED <<ended, ahead, sem>>

-----------------------------------------------------------------------------
Next ==
    \E r \in Requests :
        \/ Admit(r) \/ ContextEnds(r) \/ Acquire(r) \/ TimeOut(r) \/ Block(r)
        \/ Finish(r) \/ Exit(r)

Spec == Init /\ [][Next]_vars

\* Every goroutine runs on, and forward returns (RequestReturns of Forward).
\* No context has to end.
Fairness ==
    \A r \in Requests :
        WF_vars(Acquire(r) \/ TimeOut(r) \/ Block(r) \/ Finish(r) \/ Exit(r))

LiveSpec == Spec /\ Fairness

-----------------------------------------------------------------------------
(* Properties *)

\* The types of the variables.
TypeOK ==
    /\ pc \in [Requests -> Locations]
    /\ ended \in [Requests -> BOOLEAN]
    /\ ahead \in [Requests -> SUBSET Requests]
    /\ queue \in 0 .. MaxConcurrency + QueueSize
    /\ sem \in 0 .. MaxConcurrency

\* No path through serve loses or duplicates a permit: each channel holds one
\* token for every request that is between its send and its deferred receive.
PermitsBalanced ==
    /\ queue = Cardinality(Requests \ At({"out"}))
    /\ sem = Cardinality(At({"forwarding"}))

\* No permit lies idle while a request is blocked.
WorkConserving == Waiters # {} => sem = MaxConcurrency

\* QUEUE_SIZE is the length of the line, although the channel that enforces
\* it counts the requests being served too.  The order in which the permits
\* are given back is what makes it so.
WaitersBounded == Cardinality(Waiters) <= QueueSize

\* A blocked request gets its permit, or its context ends, however many
\* others come and go.
Served ==
    \A r \in Requests : pc[r] = "waiting" ~> pc[r] = "forwarding" \/ ended[r]
=============================================================================
