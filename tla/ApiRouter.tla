------------------------------ MODULE ApiRouter ------------------------------
(***************************************************************************)
(* Server.proxyAPI: how the control plane spreads API requests over the    *)
(* gateway instances (internal/controlplane/server.go, docker.go).  Every  *)
(* request asks for the instances that may take it, looks each of them up  *)
(* in the readiness cache or probes it, takes the least loaded one whose   *)
(* circuit is closed, and reports how that went.                           *)
(*                                                                         *)
(*    out        not in proxyAPI                                           *)
(*    preflight  apiInstanceReady runs for each of the instances `asked';  *)
(*               those it has begun to probe are `probing'                 *)
(*    routed     the proxied request is with instance `at'                 *)
(*    relaying   a response below 500 arrived, its body is being copied    *)
(*    leaving    answered, the instance not yet released                   *)
(*                                                                         *)
(* Instants are kept as the time that is left; a circuit that is absent    *)
(* from the code's map has no failures here.  Which of several equally     *)
(* loaded instances is taken (apiCursor) is left open.                     *)
(***************************************************************************)
EXTENDS Integers, FiniteSets

CONSTANTS
    Requests,
    Instances,       \* instances the control plane knows
    Provider,        \* Provider[i]: the upstream instance i serves
    Proxied,         \* the instances that have proxy exits
    DirectFallback,  \* DIRECT_FALLBACK
    AnyProvider,     \* a request that names no model
    Unparsable,      \* instances whose URL does not parse
    CircuitBase,     \* 15 s
    CircuitMax,      \* 2 min
    MaxFailures,     \* BOUND: failure counters stop here; the backoff is flat
    ReadyFor,        \* 5 s: how long a good probe is believed
    UnreadyFor,      \* 1 s: how long a bad one is
    Switchable,      \* instances the administrator starts and stops
    Faults           \* "gateway": instances may fail; "client": clients may
                     \* leave; "body": bodies may be too long for the router

ASSUME RouterAssumption ==
    /\ IsFiniteSet(Instances)
    /\ Proxied \subseteq Instances
    /\ Unparsable \subseteq Instances
    /\ Switchable \subseteq Instances
    /\ DirectFallback \in BOOLEAN
    /\ CircuitBase \in Nat \ {0}
    /\ CircuitMax \in Nat
    /\ CircuitBase <= CircuitMax
    /\ CircuitBase * 2 ^ (MaxFailures - 1) >= CircuitMax
    /\ MaxFailures \in Nat \ {0}
    /\ \A n \in 1 .. MaxFailures : 2 ^ (n - 1) \in Nat \ {0}  \* arithmetic, for the proofs
    /\ ReadyFor \in Nat
    /\ UnreadyFor \in Nat
    /\ Faults \subseteq {"gateway", "client", "body"}

VARIABLES
    running,    \* the instances whose container runs
    inflight,   \* apiInflight
    circuits,   \* apiCircuits
    readiness,  \* apiReadiness
    req,        \* the requests
    rest        \* HISTORY: rest[i]: what is left of the shortest circuit since
                \* i failed last, 0 if it has succeeded since

vars == <<running, inflight, circuits, readiness, req, rest>>

Closed == [failures |-> 0, until |-> 0]

Unknown == [healthy |-> FALSE, left |-> 0]

Away == [pc |-> "out", asked |-> {}, probing |-> {}, ready |-> {},
         at |-> CHOOSE i \in Instances : TRUE, outcome |-> "none"]

Init ==
    /\ running \in {Instances \ off : off \in SUBSET Switchable}
    /\ inflight = [i \in Instances |-> 0]
    /\ circuits = [i \in Instances |-> Closed]
    /\ readiness = [i \in Instances |-> Unknown]
    /\ req = [r \in Requests |-> Away]
    /\ rest = [i \in Instances |-> 0]

-----------------------------------------------------------------------------
\* selectTrafficPool: instances with proxies shut the others out.
TrafficPool(known) ==
    LET up == known \cap running
    IN  IF up \cap Proxied # {} /\ ~DirectFallback THEN up \cap Proxied ELSE up

\* The key and the model have been accepted; a model that no instance serves,
\* or a pool without running instances, is answered 503 below.
Begin(r) ==
    /\ req[r].pc = "out"
    /\ \E p \in {Provider[i] : i \in Instances} \cup {AnyProvider} :
         LET known == {i \in Instances : p \in {AnyProvider, Provider[i]}}
         IN  req' = [req EXCEPT ![r] = [Away EXCEPT !.pc = "preflight",
                                                    !.asked = TrafficPool(known)]]
    /\ UNCHANGED <<running, inflight, circuits, readiness, rest>>

Believed(i) == readiness[i].left > 0

Verdict(r, i, healthy) ==
    req' = [req EXCEPT ![r].asked = @ \ {i}, ![r].probing = @ \ {i},
                       ![r].ready = IF healthy THEN @ \cup {i} ELSE @]

LookUp(r, i) ==
    /\ req[r].pc = "preflight"
    /\ i \in req[r].asked \ req[r].probing
    /\ IF Believed(i) THEN Verdict(r, i, readiness[i].healthy)
       ELSE req' = [req EXCEPT ![r].probing = @ \cup {i}]
    /\ UNCHANGED <<running, inflight, circuits, readiness, rest>>

\* The probe runs without a lock: what it saw is written over whatever has
\* been recorded meanwhile.
Probe(r, i) ==
    /\ i \in req[r].probing
    /\ \E healthy \in BOOLEAN :
         /\ ~healthy => "gateway" \in Faults
         /\ Verdict(r, i, healthy)
         /\ readiness' = [readiness EXCEPT ![i] =
                            [healthy |-> healthy,
                             left |-> IF healthy THEN ReadyFor ELSE UnreadyFor]]
    /\ UNCHANGED <<running, inflight, circuits, rest>>

\* acquireAPIInstance drops the circuits of the pool that have run out.
Kept(r) ==
    [i \in Instances |->
        IF i \in req[r].ready /\ circuits[i].until = 0 THEN Closed ELSE circuits[i]]

\* Faulty variant: circuits are looked at only if every instance is closed.
AvailableAlways(r) == req[r].ready

Available(r) ==
    LET closed == {i \in req[r].ready : Kept(r)[i] = Closed}
    IN  IF closed # {} THEN closed ELSE req[r].ready

LeastLoaded(S) == {i \in S : \A j \in S : inflight[i] <= inflight[j]}

Acquire(r) ==
    /\ req[r].pc = "preflight"
    /\ req[r].asked = {}
    /\ req[r].ready # {}
    /\ circuits' = Kept(r)
    /\ \E i \in LeastLoaded(Available(r)) :
         /\ inflight' = [inflight EXCEPT ![i] = @ + 1]
         /\ req' = [req EXCEPT ![r].at = i,
                               ![r].pc = IF i \in Unparsable THEN "out" ELSE "routed",
                               ![r].outcome = IF i \in Unparsable THEN "invalid"
                                              ELSE "none"]
    /\ UNCHANGED <<running, readiness, rest>>

NoHealthyInstance(r) ==
    /\ req[r].pc = "preflight"
    /\ req[r].asked = {} /\ req[r].ready = {}
    /\ req' = [req EXCEPT ![r].pc = "out", ![r].outcome = "no_healthy"]
    /\ UNCHANGED <<running, inflight, circuits, readiness, rest>>

-----------------------------------------------------------------------------
OpenFor(n) ==
    LET doubled == CircuitBase * 2 ^ (n - 1)
    IN  IF doubled < CircuitMax THEN doubled ELSE CircuitMax

\* markAPIInstanceFailure, markAPIInstanceSuccess.
MarkFailure(i) ==
    LET n == IF circuits[i].failures < MaxFailures THEN circuits[i].failures + 1
             ELSE MaxFailures
    IN  /\ circuits' = [circuits EXCEPT ![i] = [failures |-> n, until |-> OpenFor(n)]]
        /\ readiness' = [readiness EXCEPT ![i] = [healthy |-> FALSE, left |-> UnreadyFor]]
        /\ rest' = [rest EXCEPT ![i] = CircuitBase]

MarkSuccess(i) ==
    /\ circuits' = [circuits EXCEPT ![i] = Closed]
    /\ readiness' = [readiness EXCEPT ![i] = [healthy |-> TRUE, left |-> ReadyFor]]
    /\ rest' = [rest EXCEPT ![i] = 0]

Answered(r, outcome) ==
    req' = [req EXCEPT ![r].pc = "leaving", ![r].outcome = outcome]

\* The instance is not reached or answers 5xx.
Fail(r) ==
    /\ "gateway" \in Faults
    /\ req[r].pc = "routed"
    /\ MarkFailure(req[r].at)
    /\ Answered(r, "bad_gateway")
    /\ UNCHANGED <<running, inflight>>

\* A body of more than 8 MiB was cut when the model was looked for in it and
\* goes on under its old Content-Length: the transport gives the exchange up.
CutBody(r) ==
    /\ "body" \in Faults
    /\ req[r].pc = "routed"
    /\ MarkFailure(req[r].at)
    /\ Answered(r, "bad_gateway")
    /\ UNCHANGED <<running, inflight>>

Respond(r) ==
    /\ req[r].pc = "routed"
    /\ req' = [req EXCEPT ![r].pc = "relaying"]
    /\ UNCHANGED <<running, inflight, circuits, readiness, rest>>

\* observedResponseBody reports the end of the body, or the first error.
Complete(r) ==
    /\ req[r].pc = "relaying"
    /\ MarkSuccess(req[r].at)
    /\ Answered(r, "complete")
    /\ UNCHANGED <<running, inflight>>

Truncate(r) ==
    /\ "gateway" \in Faults
    /\ req[r].pc = "relaying"
    /\ MarkFailure(req[r].at)
    /\ Answered(r, "truncated")
    /\ UNCHANGED <<running, inflight>>

\* A client that leaves cancels the proxied request: before the response this
\* reaches the error handler, later the next read of the body fails, unless
\* the write to the client fails first.
ClientLeaves(r) ==
    /\ "client" \in Faults
    /\ req[r].pc \in {"routed", "relaying"}
    /\ \/ MarkFailure(req[r].at)
       \/ req[r].pc = "relaying" /\ UNCHANGED <<circuits, readiness, rest>>
    /\ Answered(r, "left")
    /\ UNCHANGED <<running, inflight>>

\* Faulty variant: only a complete response is released.
ReleaseCompleted(r) ==
    /\ req[r].pc = "leaving"
    /\ inflight' = IF req[r].outcome = "complete"
                   THEN [inflight EXCEPT ![req[r].at] = @ - 1] ELSE inflight
    /\ req' = [req EXCEPT ![r].pc = "out"]
    /\ UNCHANGED <<running, circuits, readiness, rest>>

Release(r) ==
    /\ req[r].pc = "leaving"
    /\ inflight' = [inflight EXCEPT ![req[r].at] = IF @ > 1 THEN @ - 1 ELSE 0]
    /\ req' = [req EXCEPT ![r].pc = "out"]
    /\ UNCHANGED <<running, circuits, readiness, rest>>

-----------------------------------------------------------------------------
\* The administrator starts and stops instances.
SwitchInstance(i) ==
    /\ i \in Switchable
    /\ running' = IF i \in running THEN running \ {i} ELSE running \cup {i}
    /\ UNCHANGED <<inflight, circuits, readiness, req, rest>>

Less(t) == IF t > 0 THEN t - 1 ELSE 0

Tick ==
    /\ \E i \in Instances : circuits[i].until > 0 \/ readiness[i].left > 0
    /\ circuits' = [i \in Instances |-> [circuits[i] EXCEPT !.until = Less(@)]]
    /\ readiness' = [i \in Instances |->
                       IF readiness[i].left > 1
                       THEN [readiness[i] EXCEPT !.left = Less(@)] ELSE Unknown]
    /\ rest' = [i \in Instances |-> Less(rest[i])]
    /\ UNCHANGED <<running, inflight, req>>

Preflight(r) == \E i \in Instances : LookUp(r, i) \/ Probe(r, i)

Finish(r) ==
    \/ Fail(r) \/ CutBody(r) \/ Respond(r) \/ Complete(r) \/ Truncate(r)
    \/ ClientLeaves(r)

Next ==
    \/ \E r \in Requests :
         \/ Begin(r) \/ Preflight(r) \/ Acquire(r) \/ NoHealthyInstance(r)
         \/ Finish(r) \/ Release(r)
    \/ \E i \in Instances : SwitchInstance(i)
    \/ Tick

Spec == Init /\ [][Next]_vars

-----------------------------------------------------------------------------
(* Properties *)

\* The load by which instances are compared is the number of requests they
\* have; only an instance whose URL does not parse is charged for requests
\* that never went there.
LoadIsCounted ==
    \A i \in Instances \ Unparsable :
        inflight[i] = Cardinality({r \in Requests :
            req[r].at = i /\ req[r].pc \in {"routed", "relaying", "leaving"}})

\* An instance that failed is left alone for the shortest circuit time, in
\* spite of probes that say otherwise, unless it has completed a request since
\* or every instance of the pool has failed as well.
LeavesFailedAlone ==
    [][\A r \in Requests :
          req[r].pc = "preflight" /\ req'[r].pc = "routed" =>
              \/ rest[req'[r].at] = 0
              \/ \A i \in req[r].ready : circuits[i].until > 0]_vars

\* While every instance runs and none of them fails, no request is refused
\* for want of a healthy instance (README on the traffic pool).
OutageIsReal ==
    Switchable = {} /\ "gateway" \notin Faults =>
        \A r \in Requests : req[r].outcome # "no_healthy"
=============================================================================
