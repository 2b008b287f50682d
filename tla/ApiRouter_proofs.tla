-------------------------- MODULE ApiRouter_proofs --------------------------
(***************************************************************************)
(* The load of an instance is counted exactly, for any number of requests  *)
(* and instances: Acquire counts the request it routes, every way out of   *)
(* an exchange leads to Release, and nothing else touches the counters.    *)
(*                                                                         *)
(* A failed instance is left alone because no circuit closes before its    *)
(* rest is over (CircuitInv).  And a request finds an instance as long as  *)
(* all of them run, none fails, no client leaves and no body is cut: what  *)
(* is believed of an instance is then good (UpInv).                        *)
(***************************************************************************)
EXTENDS ApiRouter, FiniteSetTheorems, TLAPS

Phases == {"out", "preflight", "routed", "relaying", "leaving"}

Outcomes ==
    {"none", "invalid", "no_healthy", "bad_gateway", "complete", "truncated", "left"}

RequestRecords ==
    [ pc : Phases, asked : SUBSET Instances, probing : SUBSET Instances,
      ready : SUBSET Instances, at : Instances \cup {Away.at}, outcome : Outcomes ]

Routing(q) == q.pc \in {"routed", "relaying", "leaving"}

Carried(i) == {r \in Requests : req[r].at = i /\ Routing(req[r])}

LoadInv ==
    /\ req \in [Requests -> RequestRecords]
    /\ DOMAIN inflight = Instances
    /\ \A i \in Instances \ Unparsable :
         IsFiniteSet(Carried(i)) /\ inflight[i] = Cardinality(Carried(i))

-----------------------------------------------------------------------------
LEMMA AwayType == Away \in RequestRecords
BY DEF Away, RequestRecords, Phases, Outcomes

LEMMA RequestTypes ==
  ASSUME req \in [Requests -> RequestRecords], [Next]_vars
  PROVE  req' \in [Requests -> RequestRecords]
<1> USE DEF RequestRecords, Phases, Outcomes
<1>1. ASSUME NEW r \in Requests, Begin(r) PROVE req' \in [Requests -> RequestRecords]
  <2>1. PICK pool \in SUBSET Instances :
          req' = [req EXCEPT ![r] = [Away EXCEPT !.pc = "preflight", !.asked = pool]]
    BY <1>1 DEF Begin, TrafficPool
  <2>2. [Away EXCEPT !.pc = "preflight", !.asked = pool] \in RequestRecords
    BY AwayType
  <2> QED
    BY <2>1, <2>2
<1>verdict. ASSUME NEW r \in Requests, NEW i \in Instances, NEW healthy,
                   Verdict(r, i, healthy)
            PROVE  req' \in [Requests -> RequestRecords]
  <2>1. req[r] \in RequestRecords
    OBVIOUS
  <2>2. PICK ready \in SUBSET Instances :
          req' = [req EXCEPT ![r].asked = req[r].asked \ {i},
                             ![r].probing = req[r].probing \ {i},
                             ![r].ready = ready]
    BY <1>verdict DEF Verdict
  <2> QED
    BY <2>1, <2>2
<1>2. ASSUME NEW r \in Requests, NEW i \in Instances, LookUp(r, i)
      PROVE  req' \in [Requests -> RequestRecords]
  BY <1>2, <1>verdict DEF LookUp
<1>3. ASSUME NEW r \in Requests, NEW i \in Instances, Probe(r, i)
      PROVE  req' \in [Requests -> RequestRecords]
  BY <1>3, <1>verdict DEF Probe
<1>4. ASSUME NEW r \in Requests, Acquire(r) PROVE req' \in [Requests -> RequestRecords]
  <2>1. PICK i \in req[r].ready :
          req' = [req EXCEPT ![r].at = i,
                             ![r].pc = IF i \in Unparsable THEN "out" ELSE "routed",
                             ![r].outcome = IF i \in Unparsable THEN "invalid"
                                            ELSE "none"]
    BY <1>4 DEF Acquire, LeastLoaded, Available
  <2>2. req[r] \in RequestRecords /\ i \in Instances
    OBVIOUS
  <2>3. PICK pc \in {"out", "routed"}, outcome \in {"invalid", "none"} :
          req' = [req EXCEPT ![r].at = i, ![r].pc = pc, ![r].outcome = outcome]
    BY <2>1
  <2> DEFINE x == [req[r] EXCEPT !.at = i, !.pc = pc, !.outcome = outcome]
  <2>4. x \in RequestRecords
    BY <2>2
  <2>5. req' = [req EXCEPT ![r] = x]
    BY <2>3
  <2> HIDE DEF x
  <2> QED
    BY <2>4, <2>5
<1>5. ASSUME NEW r \in Requests, NoHealthyInstance(r) \/ Respond(r) \/ Release(r)
      PROVE  req' \in [Requests -> RequestRecords]
  BY <1>5 DEF NoHealthyInstance, Respond, Release
<1>6. ASSUME NEW r \in Requests,
             Fail(r) \/ CutBody(r) \/ Complete(r) \/ Truncate(r) \/ ClientLeaves(r)
      PROVE  req' \in [Requests -> RequestRecords]
  BY <1>6 DEF Fail, CutBody, Complete, Truncate, ClientLeaves, Answered
<1>7. CASE UNCHANGED req
  BY <1>7
<1> QED
  BY <1>1, <1>2, <1>3, <1>4, <1>5, <1>6, <1>7
     DEF Next, Preflight, Finish, SwitchInstance, Tick, vars

\* A step after which every request is routed where it was routed before.
LEMMA SameLoad ==
  ASSUME LoadInv, req' \in [Requests -> RequestRecords], UNCHANGED inflight,
         \A r \in Requests : \/ ~Routing(req[r]) /\ ~Routing(req'[r])
                             \/ /\ Routing(req[r]) /\ Routing(req'[r])
                                /\ req'[r].at = req[r].at
  PROVE  LoadInv'
<1>1. \A i : Carried(i)' = Carried(i)
  BY DEF Carried, Routing
<1> QED
  BY <1>1 DEF LoadInv

LEMMA AcquireCounts ==
  ASSUME LoadInv, req' \in [Requests -> RequestRecords], NEW r \in Requests, Acquire(r)
  PROVE  LoadInv'
<1>r. req[r] \in RequestRecords /\ ~Routing(req[r])
  BY DEF LoadInv, Acquire, Routing
<1>1. PICK i \in req[r].ready :
        /\ inflight' = [inflight EXCEPT ![i] = @ + 1]
        /\ req' = [req EXCEPT ![r].at = i,
                              ![r].pc = IF i \in Unparsable THEN "out" ELSE "routed",
                              ![r].outcome = IF i \in Unparsable THEN "invalid"
                                             ELSE "none"]
  BY DEF Acquire, LeastLoaded, Available
<1>2. i \in Instances /\ DOMAIN inflight' = Instances
  BY <1>r, <1>1 DEF RequestRecords, LoadInv
<1>3. /\ req'[r].at = i
      /\ Routing(req'[r]) <=> i \notin Unparsable
      /\ \A t \in Requests \ {r} : req'[t] = req[t]
  BY <1>r, <1>1 DEF LoadInv, Routing, RequestRecords
<1>4. ASSUME NEW k \in Instances \ Unparsable
      PROVE  IsFiniteSet(Carried(k)') /\ inflight'[k] = Cardinality(Carried(k)')
  <2>0. IsFiniteSet(Carried(k)) /\ inflight[k] = Cardinality(Carried(k))
    BY DEF LoadInv
  <2>1. CASE k = i
    <3>1. Carried(k)' = Carried(k) \cup {r}
      BY <1>3, <2>1 DEF Carried, Routing
    <3>2. r \notin Carried(k)
      BY <1>r DEF Carried, Routing
    <3>3. inflight'[k] = inflight[k] + 1
      BY <1>1, <1>2, <2>1 DEF LoadInv
    <3> QED
      BY <2>0, <3>1, <3>2, <3>3, FS_AddElement
  <2>2. CASE k # i
    <3>1. Carried(k)' = Carried(k)
      BY <1>r, <1>3, <2>2 DEF Carried, Routing
    <3>2. inflight'[k] = inflight[k]
      BY <1>1, <2>2 DEF LoadInv
    <3> QED
      BY <2>0, <3>1, <3>2
  <2> QED
    BY <2>1, <2>2
<1> QED
  BY <1>2, <1>4 DEF LoadInv

LEMMA ReleaseCounts ==
  ASSUME LoadInv, req' \in [Requests -> RequestRecords], NEW r \in Requests, Release(r)
  PROVE  LoadInv'
<1> DEFINE i == req[r].at
<1>r. req[r] \in RequestRecords /\ Routing(req[r])
  BY DEF LoadInv, Release, Routing
<1>1. inflight' = [inflight EXCEPT ![i] = IF inflight[i] > 1 THEN inflight[i] - 1 ELSE 0]
  BY DEF Release
<1>2. /\ ~Routing(req'[r])
      /\ \A t \in Requests \ {r} : req'[t] = req[t]
  BY <1>r DEF Release, LoadInv, Routing, RequestRecords
<1>3. ASSUME NEW k \in Instances \ Unparsable
      PROVE  IsFiniteSet(Carried(k)') /\ inflight'[k] = Cardinality(Carried(k)')
  <2>0. IsFiniteSet(Carried(k)) /\ inflight[k] = Cardinality(Carried(k))
    BY DEF LoadInv
  <2>1. CASE k = i
    <3> DEFINE had == Cardinality(Carried(k))
               has == Cardinality(Carried(k) \ {r})
    <3>1. Carried(k)' = Carried(k) \ {r} /\ r \in Carried(k)
      BY <1>r, <1>2, <2>1 DEF Carried, Routing
    <3>2. IsFiniteSet(Carried(k) \ {r}) /\ has = had - 1
      BY <2>0, <3>1, FS_RemoveElement
    <3>3. had \in Nat /\ has \in Nat
      BY <2>0, <3>2, FS_CardinalityType
    <3>4. inflight'[k] = IF had > 1 THEN had - 1 ELSE 0
      BY <1>1, <2>0, <2>1 DEF LoadInv
    <3> HIDE DEF had, has
    <3>5. inflight'[k] = has
      BY <3>2, <3>3, <3>4
    <3> QED
      BY <3>1, <3>2, <3>5 DEF has
  <2>2. CASE k # i
    <3>1. Carried(k)' = Carried(k)
      BY <1>2, <2>2 DEF Carried, Routing
    <3>2. inflight'[k] = inflight[k]
      BY <1>1, <2>2 DEF LoadInv
    <3> QED
      BY <2>0, <3>1, <3>2
  <2> QED
    BY <2>1, <2>2
<1> QED
  BY <1>1, <1>3 DEF LoadInv

LEMMA NextCounts == LoadInv /\ [Next]_vars => LoadInv'
<1> SUFFICES ASSUME LoadInv, [Next]_vars PROVE LoadInv'
  OBVIOUS
<1>t. req \in [Requests -> RequestRecords] /\ req' \in [Requests -> RequestRecords]
  BY RequestTypes DEF LoadInv
<1>1. ASSUME NEW r \in Requests, Begin(r) \/ NoHealthyInstance(r) PROVE LoadInv'
  <2>1. ~Routing(req[r]) /\ UNCHANGED inflight
    BY <1>1 DEF Begin, NoHealthyInstance, Routing
  <2>2. ~Routing(req'[r]) /\ \A k \in Requests \ {r} : req'[k] = req[k]
    <3>1. CASE Begin(r)
      <4>1. PICK pool : req' = [req EXCEPT ![r] = [Away EXCEPT !.pc = "preflight",
                                                               !.asked = pool]]
        BY <3>1 DEF Begin
      <4>2. [Away EXCEPT !.pc = "preflight", !.asked = pool].pc = "preflight"
        BY DEF Away
      <4> QED
        BY <1>t, <4>1, <4>2 DEF Routing
    <3>2. CASE NoHealthyInstance(r)
      BY <1>t, <3>2 DEF NoHealthyInstance, Routing, RequestRecords
    <3> QED
      BY <1>1, <3>1, <3>2
  <2> QED
    BY <1>t, <2>1, <2>2, SameLoad DEF Routing
<1>2. ASSUME NEW r \in Requests, NEW i \in Instances, LookUp(r, i) \/ Probe(r, i)
      PROVE  LoadInv'
  <2>1. UNCHANGED inflight
    BY <1>2 DEF LookUp, Probe
  <2>2. PICK asked, probing, ready :
          req' = [req EXCEPT ![r].asked = asked, ![r].probing = probing,
                             ![r].ready = ready]
    <3>1. CASE LookUp(r, i) /\ ~Believed(i)
      <4>1. req' = [req EXCEPT ![r].probing = req[r].probing \cup {i}]
        BY <3>1 DEF LookUp
      <4>2. req' = [req EXCEPT ![r].asked = req[r].asked,
                               ![r].probing = req[r].probing \cup {i},
                               ![r].ready = req[r].ready]
        BY <1>t, <4>1 DEF RequestRecords
      <4> QED
        BY <4>2
    <3>2. CASE \E healthy : Verdict(r, i, healthy)
      BY <3>2 DEF Verdict
    <3> QED
      BY <1>2, <3>1, <3>2 DEF LookUp, Probe
  <2>3. \A t \in Requests : req'[t].pc = req[t].pc /\ req'[t].at = req[t].at
    BY <1>t, <2>2 DEF RequestRecords
  <2> QED
    BY <1>t, <2>1, <2>3, SameLoad DEF Routing
<1>3. ASSUME NEW r \in Requests, Acquire(r) PROVE LoadInv'
  BY <1>3, <1>t, AcquireCounts
<1>4. ASSUME NEW r \in Requests, Respond(r) PROVE LoadInv'
  BY <1>4, <1>t, SameLoad DEF Respond, Routing, RequestRecords
<1>5. ASSUME NEW r \in Requests,
             Fail(r) \/ CutBody(r) \/ Complete(r) \/ Truncate(r) \/ ClientLeaves(r)
      PROVE  LoadInv'
  <2>1. req[r].pc \in {"routed", "relaying"} /\ UNCHANGED inflight
    BY <1>5 DEF Fail, CutBody, Complete, Truncate, ClientLeaves
  <2>2. PICK outcome : req' = [req EXCEPT ![r].pc = "leaving", ![r].outcome = outcome]
    BY <1>5 DEF Fail, CutBody, Complete, Truncate, ClientLeaves, Answered
  <2> QED
    BY <1>t, <2>1, <2>2, SameLoad DEF Routing, RequestRecords
<1>6. ASSUME NEW r \in Requests, Release(r) PROVE LoadInv'
  BY <1>6, <1>t, ReleaseCounts
<1>7. CASE UNCHANGED <<req, inflight>>
  BY <1>7, <1>t, SameLoad DEF Routing
<1> QED
  BY <1>1, <1>2, <1>3, <1>4, <1>5, <1>6, <1>7
     DEF Next, Preflight, Finish, SwitchInstance, Tick, vars

\* apiInflight (server.go:494-521) is the number of requests an instance has,
\* through failures, truncated bodies and clients that leave.
THEOREM LoadCounted == Spec => []LoadIsCounted
<1>1. Init => LoadInv
  <2> SUFFICES ASSUME Init PROVE LoadInv
    OBVIOUS
  <2>1. req \in [Requests -> RequestRecords]
    BY AwayType DEF Init
  <2>2. ASSUME NEW i PROVE Carried(i) = {}
    BY DEF Init, Carried, Routing, Away
  <2> QED
    BY <2>1, <2>2, FS_EmptySet DEF Init, LoadInv
<1>2. LoadInv /\ [Next]_vars => LoadInv'
  BY NextCounts
<1>3. LoadInv => LoadIsCounted
  BY DEF LoadInv, LoadIsCounted, Carried, Routing
<1> QED
  BY <1>1, <1>2, <1>3, PTL DEF Spec

-----------------------------------------------------------------------------
(* Circuits: an instance that failed has a circuit as long as it has to    *)
(* rest, and one without a circuit is preferred to it.                      *)

Circuits == [failures : 0 .. MaxFailures, until : Nat]

CircuitInv ==
    /\ req \in [Requests -> RequestRecords]
    /\ circuits \in [Instances -> Circuits]
    /\ rest \in [Instances -> Nat]
    /\ \A i \in Instances : rest[i] <= circuits[i].until

LEMMA ClosedType == Closed \in Circuits
BY RouterAssumption DEF Closed, Circuits

\* The backoff is never shorter than the first one.
LEMMA OpenLongEnough ==
  ASSUME NEW n \in 1 .. MaxFailures
  PROVE  OpenFor(n) \in Nat /\ CircuitBase <= OpenFor(n)
<1> DEFINE p == 2 ^ (n - 1)
<1>1. p \in Nat \ {0}
  BY RouterAssumption
<1>2. CircuitBase \in Nat /\ CircuitMax \in Nat /\ CircuitBase <= CircuitMax
  BY RouterAssumption
<1>3. OpenFor(n) = IF CircuitBase * p < CircuitMax THEN CircuitBase * p ELSE CircuitMax
  BY DEF OpenFor
<1> HIDE DEF p
<1>4. \A x, y \in Nat : y # 0 => x * y \in Nat /\ x <= x * y
  OBVIOUS
<1>5. CircuitBase * p \in Nat /\ CircuitBase <= CircuitBase * p
  BY <1>1, <1>2, <1>4
<1> QED
  BY <1>2, <1>3, <1>5

LEMMA FailureKeeps ==
  ASSUME CircuitInv, NEW i, MarkFailure(i)
  PROVE  /\ circuits' \in [Instances -> Circuits] /\ rest' \in [Instances -> Nat]
         /\ \A j \in Instances : rest'[j] <= circuits'[j].until
<1>1. CASE i \notin Instances
  BY <1>1 DEF MarkFailure, CircuitInv
<1>2. CASE i \in Instances
  <2>1. circuits[i].failures \in 0 .. MaxFailures
    BY <1>2 DEF CircuitInv, Circuits
  <2>2. PICK n \in 1 .. MaxFailures :
          circuits' = [circuits EXCEPT ![i] = [failures |-> n, until |-> OpenFor(n)]]
    <3> DEFINE n == IF circuits[i].failures < MaxFailures THEN circuits[i].failures + 1
                    ELSE MaxFailures
    <3>1. n \in 1 .. MaxFailures
      <4>1. MaxFailures \in Nat \ {0}
        BY RouterAssumption
      <4> QED
        BY <2>1, <4>1
    <3>2. circuits' = [circuits EXCEPT ![i] = [failures |-> n, until |-> OpenFor(n)]]
      BY DEF MarkFailure
    <3> HIDE DEF n
    <3> QED
      BY <3>1, <3>2
  <2>3. [failures |-> n, until |-> OpenFor(n)] \in Circuits
    BY OpenLongEnough DEF Circuits
  <2>4. rest' = [rest EXCEPT ![i] = CircuitBase] /\ CircuitBase \in Nat
    BY RouterAssumption DEF MarkFailure
  <2>5. \A j \in Instances : rest'[j] <= circuits'[j].until
    BY <1>2, <2>2, <2>4, OpenLongEnough DEF CircuitInv
  <2> QED
    BY <2>2, <2>3, <2>4, <2>5 DEF CircuitInv
<1> QED
  BY <1>1, <1>2

LEMMA SuccessKeeps ==
  ASSUME CircuitInv, NEW i, MarkSuccess(i)
  PROVE  /\ circuits' \in [Instances -> Circuits] /\ rest' \in [Instances -> Nat]
         /\ \A j \in Instances : rest'[j] <= circuits'[j].until
<1>1. circuits' \in [Instances -> Circuits] /\ rest' \in [Instances -> Nat]
  BY ClosedType DEF MarkSuccess, CircuitInv
<1>2. \A j \in Instances : rest'[j] <= circuits'[j].until
  BY DEF MarkSuccess, CircuitInv, Closed
<1> QED
  BY <1>1, <1>2

LEMMA NextKeepsCircuits ==
  ASSUME CircuitInv, [Next]_vars
  PROVE  CircuitInv'
<1>t. req' \in [Requests -> RequestRecords]
  BY RequestTypes DEF CircuitInv
<1> DEFINE Goal == /\ circuits' \in [Instances -> Circuits] /\ rest' \in [Instances -> Nat]
                   /\ \A j \in Instances : rest'[j] <= circuits'[j].until
<1>1. ASSUME UNCHANGED <<circuits, rest>> PROVE Goal
  BY <1>1 DEF CircuitInv
<1>2. ASSUME NEW r \in Requests, Acquire(r) PROVE Goal
  <2>1. circuits' = Kept(r) /\ rest' = rest
    BY <1>2 DEF Acquire
  <2>2. circuits' \in [Instances -> Circuits]
    BY <2>1, ClosedType DEF Kept, CircuitInv
  <2>3. \A j \in Instances : circuits'[j].until = circuits[j].until
    BY <2>1 DEF Kept, Closed
  <2> QED
    BY <2>1, <2>2, <2>3 DEF CircuitInv
<1>3. ASSUME NEW r \in Requests, Finish(r) PROVE Goal
  <2>1. \/ UNCHANGED <<circuits, rest>>
        \/ MarkFailure(req[r].at) \/ MarkSuccess(req[r].at)
    BY <1>3 DEF Finish, Fail, CutBody, Respond, Complete, Truncate, ClientLeaves
  <2> HIDE DEF CircuitInv
  <2> QED
    BY <1>1, <2>1, FailureKeeps, SuccessKeeps
<1>4. ASSUME Tick PROVE Goal
  <2>1. \A t \in Nat : Less(t) \in Nat
    BY DEF Less
  <2>2. \A s, t \in Nat : s <= t => Less(s) <= Less(t)
    BY DEF Less
  <2>3. circuits' = [i \in Instances |-> [circuits[i] EXCEPT !.until = Less(circuits[i].until)]]
        /\ rest' = [i \in Instances |-> Less(rest[i])]
    BY <1>4 DEF Tick
  <2>4. \A i \in Instances : circuits[i] \in Circuits /\ rest[i] \in Nat
                             /\ rest[i] <= circuits[i].until
    BY DEF CircuitInv
  <2>5. \A i \in Instances : circuits'[i] \in Circuits
                             /\ circuits'[i].until = Less(circuits[i].until)
    BY <2>1, <2>3, <2>4 DEF Circuits
  <2>6. rest' \in [Instances -> Nat] /\ circuits' \in [Instances -> Circuits]
    BY <2>1, <2>3, <2>4, <2>5
  <2>7. \A i \in Instances : circuits[i].until \in Nat
    BY <2>4 DEF Circuits
  <2> QED
    BY <2>2, <2>3, <2>4, <2>5, <2>6, <2>7
<1>5. Goal
  <2> HIDE DEF Goal
  <2>1. ASSUME NEW r \in Requests, Begin(r) \/ Preflight(r) \/ NoHealthyInstance(r) \/ Release(r)
        PROVE  UNCHANGED <<circuits, rest>>
    BY <2>1 DEF Begin, Preflight, LookUp, Probe, NoHealthyInstance, Release
  <2>2. ASSUME NEW i \in Instances, SwitchInstance(i) PROVE UNCHANGED <<circuits, rest>>
    BY <2>2 DEF SwitchInstance
  <2>3. ASSUME UNCHANGED vars PROVE UNCHANGED <<circuits, rest>>
    BY <2>3 DEF vars
  <2> QED
    BY <1>1, <1>2, <1>3, <1>4, <2>1, <2>2, <2>3 DEF Next
<1> QED
  BY <1>t, <1>5 DEF CircuitInv

\* Only Acquire routes a request.
LEMMA RoutedByAcquire ==
  ASSUME req \in [Requests -> RequestRecords], [Next]_vars, NEW r \in Requests,
         req[r].pc = "preflight", req'[r].pc = "routed"
  PROVE  Acquire(r)
<1> USE DEF RequestRecords
<1>1. ASSUME NEW s \in Requests, Begin(s) \/ NoHealthyInstance(s) \/ Finish(s) \/ Release(s)
      PROVE  req'[r].pc # "routed" \/ req'[r] = req[r]
  <2>1. PICK x : req' = [req EXCEPT ![s] = x] /\ x.pc # "routed"
    <3>1. CASE Begin(s)
      BY <3>1 DEF Begin, Away
    <3>2. CASE NoHealthyInstance(s) \/ Release(s) \/ Respond(s)
      BY <3>2 DEF NoHealthyInstance, Release, Respond
    <3>3. CASE Fail(s) \/ CutBody(s) \/ Complete(s) \/ Truncate(s) \/ ClientLeaves(s)
      BY <3>3 DEF Fail, CutBody, Complete, Truncate, ClientLeaves, Answered
    <3> QED
      BY <1>1, <3>1, <3>2, <3>3 DEF Finish
  <2> QED
    BY <2>1
<1>2. ASSUME NEW s \in Requests, Preflight(s)
      PROVE  req'[r].pc = req[r].pc
  BY <1>2 DEF Preflight, LookUp, Probe, Verdict
<1>3. ASSUME NEW s \in Requests, s # r, Acquire(s) PROVE req'[r] = req[r]
  BY <1>3 DEF Acquire
<1> QED
  BY <1>1, <1>2, <1>3 DEF Next, SwitchInstance, Tick, vars

\* An instance that has to rest is taken only if every other one has a circuit.
LEMMA AcquireLeavesFailed ==
  ASSUME CircuitInv, NEW r \in Requests, Acquire(r), req'[r].pc = "routed"
  PROVE  \/ rest[req'[r].at] = 0
         \/ \A i \in req[r].ready : circuits[i].until > 0
<1>1. PICK i \in Available(r) : req'[r].at = i
  BY DEF Acquire, LeastLoaded, CircuitInv, RequestRecords
<1>2. req[r].ready \subseteq Instances
  BY DEF CircuitInv, RequestRecords
<1>3. CASE \A j \in req[r].ready : Kept(r)[j] # Closed
  <2>1. \A j \in req[r].ready : circuits[j].until # 0
    BY <1>2, <1>3 DEF Kept
  <2>2. \A j \in req[r].ready : circuits[j].until \in Nat
    BY <1>2 DEF CircuitInv, Circuits
  <2> QED
    BY <2>1, <2>2
<1>4. CASE \E j \in req[r].ready : Kept(r)[j] = Closed
  <2>1. i \in Instances /\ Kept(r)[i] = Closed
    BY <1>1, <1>2, <1>4 DEF Available
  <2>2. circuits[i].until = 0
    BY <2>1 DEF Kept, Closed
  <2>3. rest[i] \in Nat /\ rest[i] <= 0
    BY <2>1, <2>2 DEF CircuitInv
  <2> QED
    BY <1>1, <2>3
<1> QED
  BY <1>3, <1>4

\* An instance that has failed gets no request for the shortest circuit time,
\* whatever probes say meanwhile, unless it has completed one since or all of
\* the pool have failed (server.go, acquireAPIInstance and markAPIInstanceFailure).
THEOREM FailedLeftAlone == Spec => LeavesFailedAlone
<1>1. Init => CircuitInv
  BY AwayType, ClosedType DEF Init, CircuitInv, Closed
<1>2. ASSUME CircuitInv, [Next]_vars
      PROVE  [\A r \in Requests :
                req[r].pc = "preflight" /\ req'[r].pc = "routed" =>
                    \/ rest[req'[r].at] = 0
                    \/ \A i \in req[r].ready : circuits[i].until > 0]_vars
  BY <1>2, RoutedByAcquire, AcquireLeavesFailed DEF CircuitInv
<1> QED
  BY <1>1, <1>2, NextKeepsCircuits, PTL DEF Spec, LeavesFailedAlone

-----------------------------------------------------------------------------
(* Refusals for want of a healthy instance *)

\* No client leaves an exchange, and no body is cut.
ExchangesLast == \A r \in Requests : ~ClientLeaves(r) /\ ~CutBody(r)

AllUp == Switchable = {} /\ "gateway" \notin Faults /\ Instances # {}

\* What is believed of an instance is good, and a request that is in its preflight has
\* an instance left to ask or one that is ready.
Supplied(q) ==
    /\ q.pc = "preflight" => q.asked \cup q.ready # {}
    /\ q.outcome # "no_healthy"

UpInv ==
    /\ req \in [Requests -> RequestRecords]
    /\ running = Instances
    /\ readiness \in [Instances -> [healthy : BOOLEAN, left : Nat]]
    /\ \A i \in Instances : Believed(i) => readiness[i].healthy
    /\ \A r \in Requests : Supplied(req[r])

LEMMA BeginSupplied ==
  ASSUME AllUp, UpInv, NEW r \in Requests, Begin(r)
  PROVE  Supplied(req'[r]) /\ \A s \in Requests \ {r} : req'[s] = req[s]
<1>1. PICK p \in {Provider[i] : i \in Instances} \cup {AnyProvider} :
        LET known == {i \in Instances : p \in {AnyProvider, Provider[i]}}
        IN  req' = [req EXCEPT ![r] = [Away EXCEPT !.pc = "preflight",
                                                   !.asked = TrafficPool(known)]]
  BY DEF Begin
<1>2. PICK known \in SUBSET Instances : known = {i \in Instances : p \in {AnyProvider, Provider[i]}}
  OBVIOUS
<1>3. known # {}
  <2>1. CASE p = AnyProvider
    BY <1>2, <2>1 DEF AllUp
  <2>2. CASE p \in {Provider[i] : i \in Instances}
    BY <1>2, <2>2
  <2> QED
    BY <2>1, <2>2
<1>4. TrafficPool(known) # {}
  BY <1>3 DEF TrafficPool, UpInv
<1>5. req'[r] = [Away EXCEPT !.pc = "preflight", !.asked = TrafficPool(known)]
      /\ \A s \in Requests \ {r} : req'[s] = req[s]
  BY <1>1, <1>2 DEF UpInv
<1>6. /\ req'[r].asked = TrafficPool(known) /\ req'[r].outcome = "none"
      /\ req'[r].pc = "preflight"
  BY <1>5 DEF Away
<1> QED
  BY <1>4, <1>5, <1>6 DEF Supplied

\* A verdict is good, and its instance is ready.
LEMMA VerdictSupplied ==
  ASSUME UpInv, NEW r \in Requests, NEW i \in Instances, Verdict(r, i, TRUE)
  PROVE  \A s \in Requests : Supplied(req'[s])
<1>1. req[r] \in RequestRecords /\ Supplied(req[r])
  BY DEF UpInv
<1>2. req' = [req EXCEPT ![r].asked = @ \ {i}, ![r].probing = @ \ {i},
                         ![r].ready = @ \cup {i}]
  BY DEF Verdict
<1>3. i \in req'[r].ready /\ req'[r].outcome = req[r].outcome
  BY <1>1, <1>2 DEF UpInv, RequestRecords
<1>4. Supplied(req'[r])
  BY <1>1, <1>3 DEF Supplied
<1>5. \A s \in Requests \ {r} : req'[s] = req[s]
  BY <1>2 DEF UpInv
<1> QED
  BY <1>4, <1>5 DEF UpInv

LEMMA NextUp ==
  ASSUME AllUp, UpInv, [Next]_vars, [ExchangesLast]_vars
  PROVE  UpInv'
<1>0. req' \in [Requests -> RequestRecords]
  BY RequestTypes DEF UpInv
<1>1. CASE UNCHANGED vars
  BY <1>1 DEF UpInv, Believed, vars
<1>quiet. ASSUME UNCHANGED <<running, readiness>>, \A r \in Requests : Supplied(req'[r])
          PROVE  UpInv'
  BY <1>0, <1>quiet DEF UpInv, Believed
<1>2. ASSUME NEW r \in Requests, Begin(r) PROVE UpInv'
  BY <1>2, <1>quiet, BeginSupplied DEF Begin, UpInv
<1>3. ASSUME NEW r \in Requests, NEW i \in Instances, LookUp(r, i) PROVE UpInv'
  <2>1. CASE Believed(i)
    <3>1. readiness[i].healthy = TRUE
      BY <2>1 DEF UpInv
    <3>2. Verdict(r, i, TRUE)
      BY <1>3, <2>1, <3>1 DEF LookUp
    <3> QED
      BY <1>3, <1>quiet, <3>2, VerdictSupplied DEF LookUp
  <2>2. CASE ~Believed(i)
    <3>1. req' = [req EXCEPT ![r].probing = @ \cup {i}]
      BY <1>3, <2>2 DEF LookUp
    <3>2. \A s \in Requests : /\ req'[s].pc = req[s].pc /\ req'[s].asked = req[s].asked
                              /\ req'[s].ready = req[s].ready
                              /\ req'[s].outcome = req[s].outcome
      BY <3>1 DEF UpInv, RequestRecords
    <3> QED
      BY <1>3, <1>quiet, <3>2 DEF LookUp, UpInv, Supplied
  <2> QED
    BY <2>1, <2>2
<1>4. ASSUME NEW r \in Requests, NEW i \in Instances, Probe(r, i) PROVE UpInv'
  <2>1. /\ Verdict(r, i, TRUE)
        /\ readiness' = [readiness EXCEPT ![i] = [healthy |-> TRUE, left |-> ReadyFor]]
        /\ running' = running
    BY <1>4 DEF Probe, AllUp
  <2>2. /\ readiness' \in [Instances -> [healthy : BOOLEAN, left : Nat]]
        /\ \A j \in Instances : readiness'[j].left > 0 => readiness'[j].healthy
    <3>1. [healthy |-> TRUE, left |-> ReadyFor] \in [healthy : BOOLEAN, left : Nat]
      BY RouterAssumption
    <3> QED
      BY <2>1, <3>1 DEF UpInv, Believed
  <2> QED
    BY <1>0, <2>1, <2>2, VerdictSupplied DEF UpInv, Believed
<1>5. ASSUME NEW r \in Requests, Acquire(r) PROVE UpInv'
  <2>1. PICK i : req' = [req EXCEPT ![r].at = i,
                                    ![r].pc = IF i \in Unparsable THEN "out" ELSE "routed",
                                    ![r].outcome = IF i \in Unparsable THEN "invalid"
                                                   ELSE "none"]
    BY <1>5 DEF Acquire
  <2>2. /\ req'[r].pc \in {"out", "routed"} /\ req'[r].outcome \in {"invalid", "none"}
        /\ \A s \in Requests \ {r} : req'[s] = req[s]
    BY <2>1 DEF UpInv, RequestRecords
  <2> QED
    BY <1>5, <1>quiet, <2>2 DEF Acquire, UpInv, Supplied
<1>6. ASSUME NEW r \in Requests, NoHealthyInstance(r) PROVE FALSE
  BY <1>6 DEF NoHealthyInstance, UpInv, Supplied
<1>7. ASSUME NEW r \in Requests, Respond(r) \/ Release(r) PROVE UpInv'
  <2>1. /\ req'[r].pc \in {"relaying", "out"} /\ req'[r].outcome = req[r].outcome
        /\ \A s \in Requests \ {r} : req'[s] = req[s]
    BY <1>7 DEF Respond, Release, UpInv, RequestRecords
  <2> QED
    BY <1>7, <1>quiet, <2>1 DEF Respond, Release, UpInv, Supplied
<1>8. ASSUME NEW r \in Requests, Complete(r) PROVE UpInv'
  <2>1. /\ req'[r].pc = "leaving" /\ req'[r].outcome = "complete"
        /\ \A s \in Requests \ {r} : req'[s] = req[s]
    BY <1>8 DEF Complete, Answered, UpInv, RequestRecords
  <2>2. /\ readiness' = [readiness EXCEPT ![req[r].at] = [healthy |-> TRUE, left |-> ReadyFor]]
        /\ running' = running
    BY <1>8 DEF Complete, MarkSuccess
  <2>3. [healthy |-> TRUE, left |-> ReadyFor] \in [healthy : BOOLEAN, left : Nat]
    BY RouterAssumption
  <2>4. /\ readiness' \in [Instances -> [healthy : BOOLEAN, left : Nat]]
        /\ \A j \in Instances : readiness'[j].left > 0 => readiness'[j].healthy
    BY <2>2, <2>3 DEF UpInv, Believed
  <2>5. \A s \in Requests : Supplied(req'[s])
    BY <2>1 DEF UpInv, Supplied
  <2> QED
    BY <1>0, <2>2, <2>4, <2>5 DEF UpInv, Believed
<1>9. CASE Tick
  <2>1. ASSUME NEW i \in Instances
        PROVE  /\ readiness'[i] \in [healthy : BOOLEAN, left : Nat]
               /\ readiness'[i].left > 0 => readiness'[i].healthy
    <3>1. readiness[i] \in [healthy : BOOLEAN, left : Nat]
      BY DEF UpInv
    <3>2. CASE readiness[i].left > 1
      <4>1. readiness'[i] = [readiness[i] EXCEPT !.left = readiness[i].left - 1]
        BY <1>9, <3>1, <3>2 DEF Tick, Less
      <4>2. readiness[i].healthy = TRUE /\ readiness[i].left - 1 \in Nat
        BY <3>1, <3>2 DEF UpInv, Believed
      <4> QED
        BY <3>1, <4>1, <4>2
    <3>3. CASE ~ (readiness[i].left > 1)
      BY <1>9, <3>3 DEF Tick, Unknown
    <3> QED
      BY <3>2, <3>3
  <2>2. readiness' \in [Instances -> [healthy : BOOLEAN, left : Nat]]
    BY <1>9, <2>1 DEF Tick
  <2> QED
    BY <1>0, <1>9, <2>1, <2>2 DEF Tick, UpInv, Believed
<1>10. ASSUME [ExchangesLast]_vars, Next, ~UNCHANGED vars
       PROVE  \/ \E r \in Requests : \/ Begin(r) \/ Preflight(r) \/ Acquire(r)
                                     \/ NoHealthyInstance(r) \/ Respond(r) \/ Complete(r)
                                     \/ Release(r)
              \/ Tick
  BY <1>10 DEF Next, Finish, Fail, Truncate, SwitchInstance, AllUp, ExchangesLast
<1> QED
  BY <1>1, <1>2, <1>3, <1>4, <1>5, <1>6, <1>7, <1>8, <1>9, <1>10 DEF Preflight

\* While every instance runs, none fails, no client leaves an exchange and no body is
\* cut, no request is refused for want of a healthy instance, however requests, probes
\* and verdicts interleave and however short a verdict is believed: a refusal without an
\* outage takes an exchange that the error handler charges to an instance that is not at
\* fault (server.go, proxyAPI, requestedProvider and apiInstanceReady).
THEOREM OutageTakesBlame ==
  Instances # {} => (Spec /\ [][ExchangesLast]_vars => []OutageIsReal)
<1> SUFFICES ASSUME Instances # {}
             PROVE  Spec /\ [][ExchangesLast]_vars => []OutageIsReal
  OBVIOUS
<1>1. CASE Switchable = {} /\ "gateway" \notin Faults
  <2>a. AllUp
    BY <1>1 DEF AllUp
  <2>1. Init => UpInv
    <3> SUFFICES ASSUME Init PROVE UpInv
      OBVIOUS
    <3>1. Unknown \in [healthy : BOOLEAN, left : Nat] /\ ~ (Unknown.left > 0)
      BY DEF Unknown
    <3>2. running = Instances
      BY <1>1 DEF Init
    <3>3. Supplied(Away)
      BY DEF Supplied, Away
    <3> QED
      BY <3>1, <3>2, <3>3, AwayType DEF Init, UpInv, Believed
  <2>2. UpInv /\ [Next]_vars /\ [ExchangesLast]_vars => UpInv'
    BY <2>a, NextUp
  <2>3. UpInv => OutageIsReal
    BY DEF UpInv, Supplied, OutageIsReal
  <2> QED
    BY <2>1, <2>2, <2>3, PTL DEF Spec
<1>2. CASE ~ (Switchable = {} /\ "gateway" \notin Faults)
  <2>1. OutageIsReal
    BY <1>2 DEF OutageIsReal
  <2> QED
    BY <2>1, PTL
<1> QED
  BY <1>1, <1>2
=============================================================================
