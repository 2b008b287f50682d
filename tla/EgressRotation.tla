--------------------------- MODULE EgressRotation ---------------------------
(***************************************************************************)
(* How the control plane keeps the gateway instances on different public   *)
(* addresses (internal/controlplane/rotation.go).  A slot of a gateway     *)
(* leads through a port of Mihomo, through another proxy or directly to    *)
(* the world.  Each port is a selector over the nodes of one subscription, *)
(* and a node has a public address.  A gateway knows the address of a slot *)
(* from its last probe only, if one has succeeded.                         *)
(*                                                                         *)
(* One operation at a time runs under rotationMu: the periodic             *)
(* reconciliation, the refresh that follows a new subscription, and the    *)
(* administrator's rotation of one instance.  It reads the summaries of    *)
(* the gateways one by one and then acts on what it has read, while the    *)
(* gateways go on changing their active slots.  op.pc is                   *)
(*                                                                         *)
(*    read      asking instance op.at for its summary                      *)
(*    dedup     looking for an address that instance op.at shares          *)
(*    limits    looking for new 429s of instance op.at                     *)
(*    target    the administrator's rotation, all summaries read           *)
(*    group     about to read the selector of the port to be rotated       *)
(*    try       about to select another node                               *)
(*    probe     the node is selected, the gateway is to probe the port     *)
(*    restore   no node would do: about to select the former one again     *)
(*    reprobe   the gateway is to probe the former node                    *)
(*    refresh   the gateway of op.at is to probe its slot op.slot          *)
(*    end       about to release rotationMu                                *)
(***************************************************************************)
EXTENDS Integers, Sequences, FiniteSets

CONSTANTS
    NumInstances,  \* s.instances, all of them running, in this order
    SlotsOf,       \* per instance: the ports and other routes of its slots
    NumPorts,      \* listeners of Mihomo; port p starts at node p
    NumNodes,      \* nodes of the subscription, in this order
    Direct,        \* the route of a slot without a proxy
    OtherProxies,  \* proxies that are not Mihomo's
    FixedEgress,   \* the addresses of Direct and of the other proxies
    Egresses,      \* public addresses
    Unknown,       \* the address of a slot that no probe has answered for
    Subscriptions, \* the addresses of the nodes, per possible subscription
    MaxAttempts,   \* maxMihomoRotationAttempts
    MaxEvents,     \* BOUND: what gateways, nodes and administrator do
    MaxFaults      \* BOUND: calls that fail

Instances == 1 .. NumInstances
Ports == 1 .. NumPorts
Nodes == 1 .. NumNodes
Outside == {Direct} \cup OtherProxies

ASSUME RotationAssumption ==
    /\ NumInstances \in Nat \ {0}
    /\ NumPorts \in Nat \ {0}
    /\ NumNodes \in Nat
    /\ NumNodes >= 2 /\ NumNodes >= NumPorts
    /\ Ports \cap Outside = {}
    /\ SlotsOf \in [Instances -> Seq(Ports \cup Outside) \ {<<>>}]
    /\ FixedEgress \in [Outside -> Egresses]
    /\ Unknown \notin Egresses
    /\ Subscriptions \subseteq [Nodes -> Egresses]
    /\ MaxAttempts \in Nat \ {0}
    /\ MaxEvents \in Nat /\ MaxFaults \in Nat

VARIABLES
    exit,     \* the address each node leaves through
    picks,    \* the node each port has selected
    gate,     \* the gateways: active slot, per slot egress and enabled, 429s
    last429,  \* s.lastUpstream429, -1 where there is no entry
    due,      \* mihomoUpdate has started the goroutine that refreshes
    op,       \* the operation that holds rotationMu
    events, faults,
    excused   \* HISTORY: slots whose address changed without a probe

vars == <<exit, picks, gate, last429, due, op, events, faults, excused>>
world == <<exit, picks, gate>>
history == <<events, faults, excused>>

AllSlots == UNION {{i} \X DOMAIN SlotsOf[i] : i \in Instances}

Port(i, k) == SlotsOf[i][k]

\* mihomoGroupForProxyURL: the slot leads through a port of Mihomo.
Managed(i, k) == Port(i, k) \in Ports

ManagedSlots(i) == {k \in DOMAIN SlotsOf[i] : Managed(i, k)}

Address(i, k) == IF Managed(i, k) THEN exit[picks[Port(i, k)]] ELSE FixedEgress[Port(i, k)]

Single(i) == Len(SlotsOf[i]) = 1

NoOne == 0
Absent == [slot |-> 0]

Idle ==
    [ kind |-> "none", pc |-> "end", at |-> 1, slot |-> 1,
      seen |-> [i \in Instances |-> Absent],
      occupied |-> [e \in Egresses |-> NoOne], rotated |-> {}, failed |-> FALSE,
      reason |-> "none", forbidden |-> {}, now |-> 1, tries |-> 0,
      stirred |-> FALSE, hits |-> 0 ]

\* A gateway that has just started: every slot probed, the probes of those in
\* dark without an answer, which leaves them out of service.  Of those that
\* share an address the first proxy is in service, or else the direct slot.
Started(i, dark) ==
    LET probed == {k \in DOMAIN SlotsOf[i] : <<i, k>> \notin dark}
        preferred(j, k) == IF Port(i, j) = Direct THEN FALSE ELSE Port(i, k) = Direct \/ j < k
    IN  [ active |-> 1,
          egress |-> [k \in DOMAIN SlotsOf[i] |->
                        IF k \in probed THEN Address(i, k) ELSE Unknown],
          enabled |-> [k \in DOMAIN SlotsOf[i] |->
                         /\ k \in probed
                         /\ \A j \in probed \ {k} :
                              Address(i, j) = Address(i, k) => ~preferred(j, k)],
          limited |-> 0 ]

Init ==
    /\ exit \in Subscriptions
    /\ picks = [p \in Ports |-> p]
    /\ \E dark \in SUBSET AllSlots :
         /\ faults = Cardinality(dark) /\ faults <= MaxFaults
         /\ gate = [i \in Instances |-> Started(i, dark)]
    /\ last429 = [i \in Instances |-> -1]
    /\ due = FALSE
    /\ op = Idle
    /\ events = 0
    /\ excused = {}

-----------------------------------------------------------------------------
(* What a summary shows *)

\* activeSummarySlots: the active slot if it is in service, else the first
\* that is, else the first.
ShownSlot(g) ==
    LET inService == {k \in DOMAIN g.enabled : g.enabled[k]} IN
    IF g.active \in inService THEN g.active
    ELSE IF inService = {} THEN 1
    ELSE CHOOSE k \in inService : \A j \in inService : k <= j

Summary(i) ==
    LET k == ShownSlot(gate[i]) IN
    [slot |-> k, egress |-> gate[i].egress[k], limited |-> gate[i].limited]

Seen(i) == op.seen[i] # Absent

SeenPort(i) == Port(i, op.seen[i].slot)

\* The slot that is shown leads through a port of Mihomo.
SeenManaged(i) == SeenPort(i) \in Ports

\* routeOwners has several instances for the route that is shown for i.
Shared(i) == \E j \in Instances \ {i} : Seen(j) /\ SeenPort(j) = SeenPort(i)

\* A pass compares the addresses of proxies only, and only those it knows.
Compared(i, summary) == Port(i, summary.slot) # Direct /\ summary.egress # Unknown

Considered(i) == Seen(i) /\ Compared(i, op.seen[i])

Occupied == {e \in Egresses : op.occupied[e] # NoOne}

-----------------------------------------------------------------------------
(* Failing calls *)

Fault == faults < MaxFaults /\ faults' = faults + 1
NoFault == UNCHANGED faults

-----------------------------------------------------------------------------
(* Starting and reading *)

Begin(kind, i) ==
    /\ op = Idle
    /\ op' = [Idle EXCEPT !.kind = kind, !.at = i,
                          !.pc = IF kind = "refresh" THEN "refresh" ELSE "read"]
    /\ UNCHANGED <<world, last429, history>>

BeginReconcile == Begin("reconcile", 1) /\ UNCHANGED due

BeginRefresh == due /\ Begin("refresh", 1) /\ due' = FALSE

\* instanceAction "rotate": op.slot keeps the instance that is meant.
BeginManual(i) ==
    /\ op = Idle
    /\ events < MaxEvents /\ events' = events + 1
    /\ op' = [Idle EXCEPT !.kind = "manual", !.pc = "read", !.slot = i]
    /\ UNCHANGED <<world, last429, due, faults, excused>>

\* runningSummaries leaves out an instance that does not answer.
Read ==
    /\ op.pc = "read"
    /\ \E seen \in {Summary(op.at), Absent} :
         /\ IF seen = Absent THEN Fault ELSE NoFault
         /\ op' = [op EXCEPT
                     !.seen[op.at] = seen,
                     !.at = IF op.at < NumInstances THEN op.at + 1
                            ELSE IF op.kind = "manual" THEN op.slot ELSE 1,
                     !.slot = IF op.at < NumInstances THEN op.slot ELSE 1,
                     !.pc = IF op.at < NumInstances THEN "read"
                            ELSE IF op.kind = "manual" THEN "target" ELSE "dedup"]
    /\ UNCHANGED <<world, last429, due, events, excused>>

-----------------------------------------------------------------------------
(* The two passes of ReconcileEgresses *)

\* The loop goes on with the next instance.
Advanced(o) ==
    IF o.pc = "end" \/ o.kind = "manual" THEN [o EXCEPT !.pc = "end"]
    ELSE IF o.at < NumInstances
         THEN [o EXCEPT !.at = @ + 1,
                        !.pc = IF o.reason = "upstream_429" THEN "limits" ELSE "dedup"]
    ELSE IF o.reason = "upstream_429" THEN [o EXCEPT !.pc = "end"]
    ELSE [o EXCEPT !.at = 1, !.pc = "limits", !.reason = "upstream_429"]

\* Faulty variant: a rotation that fails ends the whole pass.
FailedStops(o) == [o EXCEPT !.failed = TRUE, !.pc = "end"]

Failed(o) == Advanced([o EXCEPT !.failed = TRUE])

\* Faulty variant: the address a rotation ends on is not noted as occupied.
RotatedUnrecorded(o, e) ==
    Advanced([o EXCEPT !.hits = IF o.reason = "upstream_429" THEN 2 ELSE @])

\* The rotation that runs has ended on address e.
Rotated(o, e) ==
    Advanced(CASE o.reason = "duplicate_egress" ->
                    [o EXCEPT !.occupied[e] = o.at, !.rotated = @ \cup {o.at}]
               [] o.reason = "upstream_429" -> [o EXCEPT !.hits = IF @ < 2 THEN @ + 1 ELSE 2]
               [] OTHER -> o)

\* Faulty variant: a rotation may end on an address that is taken.
ForbiddenOwn(o, i) == {o.seen[i].egress}

\* What the rotation of instance i must stay away from: for a duplicate every
\* address met so far, after a 429 those of the others and its own, for the
\* administrator those shown for the others and its own.
Forbidden(o, i) ==
    CASE o.reason = "duplicate_egress" -> {e \in Egresses : o.occupied[e] # NoOne}
      [] o.reason = "upstream_429" ->
           {e \in Egresses : o.occupied[e] \notin {NoOne, i}} \cup {o.seen[i].egress}
      [] OTHER -> {o.seen[j].egress : j \in {j \in Instances : o.seen[j] # Absent}} \ {Unknown}

Rotating(o, reason) ==
    LET r == [o EXCEPT !.reason = reason, !.slot = o.seen[o.at].slot] IN
    [r EXCEPT !.forbidden = Forbidden(r, o.at), !.pc = "group"]

\* The gateway's /admin/rotate: another slot in service, on another address
\* than the active one and none that is forbidden; where there are several, none
\* is in service that no probe has answered for.  A slot that cools is passed
\* over, so any may be taken, and that all cool counts as a call that fails.
\* The answer may be lost.
Candidate(reason) ==
    LET i == op.at
        g == gate[i]
        o == [op EXCEPT !.reason = reason]
        eligible == {k \in DOMAIN g.enabled \ {g.active} :
                       /\ g.enabled[k]
                       /\ g.egress[k] \notin Forbidden(o, i) \cup {g.egress[g.active], Unknown}}
    IN  \/ \E k \in eligible :
             /\ gate' = [gate EXCEPT ![i].active = k]
             /\ \/ op' = Rotated(o, g.egress[k]) /\ NoFault
                \/ op' = Failed(o) /\ Fault
        \/ eligible = {} /\ op' = Failed(o) /\ NoFault /\ UNCHANGED gate
        \/ op' = Failed(o) /\ Fault /\ UNCHANGED gate

Quiet == UNCHANGED <<exit, picks, due, events, excused>>

DedupSkip ==
    /\ op.pc = "dedup" /\ ~Considered(op.at)
    /\ op' = Advanced(op)
    /\ Quiet /\ NoFault /\ UNCHANGED <<gate, last429>>

DedupOccupy ==
    /\ op.pc = "dedup" /\ Considered(op.at)
    /\ op.seen[op.at].egress \notin Occupied
    /\ op' = Advanced([op EXCEPT !.occupied[op.seen[op.at].egress] = op.at])
    /\ Quiet /\ NoFault /\ UNCHANGED <<gate, last429>>

Duplicate ==
    op.pc = "dedup" /\ Considered(op.at) /\ op.seen[op.at].egress \in Occupied

\* There is no other slot, and this one does not lead through a port of Mihomo
\* or through one that is another instance's as well.
DedupRefused ==
    /\ Duplicate /\ Single(op.at)
    /\ SeenManaged(op.at) => Shared(op.at)
    /\ op' = Failed(op)
    /\ Quiet /\ NoFault /\ UNCHANGED <<gate, last429>>

DedupCandidate ==
    /\ Duplicate /\ ~Single(op.at)
    /\ Candidate("duplicate_egress")
    /\ Quiet /\ UNCHANGED last429

DedupRotate ==
    /\ Duplicate /\ Single(op.at) /\ SeenManaged(op.at) /\ ~Shared(op.at)
    /\ op' = Rotating(op, "duplicate_egress")
    /\ Quiet /\ NoFault /\ UNCHANGED <<gate, last429>>

\* New 429s of an instance that has not been rotated in this pass and shows a
\* port that it has to itself.  The gateway of an instance with several ports
\* has already moved on by itself.
NewlyLimited(i) ==
    /\ last429[i] >= 0
    /\ op.seen[i].limited > last429[i]
    /\ i \notin op.rotated
    /\ Cardinality(ManagedSlots(i)) <= 1
    /\ Considered(i) /\ SeenManaged(i) /\ ~Shared(i)

LimitsSkip ==
    /\ op.pc = "limits" /\ ~Seen(op.at)
    /\ op' = Advanced(op)
    /\ Quiet /\ NoFault /\ UNCHANGED <<gate, last429>>

Limits ==
    /\ op.pc = "limits" /\ Seen(op.at)
    /\ last429' = [last429 EXCEPT ![op.at] = op.seen[op.at].limited]
    /\ op' = IF NewlyLimited(op.at) THEN Rotating(op, "upstream_429") ELSE Advanced(op)
    /\ Quiet /\ NoFault /\ UNCHANGED gate

-----------------------------------------------------------------------------
(* RotateInstanceEgress, once the summaries have been read *)

TargetGone ==
    /\ op.pc = "target"
    /\ Seen(op.at) /\ SeenManaged(op.at) => Shared(op.at) /\ Single(op.at)
    /\ op' = Failed(op)
    /\ Quiet /\ NoFault /\ UNCHANGED <<gate, last429>>

TargetCandidate ==
    /\ op.pc = "target" /\ Seen(op.at) /\ SeenManaged(op.at) /\ ~Single(op.at)
    /\ Candidate("manual")
    /\ Quiet /\ UNCHANGED last429

TargetRotate ==
    /\ op.pc = "target" /\ Seen(op.at) /\ SeenManaged(op.at)
    /\ Single(op.at) /\ ~Shared(op.at)
    /\ op' = Rotating(op, "manual")
    /\ Quiet /\ NoFault /\ UNCHANGED <<gate, last429>>

-----------------------------------------------------------------------------
(* rotateInstanceMihomoSlot: port Port(op.at, op.slot) *)

Here == <<op.at, op.slot>>
HerePort == Port(op.at, op.slot)

\* Slots of other gateways behind the same port.
Neighbours == {s \in AllSlots : s # Here /\ Port(s[1], s[2]) = HerePort}

Attempts == IF NumNodes - 1 < MaxAttempts THEN NumNodes - 1 ELSE MaxAttempts

\* The nodes after the selected one, in a ring.
NextNode == ((op.now + op.tries) % NumNodes) + 1

Group ==
    /\ op.pc = "group"
    /\ \/ op' = [op EXCEPT !.now = picks[HerePort], !.tries = 0, !.pc = "try"] /\ NoFault
       \/ op' = Failed(op) /\ Fault
    /\ UNCHANGED <<world, last429, due, events, excused>>

SelectNode(n) ==
    /\ picks' = [picks EXCEPT ![HerePort] = n]
    /\ excused' = excused \cup Neighbours

\* A call that fails has been carried out or not.
SelectFails(n) == Fault /\ (SelectNode(n) \/ UNCHANGED <<picks, excused>>)

Try ==
    /\ op.pc = "try" /\ op.tries < Attempts
    /\ \/ /\ SelectNode(NextNode) /\ NoFault
          /\ op' = [op EXCEPT !.tries = @ + 1, !.pc = "probe"]
       \/ /\ SelectFails(NextNode)
          /\ op' = [op EXCEPT !.tries = @ + 1]
    /\ UNCHANGED <<exit, gate, last429, due, events>>

GiveUp ==
    /\ op.pc = "try" /\ op.tries >= Attempts
    /\ op' = [op EXCEPT !.pc = "restore"]
    /\ Quiet /\ NoFault /\ UNCHANGED <<gate, last429>>

\* The gateway's /admin/probe of slot k of gateway i: the address is recorded
\* and the slot back in service, or the slot is taken out of service; or the
\* call does not get through, or its answer does not.
ProbeOk(i, k) ==
    /\ gate' = [gate EXCEPT ![i].egress[k] = Address(i, k), ![i].enabled[k] = TRUE]
    /\ excused' = excused \ {<<i, k>>}
    /\ NoFault

ProbeFails(i, k) ==
    /\ gate' \in {[gate EXCEPT ![i].enabled[k] = FALSE], gate,
                  [gate EXCEPT ![i].egress[k] = Address(i, k), ![i].enabled[k] = TRUE]}
    /\ Fault

Probe ==
    LET e == Address(op.at, op.slot) IN
    /\ op.pc = "probe"
    /\ \/ /\ ProbeOk(op.at, op.slot)
          /\ op' = IF e \in op.forbidden \cup {op.seen[op.at].egress}
                   THEN [op EXCEPT !.pc = "try"] ELSE Rotated(op, e)
       \/ /\ ProbeFails(op.at, op.slot)
          /\ op' = [op EXCEPT !.pc = "try"]
          /\ UNCHANGED excused
    /\ UNCHANGED <<exit, picks, last429, due, events>>

\* Faulty variant: the node that was tried last stays selected.
RestoreNothing ==
    /\ op.pc = "restore"
    /\ op' = Failed(op)
    /\ NoFault /\ UNCHANGED <<world, last429, due, events, excused>>

\* Errors of the restoration are ignored.
Restore ==
    /\ op.pc = "restore"
    /\ (SelectNode(op.now) /\ NoFault) \/ SelectFails(op.now)
    /\ op' = [op EXCEPT !.pc = "reprobe"]
    /\ UNCHANGED <<exit, gate, last429, due, events>>

Reprobe ==
    /\ op.pc = "reprobe"
    /\ \/ ProbeOk(op.at, op.slot)
       \/ ProbeFails(op.at, op.slot) /\ excused' = excused \cup {Here}
    /\ op' = Failed(op)
    /\ UNCHANGED <<exit, picks, last429, due, events>>

-----------------------------------------------------------------------------
(* RefreshMihomoEgresses *)

NextSlot ==
    op' = IF op.slot < Len(SlotsOf[op.at]) THEN [op EXCEPT !.slot = @ + 1]
          ELSE IF op.at < NumInstances THEN [op EXCEPT !.at = @ + 1, !.slot = 1]
          ELSE [op EXCEPT !.pc = "end"]

RefreshSkip ==
    /\ op.pc = "refresh" /\ ~Managed(op.at, op.slot)
    /\ NextSlot
    /\ Quiet /\ NoFault /\ UNCHANGED <<gate, last429>>

Refresh ==
    /\ op.pc = "refresh" /\ Managed(op.at, op.slot)
    /\ \/ ProbeOk(op.at, op.slot)
       \/ ProbeFails(op.at, op.slot) /\ UNCHANGED excused
    /\ NextSlot
    /\ UNCHANGED <<exit, picks, last429, due, events>>

End ==
    /\ op.kind # "none" /\ op.pc = "end"
    /\ op' = Idle
    /\ UNCHANGED <<world, last429, due, history>>

-----------------------------------------------------------------------------
(* What happens meanwhile *)

Event ==
    /\ events < MaxEvents
    /\ events' = events + 1
    /\ op' = IF op = Idle THEN op ELSE [op EXCEPT !.stirred = TRUE]
    /\ UNCHANGED <<faults, last429>>

\* Requests move the active slot of their gateway (Forward).
GatewaySwitches(i) ==
    /\ Event
    /\ \E k \in DOMAIN SlotsOf[i] \ {gate[i].active} :
         gate[i].enabled[k] /\ gate' = [gate EXCEPT ![i].active = k]
    /\ UNCHANGED <<exit, picks, due, excused>>

\* The upstream answers a request with 429.
GatewayLimited(i) ==
    /\ Event
    /\ gate' = [gate EXCEPT ![i].limited = @ + 1]
    /\ UNCHANGED <<exit, picks, due, excused>>

NodeMoves(n) ==
    /\ Event
    /\ \E e \in Egresses \ {exit[n]} : exit' = [exit EXCEPT ![n] = e]
    /\ excused' = excused \cup
         {s \in AllSlots : Managed(s[1], s[2]) /\ picks[Port(s[1], s[2])] = n}
    /\ UNCHANGED <<picks, gate, due>>

\* mihomoUpdate, which holds rotationMu: another subscription, the selectors
\* at their initial nodes, a refresh to come.
Resubscribe ==
    /\ op = Idle
    /\ Event
    /\ exit' \in Subscriptions
    /\ picks' = [p \in Ports |-> p]
    /\ due' = TRUE
    /\ excused' = AllSlots
    /\ UNCHANGED gate

-----------------------------------------------------------------------------
Work ==
    \/ Read \/ DedupSkip \/ DedupOccupy \/ DedupRefused \/ DedupCandidate
    \/ DedupRotate \/ LimitsSkip \/ Limits \/ TargetGone \/ TargetCandidate
    \/ TargetRotate \/ Group \/ Try \/ GiveUp \/ Probe \/ Restore \/ Reprobe
    \/ RefreshSkip \/ Refresh \/ End

Next ==
    \/ BeginReconcile \/ BeginRefresh \/ Resubscribe \/ Work
    \/ \E i \in Instances : BeginManual(i) \/ GatewaySwitches(i) \/ GatewayLimited(i)
    \/ \E n \in Nodes : NodeMoves(n)

Spec == Init /\ [][Next]_vars

\* The holder of rotationMu goes on: every call it makes has a timeout.  The
\* ticker of main.go asks for the mutex again and again, and Go hands a mutex
\* to a goroutine that has waited long enough: SF, because others may take
\* it in between.
Fairness == WF_vars(Work) /\ SF_vars(BeginReconcile) /\ SF_vars(BeginRefresh)

LiveSpec == Spec /\ Fairness

-----------------------------------------------------------------------------
(* Properties *)

Shown(i) == gate[i].egress[ShownSlot(gate[i])]

Apart(i, j) == Shown(i) # Shown(j)

\* All instances answered and none changed its slots meanwhile.
Informed == (\A i \in Instances : Seen(i)) /\ ~op.stirred

\* A reconciliation that reports no failure (rotation.go:264-382) has left the
\* instances that it could compare on different addresses: those that showed a
\* proxy whose address was known.  Two rotations for 429s in one pass are
\* excepted: the second does not know where the first has gone, `occupied` is
\* not brought up to date.
ReconciledDistinct ==
    op.kind = "reconcile" /\ op.pc = "end" /\ ~op.failed /\ Informed /\ op.hits <= 1
    => \A i, j \in Instances : i # j /\ Considered(i) /\ Considered(j) => Apart(i, j)

\* The administrator's rotation (rotation.go:413-469) that reports success has
\* given the instance an address that it did not have before and that no other
\* instance has.
RotatedApart ==
    op.kind = "manual" /\ op.pc = "end" /\ ~op.failed /\ Informed
    => /\ Shown(op.at) # op.seen[op.at].egress
       /\ \A j \in Instances \ {op.at} : Apart(op.at, j)

\* Between operations a slot in service has the address that is recorded for
\* it, if one is, on which every later decision rests; save where a node moved, where
\* another gateway's rotation changed a shared port, or where the probe after
\* an unsuccessful rotation failed, whose error rotation.go:125 ignores.
RecordsAreReal ==
    op = Idle =>
        \A s \in AllSlots \ excused :
            gate[s[1]].enabled[s[2]] => gate[s[1]].egress[s[2]] \in {Address(s[1], s[2]), Unknown}

\* The instances whose address a pass would compare now.
Comparable == {i \in Instances : Compared(i, Summary(i))}

\* Nothing rotation would do: every other slot in service leads to the address
\* of an earlier instance or to that of the active slot; or the only slot is no
\* port of Mihomo, or is another instance's as well, or the nodes that a pass
\* tries, the same ones in every pass, all lead to addresses of earlier ones.
Cornered(j) ==
    LET earlier == {Shown(i) : i \in Comparable \cap 1 .. j - 1}
        g == gate[j]
        tried == {((picks[Port(j, 1)] + t) % NumNodes) + 1 : t \in 0 .. Attempts - 1}
    IN  IF Single(j)
        THEN \/ ~Managed(j, 1)
             \/ \E i \in Instances \ {j} : Port(i, ShownSlot(gate[i])) = Port(j, 1)
             \/ \A n \in tried : exit[n] \in earlier
        ELSE \A k \in DOMAIN g.enabled \ {g.active} :
               g.enabled[k] => g.egress[k] \in earlier \cup {g.egress[g.active]}

Settled ==
    \A i, j \in Comparable : i < j /\ ~Apart(i, j) => Cornered(j)

\* Once nothing else happens any more and no call fails, the reconciliations
\* that the ticker starts separate the instances for good, whatever had
\* happened and failed before (main.go:30-43, README.md:91).
EventuallySettled == <>[](op = Idle => Settled)
=============================================================================
