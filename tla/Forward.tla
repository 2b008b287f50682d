------------------------------- MODULE Forward -------------------------------
(***************************************************************************)
(* Gateway.forward: how one gateway instance carries a request to the      *)
(* upstream through one of its exits, and retries it through another       *)
(* (internal/gateway/gateway.go).  Every request runs in its own goroutine *)
(* over the shared slots, while probes and an administrator change them.   *)
(*                                                                         *)
(* A request is a record: pc says where its goroutine stands,              *)
(*                                                                         *)
(*    idle       not in forward                                            *)
(*    top        at the head of the retry loop                             *)
(*    waiting    asleep until the earliest cooldown ends                   *)
(*    picked     the selection returned a slot                             *)
(*    sent       the request is on its way through slot `at'               *)
(*    reading    a good response arrived, nothing has reached the client   *)
(*    relaying   the response header has reached the client                *)
(*    switching  a broken body cooled the slot; about to move on           *)
(*    failed     about to retry or to answer, by `cause'                   *)
(*    done       forward has returned                                      *)
(***************************************************************************)
EXTENDS SlotPool, Sequences

CONSTANTS
    Requests,              \* request goroutines that may run at once
    RequestModels,         \* models these requests name
    Kinds,                 \* "buffered", "stream", "models"; "malformed": no
                           \* upstream URL can be made of the request's path
    MaxRetries,            \* MAX_RETRIES
    RetryAfters,           \* minimum delays an upstream asks for; 0: none
    StreamFailureCooldown, \* STREAM_FAILURE_COOLDOWN
    Exit,                  \* Exit[s]: addresses a probe through s can see
    AdminOps,              \* "probe", "enable", "rotate": what the admin does
    MaxOps                 \* BOUND: admin operations in a behaviour

ASSUME ForwardAssumption ==
    /\ RequestModels \subseteq Models
    /\ Kinds \subseteq {"buffered", "stream", "models", "malformed"}
    /\ MaxRetries \in Nat
    /\ RetryAfters \subseteq Nat
    /\ StreamFailureCooldown \in Nat
    /\ Exit \in [Slots -> SUBSET Egresses]
    /\ MaxOps \in Nat

VARIABLES
    slots,   \* the exits
    active,  \* g.active: where the selection starts
    boot,    \* the start-up probe of the exits: "probing", "applied", "ready"
    probed,  \* the addresses the start-up probe of the proxies saw
    ops,     \* admin operations so far
    req      \* the requests

pool == <<slots, active, boot, probed, ops>>
vars == <<slots, active, boot, probed, ops, req>>

Locations == {"idle", "top", "waiting", "picked", "sent", "reading",
              "relaying", "switching", "failed", "done"}

\* Why an attempt ended: transport, status, body may be retried; final and
\* committed may not.
Causes == {"none", "transport", "status", "body", "final", "committed"}

Replies == {"upstream", "no_untried", "cooldown_timeout", "unavailable"}

NewRequest(kind, model) ==
    [ pc |-> "top", kind |-> kind, model |-> model, attempt |-> 0,
      tried |-> {}, used |-> {}, at |-> 1, cause |-> "none", timer |-> 0,
      ended |-> FALSE, replies |-> <<>> ]

\* The locals of forward end with it; the reply and the context remain.
Return(q) ==
    [NewRequest(q.kind, q.model) EXCEPT
        !.pc = "done", !.ended = q.ended, !.replies = q.replies]

Answer(q, reply) == [q EXCEPT !.replies = Append(@, reply)]

Statics == Slots \ DirectSlots

\* New: a proxy is out of service until it has been probed, the direct slot
\* serves at once.
Init ==
    /\ slots = [s \in Slots |-> FreshSlot(s \in Statics)]
    /\ active = 1
    /\ boot = "probing"
    /\ probed = [s \in Slots |-> NoEgress]
    /\ ops = 0
    /\ req = [r \in Requests |->
                [NewRequest("buffered", NoModel) EXCEPT !.pc = "idle"]]

-----------------------------------------------------------------------------
(* Selection *)

Untried(q) ==
    {s \in Slots : ~slots[s].disabled /\ Identity(s, slots[s]) \notin q.tried}

Ready(S, model) == {s \in S : ReadyIn(slots[s], model) = 0}

FirstOf(S, s) ==
    s \in S /\ \A t \in S : Distance(active, s) <= Distance(active, t)

Begin(r) ==
    /\ req[r].pc \in {"idle", "done"}
    /\ \E kind \in Kinds, model \in RequestModels :
         /\ kind = "models" => model = NoModel
         /\ req' = [req EXCEPT ![r] = NewRequest(kind, model)]
    /\ UNCHANGED pool

\* The deadline of the request passes, or its client goes away.
ContextEnds(r) ==
    /\ req[r].pc \notin {"idle", "done"}
    /\ ~req[r].ended
    /\ req' = [req EXCEPT ![r].ended = TRUE]
    /\ UNCHANGED pool

\* forward returns the context's error and writes nothing.
Abort(r) ==
    /\ req[r].pc = "top"
    /\ req[r].ended
    /\ req' = [req EXCEPT ![r] = Return(req[r])]
    /\ UNCHANGED pool

\* The selection runs at the head of the loop and each time the timer fires.
Selecting(q) ==
    \/ q.pc = "top" /\ ~q.ended
    \/ q.pc = "waiting" /\ q.timer = 0

Pick(r) ==
    /\ Selecting(req[r])
    /\ \E s \in Slots :
         /\ FirstOf(Ready(Untried(req[r]), req[r].model), s)
         /\ req' = [req EXCEPT ![r].pc = "picked", ![r].at = s]
    /\ UNCHANGED pool

Wait(r) ==
    /\ Selecting(req[r])
    /\ Untried(req[r]) # {}
    /\ Ready(Untried(req[r]), req[r].model) = {}
    /\ \E s \in Untried(req[r]) :
         LET left(t) == ReadyIn(slots[t], req[r].model) IN
         /\ \A t \in Untried(req[r]) : left(s) <= left(t)
         /\ req' = [req EXCEPT ![r].pc = "waiting", ![r].timer = left(s)]
    /\ UNCHANGED pool

\* Faulty variant: nothing is written before the return.
SilentNoUntriedSlot(r) ==
    /\ Selecting(req[r])
    /\ Untried(req[r]) = {}
    /\ req' = [req EXCEPT ![r] = Return(req[r])]
    /\ UNCHANGED pool

\* The selection computes the time left by a second look at the clock.  If the
\* earliest cooldown has ended in between, what is left is negative, and that
\* is also how the selection says that no slot is untried.
Overtaken(q) ==
    /\ Ready(Untried(q), q.model) = {}
    /\ \E s \in Untried(q) : ReadyIn(slots[s], q.model) = 1

NoUntriedSlot(r) ==
    /\ Selecting(req[r])
    /\ Untried(req[r]) = {} \/ Overtaken(req[r])
    /\ req' = [req EXCEPT ![r] = Return(Answer(req[r], "no_untried"))]
    /\ UNCHANGED pool

WaitTimeout(r) ==
    /\ req[r].pc = "waiting"
    /\ req[r].ended
    /\ req' = [req EXCEPT ![r] = Return(Answer(req[r], "cooldown_timeout"))]
    /\ UNCHANGED pool

\* Faulty variant: the slot is not remembered as tried.
ForgetfulSend(r) ==
    /\ req[r].pc = "picked"
    /\ active' = req[r].at
    /\ req' = [req EXCEPT ![r].pc = "sent", ![r].used = @ \cup {req[r].at}]
    /\ UNCHANGED <<slots, boot, probed, ops>>

\* The selection stores its choice as the active slot before it returns; the
\* identity is read again to remember the slot as tried.
Send(r) ==
    LET s == req[r].at IN
    /\ req[r].pc = "picked"
    /\ req[r].kind # "malformed"
    /\ active' = s
    /\ req' = [req EXCEPT ![r].pc = "sent",
                          ![r].tried = @ \cup {Identity(s, slots[s])},
                          ![r].used = @ \cup {s}]
    /\ UNCHANGED <<slots, boot, probed, ops>>

\* No request can be made for the upstream: forward returns the error and
\* writes nothing, and serve only logs it.
Malformed(r) ==
    /\ req[r].pc = "picked"
    /\ req[r].kind = "malformed"
    /\ active' = req[r].at
    /\ req' = [req EXCEPT ![r] = Return(req[r])]
    /\ UNCHANGED <<slots, boot, probed, ops>>

-----------------------------------------------------------------------------
(* The upstream's answer *)

Cool(r, results) == \E sl \in results : slots' = [slots EXCEPT ![req[r].at] = sl]

\* The exchange fails before a response header: through the network's fault,
\* or because the request's own context has ended.  The code cools the slot
\* either way.
TransportError(r) ==
    /\ req[r].pc = "sent"
    /\ Cool(r, CoolSlot(slots[req[r].at], 0))
    /\ req' = [req EXCEPT ![r].pc = "failed", ![r].cause = "transport"]
    /\ UNCHANGED <<active, boot, probed, ops>>

TooManyRequests(r) ==
    /\ req[r].pc = "sent"
    /\ \E after \in RetryAfters :
         Cool(r, CoolModel(slots[req[r].at], req[r].model, after))
    /\ req' = [req EXCEPT ![r].pc = "failed", ![r].cause = "status"]
    /\ UNCHANGED <<active, boot, probed, ops>>

ServerError(r) ==
    /\ req[r].pc = "sent"
    /\ \E after \in RetryAfters : Cool(r, CoolSlot(slots[req[r].at], after))
    /\ req' = [req EXCEPT ![r].pc = "failed", ![r].cause = "status"]
    /\ UNCHANGED <<active, boot, probed, ops>>

\* Below 500 and not 429.  A body that is buffered, and a 2xx stream, commit
\* nothing yet; a stream with another status commits its header at once.  A
\* model list whose status is not 200 is not filtered but buffered.
Accept(r) ==
    /\ req[r].pc = "sent"
    /\ \/ req' = [req EXCEPT ![r].pc = "reading"]
       \/ /\ req[r].kind = "models"
          /\ req' = [req EXCEPT ![r].pc = "reading", ![r].kind = "buffered"]
       \/ /\ req[r].kind = "stream"
          /\ req' = [req EXCEPT ![r] = [Answer(req[r], "upstream")
                                          EXCEPT !.pc = "relaying"]]
    /\ UNCHANGED pool

Retryable == {"transport", "status", "body"}

MayRetry(q) ==
    q.cause \in Retryable /\ q.attempt < MaxRetries /\ Untried(q) # {}

Retry(r) ==
    /\ req[r].pc = "failed"
    /\ MayRetry(req[r])
    /\ req' = [req EXCEPT ![r].pc = "top", ![r].attempt = @ + 1,
                          ![r].cause = "none"]
    /\ UNCHANGED pool

\* Without a retry a 429 or 5xx is passed on as it is, any other failure is
\* answered by the gateway.
GiveUp(r) ==
    /\ req[r].pc = "failed"
    /\ ~MayRetry(req[r])
    /\ req' = [req EXCEPT ![r] =
                 IF req[r].cause = "status"
                 THEN [Answer(req[r], "upstream") EXCEPT !.pc = "relaying"]
                 ELSE Return(Answer(req[r], "unavailable"))]
    /\ UNCHANGED pool

-----------------------------------------------------------------------------
(* The body *)

Forgive(r) ==
    slots' = [slots EXCEPT ![req[r].at] = Succeed(@, req[r].model)]

Deliver(r) ==
    /\ req[r].pc = "reading"
    /\ req[r].kind # "stream"
    /\ Forgive(r)
    /\ req' = [req EXCEPT ![r] = Return(Answer(req[r], "upstream"))]
    /\ UNCHANGED <<active, boot, probed, ops>>

\* The first output of a stream releases what was held back.
CommitStream(r) ==
    /\ req[r].pc = "reading"
    /\ req[r].kind = "stream"
    /\ req' = [req EXCEPT ![r] = [Answer(req[r], "upstream")
                                    EXCEPT !.pc = "relaying"]]
    /\ UNCHANGED pool

\* Writing to a client that is gone ends the context.  A stream that could
\* not write its first output counts as uncommitted and may be retried.
ClientLost(r) ==
    /\ req[r].pc = "reading"
    /\ req' = [req EXCEPT ![r] =
                 IF req[r].kind = "stream"
                 THEN [req[r] EXCEPT !.pc = "failed", !.cause = "body",
                                     !.ended = TRUE]
                 ELSE Return([Answer(req[r], "upstream") EXCEPT !.ended = TRUE])]
    /\ UNCHANGED pool

\* handleUpstreamBodyFailure, up to the selection of another exit.
BreakBody(r, minimum, cause) ==
    /\ \E whole \in CoolSlot(slots[req[r].at], minimum) :
         Cool(r, IF req[r].model = NoModel THEN {whole}
                 ELSE CoolModel(whole, req[r].model, minimum))
    /\ req' = [req EXCEPT ![r].pc = "switching", ![r].cause = cause]
    /\ UNCHANGED <<active, boot, probed, ops>>

BodyFails(r) ==
    /\ req[r].pc = "reading"
    /\ BreakBody(r, 0, IF req[r].kind = "models" THEN "final" ELSE "body")

\* The stream ends, or its first-output timer fires, before any output.
NoFirstOutput(r) ==
    /\ req[r].pc = "reading"
    /\ req[r].kind = "stream"
    /\ BreakBody(r, StreamFailureCooldown, "body")

TooLarge(r) ==
    /\ req[r].pc = "reading"
    /\ req[r].kind = "buffered"
    /\ req' = [req EXCEPT ![r].pc = "failed", ![r].cause = "final"]
    /\ UNCHANGED pool

\* A relayed 429 or 5xx (cause "status") forgives nothing.
RelayEnds(r) ==
    /\ req[r].pc = "relaying"
    /\ IF req[r].cause = "status" THEN UNCHANGED slots ELSE Forgive(r)
    /\ req' = [req EXCEPT ![r] = Return(req[r])]
    /\ UNCHANGED <<active, boot, probed, ops>>

\* Faulty variant: a committed stream is reported as one that may be retried.
RelayFailsRetryably(r) ==
    /\ req[r].pc = "relaying"
    /\ BreakBody(r, 0, "body")

RelayFails(r) ==
    /\ req[r].pc = "relaying"
    /\ BreakBody(r, 0, "committed")

\* The upstream reports a terminal failure, or the client is gone.
RelayStops(r) ==
    /\ req[r].pc = "relaying"
    /\ req' = [req EXCEPT ![r] = Return(req[r])]
    /\ UNCHANGED pool

\* Faulty variant: the selection waits for an exit that is ready.
BlockingSwitchExit(r) ==
    /\ req[r].pc = "switching"
    /\ \E s \in Slots :
         /\ ~slots[s].disabled
         /\ Identity(s, slots[s]) # Identity(req[r].at, slots[req[r].at])
         /\ ReadyIn(slots[s], req[r].model) = 0
         /\ active' = s
    /\ req' = [req EXCEPT ![r] = IF req[r].cause = "committed" THEN Return(req[r])
                                 ELSE [req[r] EXCEPT !.pc = "failed"]]
    /\ UNCHANGED <<slots, boot, probed, ops>>

\* The selection that follows a broken body moves the active slot off it.
SwitchExit(r) ==
    LET others == {s \in Slots : /\ ~slots[s].disabled
                                 /\ Identity(s, slots[s])
                                      # Identity(req[r].at, slots[req[r].at])}
        ready  == Ready(others, req[r].model)
    IN
    /\ req[r].pc = "switching"
    /\ IF ready = {} THEN UNCHANGED active
       ELSE \E s \in Slots : FirstOf(ready, s) /\ active' = s
    /\ req' = [req EXCEPT ![r] = IF req[r].cause = "committed" THEN Return(req[r])
                                 ELSE [req[r] EXCEPT !.pc = "failed"]]
    /\ UNCHANGED <<slots, boot, probed, ops>>

-----------------------------------------------------------------------------
(* Probes, the administrator and the clock *)

\* probeDirectSlot and the admin's /probe run refreshSlotEgress on a slot.
Refresh(s) ==
    \/ slots' = [slots EXCEPT ![s] = ProbeFailed(@)]
    \/ \E ip \in Exit[s] : slots' = [slots EXCEPT ![s] = ProbeSucceeded(@, ip)]

ProbeDirect ==
    /\ boot = "probing"
    /\ Statics = {}
    /\ \E s \in DirectSlots : Refresh(s)
    /\ boot' = "ready"
    /\ UNCHANGED <<active, probed, ops, req>>

\* The start-up probe of the proxies applies its results, then disables all
\* but one of the slots that share an address, a proxy before the direct one.
ProbeStatics ==
    /\ boot = "probing"
    /\ Statics # {}
    /\ probed' \in [Slots -> Egresses \cup {NoEgress}]
    /\ \A s \in Slots : probed'[s] \in Exit[s] \cup {NoEgress}
    /\ slots' = [s \in Slots |->
                   IF probed'[s] = NoEgress THEN ProbeFailed(slots[s])
                   ELSE [slots[s] EXCEPT !.egress = probed'[s], !.disabled = FALSE]]
    /\ boot' = "applied"
    /\ UNCHANGED <<active, ops, req>>

Key(s) == IF probed[s] # NoEgress THEN <<"egress", probed[s]>>
          ELSE Identity(s, slots[s])

Duplicate(s) ==
    LET same == {t \in Slots : /\ ~slots[t].disabled
                               /\ slots[t].egress # NoEgress
                               /\ Key(t) = Key(s)}
    IN  /\ s \in same
        /\ \E t \in same : IF s \in DirectSlots THEN t \in Statics
                           ELSE t \in Statics /\ t < s

Deduplicate ==
    /\ boot = "applied"
    /\ slots' = [s \in Slots |-> [slots[s] EXCEPT !.disabled = @ \/ Duplicate(s)]]
    /\ boot' = "ready"
    /\ UNCHANGED <<active, probed, ops, req>>

Admin(op) ==
    /\ op \in AdminOps
    /\ ops < MaxOps
    /\ ops' = ops + 1
    /\ UNCHANGED <<boot, probed, req>>

Probe(s) == Admin("probe") /\ Refresh(s) /\ UNCHANGED active

SetEnabled(s) ==
    /\ Admin("enable")
    /\ \E off \in BOOLEAN : slots' = [slots EXCEPT ![s].disabled = off]
    /\ UNCHANGED active

\* /rotate leaves the active slot for the next one in the ring that is in
\* service, ready for a request without a model, on another address, and
\* not forbidden.  A slot whose address is unknown is probed on the way: that
\* is a Probe step before this one.
Rotate ==
    /\ Admin("rotate")
    /\ \E forbidden \in SUBSET Egresses, s \in Slots \ {active} :
         /\ FirstOf({t \in Ready(Slots \ {active}, NoModel) :
                        /\ ~slots[t].disabled
                        /\ slots[t].egress \notin forbidden
                             \cup {slots[active].egress, NoEgress}}, s)
         /\ active' = s
    /\ UNCHANGED slots

Tick ==
    /\ \/ \E s \in Slots : Cooling(slots[s])
       \/ \E r \in Requests : req[r].timer > 0
    /\ slots' = [s \in Slots |-> Elapse(slots[s])]
    /\ req' = [r \in Requests |-> [req[r] EXCEPT !.timer = Less(@)]]
    /\ UNCHANGED <<active, boot, probed, ops>>

-----------------------------------------------------------------------------
Serve(r) ==
    \/ Abort(r) \/ Pick(r) \/ Wait(r) \/ NoUntriedSlot(r) \/ WaitTimeout(r)
    \/ Send(r) \/ Malformed(r)
    \/ TransportError(r) \/ TooManyRequests(r) \/ ServerError(r)
    \/ Accept(r) \/ Retry(r) \/ GiveUp(r) \/ Deliver(r)
    \/ CommitStream(r) \/ ClientLost(r) \/ BodyFails(r) \/ NoFirstOutput(r)
    \/ TooLarge(r) \/ RelayEnds(r) \/ RelayFails(r) \/ RelayStops(r)
    \/ SwitchExit(r)

Control ==
    \/ ProbeDirect \/ ProbeStatics \/ Deduplicate \/ Rotate
    \/ \E s \in Slots : Probe(s) \/ SetEnabled(s)

Next ==
    \/ \E r \in Requests : Begin(r) \/ ContextEnds(r) \/ Serve(r)
    \/ Control
    \/ Tick

Spec == Init /\ [][Next]_vars

\* REQUEST_TIMEOUT ends every context; the goroutine of a request runs on,
\* and no call it blocks in outlives the context; a timer that has fired
\* and an ended context are both served by the select of the wait; the
\* clock moves.
Fairness ==
    /\ \A r \in Requests : /\ WF_vars(ContextEnds(r))
                           /\ WF_vars(Serve(r))
                           /\ WF_vars(WaitTimeout(r))
    /\ WF_vars(Tick)

LiveSpec == Spec /\ Fairness

-----------------------------------------------------------------------------
(* Properties *)

RequestRecords ==
    [ pc : Locations, kind : Kinds \cup {"buffered"}, model : Models,
      attempt : 0 .. MaxRetries, tried : SUBSET Identities,
      used : SUBSET Slots, at : Slots, cause : Causes, timer : Nat,
      ended : BOOLEAN, replies : Seq(Replies) ]

\* The types of the variables.
TypeOK ==
    /\ slots \in [Slots -> SlotRecords]
    /\ active \in Slots
    /\ boot \in {"probing", "applied", "ready"}
    /\ probed \in [Slots -> Egresses \cup {NoEgress}]
    /\ ops \in 0 .. MaxOps
    /\ req \in [Requests -> RequestRecords]

\* The header of a reply has gone out and forward is still at work.
Replied(q) ==
    q.pc = "relaying" \/ (q.pc = "switching" /\ q.cause = "committed")

\* What a client has received at each point of its request: nothing while the
\* request may still be sent through another exit, one reply while forward
\* relays it, and when forward has returned at most one, and exactly one
\* unless the context of the request ended first or its target is malformed
\* (net/http then answers with an empty 200 of its own).
Delivered(q) ==
    /\ Replied(q) => Len(q.replies) = 1
    /\ q.pc = "done" =>
         /\ Len(q.replies) <= 1
         /\ q.ended \/ q.kind = "malformed" \/ Len(q.replies) = 1
    /\ ~Replied(q) /\ q.pc # "done" => q.replies = <<>>

\* Every request is in step with its client: replies are neither spliced
\* (the commit of a stream waits for its first output, and a committed stream
\* is not retried), nor repeated, nor forgotten.
DeliveryInv == \A r \in Requests : Delivered(req[r])

\* Every attempt of a request leaves through another public address (README:
\* MAX_RETRIES counts different exits).  Stated for exits whose address is
\* fixed: Exit[s] is a singleton.
DistinctExits ==
    \A r \in Requests :
        req[r].pc \in {"sent", "reading", "switching", "failed"}
            => Cardinality(UNION {Exit[s] : s \in req[r].used})
                 = req[r].attempt + 1

\* A step that records a cooldown for the model of a request.
ModelCooled(r) ==
    \/ TooManyRequests(r)
    \/ /\ req[r].model # NoModel
       /\ BodyFails(r) \/ NoFirstOutput(r) \/ RelayFails(r)

\* What such a step leaves of the table.
Remembered(model, sl, t) ==
    LET had == LiveModels(sl)
        has == LiveModels(t)
    IN
    /\ model \in has
    /\ Cardinality(has) <= MaxModelCooldowns
    /\ \A lost \in had \ has :
         /\ model \notin had /\ Cardinality(had) = MaxModelCooldowns
         /\ \A m \in had \ {lost} :
              m \in has /\ sl.cool[lost].until <= sl.cool[m].until

\* A model whose cooldown has just been recorded on an exit is cooled there,
\* however full the table of the exit is: within its bound the table forgets
\* nothing, and a full one gives up a single entry, that of another model and
\* the one that ends first.
CooldownsRemembered ==
    [][\A r \in Requests :
         ModelCooled(r) => Remembered(req[r].model, slots[req[r].at],
                                      slots'[req[r].at])]_vars

\* The promise of RequestService: a bounded number of attempts, one reply at
\* most, no attempt after the reply.
Phase(q) ==
    IF q.pc \in {"idle", "done"} THEN q.pc
    ELSE IF Replied(q) THEN "replied" ELSE "trying"

Sends(q) ==
    IF q.pc \in {"idle", "done"} THEN 0
    ELSE IF q.pc \in {"top", "waiting", "picked"} THEN q.attempt
    ELSE q.attempt + 1

Service == INSTANCE RequestService WITH
             MaxAttempts <- MaxRetries + 1,
             phase <- [r \in Requests |-> Phase(req[r])],
             sends <- [r \in Requests |-> Sends(req[r])],
             replies <- [r \in Requests |-> Len(req[r].replies)]

\* forward keeps the promise of RequestService to every request.
ServesRequests == Service!Spec

\* Every request that enters forward leaves it: no wait for a cooldown, no
\* retry and no upstream holds it past its context.
RequestReturns == \A r \in Requests : req[r].pc = "top" ~> req[r].pc = "done"
=============================================================================
