--------------------------- MODULE Forward_proofs ---------------------------
(***************************************************************************)
(* Forward keeps its types, never splices two replies and implements       *)
(* RequestService, for every number of exits, requests, models and         *)
(* retries.                                                                *)
(*                                                                         *)
(* Every attempt of a request leaves through another public address: a     *)
(* request remembers exits by identity, and an identity changes when an    *)
(* address is found, so the argument needs that only slots whose address   *)
(* is known are in service, and that a known address stays (ExitInv).  The *)
(* same walk over the steps shows that the table of model cooldowns of a   *)
(* slot never grows beyond its bound.                                      *)
(*                                                                         *)
(* With the histories of ForwardHistory: whatever cools an exit as a whole *)
(* is a fault of it, a context that has ended or an address that it has no *)
(* longer; without the last two it is a fault (FaultInv).                  *)
(***************************************************************************)
EXTENDS ForwardHistory, FiniteSetTheorems, TLAPS

-----------------------------------------------------------------------------
(* What the critical sections of a slot return: they keep a slot a slot, and a *)
(* cooldown they start is never shorter than the minimum it was given. *)

LEMMA BackoffType ==
  ASSUME NEW n \in Nat
  PROVE  Backoff(n) \in Nat \ {0}
BY PoolAssumption DEF Backoff

\* One more failure leaves a counter in its range and a delay of at least the
\* minimum, and never of zero length.
LEMMA NextCooldownType ==
  ASSUME NEW fails \in 0 .. MaxFails, NEW minimum \in Nat,
         NEW c \in NextCooldown(fails, minimum)
  PROVE  /\ c \in Cooldowns
         /\ c.until >= minimum
         /\ c.until > 0
<1> DEFINE n == IF fails < MaxFails THEN fails + 1 ELSE MaxFails
<1>1. n \in 0 .. MaxFails /\ n \in Nat
  BY PoolAssumption
<1>2. Backoff(n) \in Nat \ {0}
  BY <1>1, BackoffType
<1> HIDE DEF n
<1>3. PICK j \in 0 .. (Backoff(n) \div 5) :
        c = [fails |-> n, until |-> IF minimum > Backoff(n) + j THEN minimum
                                    ELSE Backoff(n) + j]
  BY DEF NextCooldown, n
<1>4. j \in Nat
  BY <1>2, <1>3
<1> QED
  BY <1>1, <1>2, <1>3, <1>4 DEF Cooldowns

\* Cooling a slot as a whole leaves a slot, unusable for at least the minimum.
LEMMA CoolSlotType ==
  ASSUME NEW sl \in SlotRecords, NEW minimum \in Nat,
         NEW t \in CoolSlot(sl, minimum)
  PROVE  t \in SlotRecords /\ t.until >= minimum
<1>1. PICK c \in NextCooldown(sl.fails, minimum) :
        t = [sl EXCEPT !.fails = c.fails, !.until = c.until]
  BY DEF CoolSlot
<1>2. c \in Cooldowns /\ c.until >= minimum
  BY NextCooldownType DEF SlotRecords
<1> QED
  BY <1>1, <1>2 DEF SlotRecords, Cooldowns

LEMMA NoCooldownType == NoCooldown \in Cooldowns
BY PoolAssumption DEF NoCooldown, Cooldowns

LEMMA EvictedType ==
  ASSUME NEW sl \in SlotRecords, NEW model \in Models,
         NEW t \in Evicted(sl, model)
  PROVE  t \in SlotRecords
BY NoCooldownType DEF Evicted, EndingFirst, LiveModels, SlotRecords

\* A 429 leaves a slot on which the model has a live cooldown of at least the
\* minimum, whatever the table had to give up for it.
LEMMA CoolModelType ==
  ASSUME NEW sl \in SlotRecords, NEW model \in Models, NEW minimum \in Nat,
         NEW t \in CoolModel(sl, model, minimum)
  PROVE  /\ t \in SlotRecords
         /\ t.cool[model].until >= minimum
         /\ Live(t.cool[model])
<1>1. PICK room \in Evicted(sl, model) :
        \E c \in NextCooldown(room.cool[model].fails, minimum) :
            t = [room EXCEPT !.cool[model] = c]
  BY DEF CoolModel
<1>2. room \in SlotRecords
  BY <1>1, EvictedType
<1>3. PICK c \in NextCooldown(room.cool[model].fails, minimum) :
        t = [room EXCEPT !.cool[model] = c]
  BY <1>1
<1>4. c \in Cooldowns /\ c.until >= minimum /\ c.until > 0
  BY <1>2, NextCooldownType DEF SlotRecords, Cooldowns
<1> QED
  BY <1>2, <1>3, <1>4 DEF SlotRecords, Live

LEMMA SucceedType ==
  ASSUME NEW sl \in SlotRecords, NEW model \in Models
  PROVE  Succeed(sl, model) \in SlotRecords
<1>1. [sl.cool EXCEPT ![model] = NoCooldown] \in [Models -> Cooldowns]
  BY NoCooldownType DEF SlotRecords
<1>2. 0 \in 0 .. MaxFails
  BY PoolAssumption
<1> QED
  BY <1>1, <1>2 DEF Succeed, SlotRecords

LEMMA ProbeType ==
  ASSUME NEW sl \in SlotRecords, NEW ip \in Egresses
  PROVE  ProbeFailed(sl) \in SlotRecords /\ ProbeSucceeded(sl, ip) \in SlotRecords
<1>1. [m \in Models |-> NoCooldown] \in [Models -> Cooldowns]
  BY NoCooldownType
<1>2. 0 \in 0 .. MaxFails
  BY PoolAssumption
<1>3. ProbeFailed(sl) \in SlotRecords
  BY DEF ProbeFailed, SlotRecords
<1>4. ProbeSucceeded(sl, ip) \in SlotRecords
  BY <1>1, <1>2 DEF ProbeSucceeded, SlotRecords
<1> QED
  BY <1>3, <1>4

LEMMA ElapseType ==
  ASSUME NEW sl \in SlotRecords
  PROVE  Elapse(sl) \in SlotRecords
<1> DEFINE cooler(m) == IF sl.cool[m].until > 1
                        THEN [fails |-> sl.cool[m].fails,
                              until |-> sl.cool[m].until - 1]
                        ELSE NoCooldown
<1>1. ASSUME NEW m \in Models PROVE cooler(m) \in Cooldowns
  BY NoCooldownType DEF SlotRecords, Cooldowns
<1>2. [m \in Models |-> cooler(m)] \in [Models -> Cooldowns]
  BY <1>1
<1>3. Less(sl.until) \in Nat
  BY DEF Less, SlotRecords
<1> HIDE DEF cooler
<1>4. Elapse(sl) = [sl EXCEPT !.until = Less(sl.until),
                              !.cool = [m \in Models |-> cooler(m)]]
  BY DEF Elapse, cooler
<1> QED
  BY <1>2, <1>3, <1>4 DEF SlotRecords

LEMMA FreshSlotType ==
  ASSUME NEW off \in BOOLEAN
  PROVE  FreshSlot(off) \in SlotRecords
BY NoCooldownType, PoolAssumption DEF FreshSlot, SlotRecords

LEMMA ReadyInType ==
  ASSUME NEW sl \in SlotRecords, NEW model \in Models
  PROVE  ReadyIn(sl, model) \in Nat
BY DEF ReadyIn, SlotRecords, Cooldowns

LEMMA IdentityType ==
  ASSUME NEW s \in Slots, NEW sl \in SlotRecords
  PROVE  Identity(s, sl) \in Identities
BY DEF Identity, Identities, SlotRecords

-----------------------------------------------------------------------------
(* Type correctness *)

\* The fields of one request.
LEMMA NewRequestType ==
  ASSUME NEW kind \in Kinds \cup {"buffered"}, NEW model \in Models
  PROVE  NewRequest(kind, model) \in RequestRecords
BY ForwardAssumption, PoolAssumption
   DEF NewRequest, RequestRecords, Locations, Causes, Slots

LEMMA AnswerType ==
  ASSUME NEW q \in RequestRecords, NEW reply \in Replies
  PROVE  Answer(q, reply) \in RequestRecords
<1>1. q.replies \in Seq(Replies)
  BY DEF RequestRecords
<1>2. Append(q.replies, reply) \in Seq(Replies)
  BY <1>1
<1> QED
  BY <1>2 DEF Answer, RequestRecords

LEMMA ReturnType ==
  ASSUME NEW q \in RequestRecords
  PROVE  Return(q) \in RequestRecords
<1>1. NewRequest(q.kind, q.model) \in RequestRecords
  BY NewRequestType DEF RequestRecords
<1> QED
  BY <1>1 DEF Return, RequestRecords, Locations

LEMMA InitType == Init => TypeOK
<1> SUFFICES ASSUME Init PROVE TypeOK
  OBVIOUS
<1>1. slots \in [Slots -> SlotRecords]
  <2>1. ASSUME NEW s \in Slots PROVE FreshSlot(s \in Statics) \in SlotRecords
    <3>1. (s \in Statics) \in BOOLEAN
      OBVIOUS
    <3> QED
      BY <3>1, FreshSlotType
  <2> QED
    BY <2>1 DEF Init
<1>2. NewRequest("buffered", NoModel) \in RequestRecords
  BY NewRequestType, PoolAssumption
<1>3. [NewRequest("buffered", NoModel) EXCEPT !.pc = "idle"] \in RequestRecords
  BY <1>2 DEF RequestRecords, Locations
<1>4. req \in [Requests -> RequestRecords]
  BY <1>3 DEF Init
<1>5. 1 \in Slots /\ 0 \in 0 .. MaxOps
  BY PoolAssumption, ForwardAssumption DEF Slots
<1>6. probed \in [Slots -> Egresses \cup {NoEgress}]
  BY DEF Init
<1> QED
  BY <1>1, <1>4, <1>5, <1>6 DEF Init, TypeOK

\* A step of one request's goroutine.
LEMMA ServeType ==
  ASSUME TypeOK, NEW r \in Requests, Begin(r) \/ ContextEnds(r) \/ Serve(r)
  PROVE  TypeOK'
<1> DEFINE q == req[r]
<1>q. q \in RequestRecords
  BY DEF TypeOK
<1>s. q.at \in Slots /\ slots[q.at] \in SlotRecords /\ q.model \in Models
  BY <1>q DEF TypeOK, RequestRecords
<1>pool. ASSUME UNCHANGED pool, req' \in [Requests -> RequestRecords]
         PROVE  TypeOK'
  BY <1>pool DEF TypeOK, pool
<1>slot. ASSUME NEW sl \in SlotRecords, slots' = [slots EXCEPT ![q.at] = sl],
                UNCHANGED <<active, boot, probed, ops>>,
                req' \in [Requests -> RequestRecords]
         PROVE  TypeOK'
  BY <1>slot, <1>s DEF TypeOK
<1>ret. Return(q) \in RequestRecords
  BY <1>q, ReturnType
<1>ans. ASSUME NEW reply \in Replies
        PROVE  /\ Answer(q, reply) \in RequestRecords
               /\ Return(Answer(q, reply)) \in RequestRecords
  BY <1>q, AnswerType, ReturnType
<1>fld. /\ \A pc \in Locations : [q EXCEPT !.pc = pc] \in RequestRecords
        /\ \A pc \in Locations, cause \in Causes :
             [q EXCEPT !.pc = pc, !.cause = cause] \in RequestRecords
  BY <1>q DEF RequestRecords
<1>one. ASSUME NEW x \in RequestRecords, req' = [req EXCEPT ![r] = x]
        PROVE  req' \in [Requests -> RequestRecords]
  BY <1>one DEF TypeOK
<1> USE DEF Locations, Causes, Replies
<1>1. CASE Begin(r)
  <2>1. PICK kind \in Kinds, model \in RequestModels :
          req' = [req EXCEPT ![r] = NewRequest(kind, model)]
    BY <1>1 DEF Begin
  <2>2. NewRequest(kind, model) \in RequestRecords
    BY NewRequestType, ForwardAssumption
  <2> QED
    BY <1>1, <1>pool, <1>one, <2>1, <2>2 DEF Begin
<1>2. CASE ContextEnds(r)
  <2>1. [q EXCEPT !.ended = TRUE] \in RequestRecords
    BY <1>q DEF RequestRecords
  <2>2. req' = [req EXCEPT ![r] = [q EXCEPT !.ended = TRUE]]
    BY <1>2 DEF ContextEnds, TypeOK
  <2> QED
    BY <1>2, <1>pool, <1>one, <2>1, <2>2 DEF ContextEnds
<1>3. CASE Abort(r) \/ RelayStops(r)
  BY <1>3, <1>pool, <1>one, <1>ret DEF Abort, RelayStops
<1>4. CASE Pick(r)
  <2>1. PICK s \in Slots : req' = [req EXCEPT ![r].pc = "picked", ![r].at = s]
    BY <1>4 DEF Pick
  <2>2. [q EXCEPT !.pc = "picked", !.at = s] \in RequestRecords
    BY <1>q DEF RequestRecords
  <2>3. req' = [req EXCEPT ![r] = [q EXCEPT !.pc = "picked", !.at = s]]
    BY <2>1 DEF TypeOK
  <2> QED
    BY <1>4, <1>pool, <1>one, <2>2, <2>3 DEF Pick
<1>5. CASE Wait(r)
  <2>1. PICK s \in Untried(q) :
          req' = [req EXCEPT ![r].pc = "waiting",
                             ![r].timer = ReadyIn(slots[s], q.model)]
    BY <1>5 DEF Wait
  <2>2. ReadyIn(slots[s], q.model) \in Nat
    BY <1>s, ReadyInType DEF Untried, TypeOK
  <2>3. [q EXCEPT !.pc = "waiting", !.timer = ReadyIn(slots[s], q.model)]
          \in RequestRecords
    BY <1>q, <2>2 DEF RequestRecords
  <2>4. req' = [req EXCEPT ![r] = [q EXCEPT !.pc = "waiting",
                                     !.timer = ReadyIn(slots[s], q.model)]]
    BY <2>1 DEF TypeOK
  <2> QED
    BY <1>5, <1>pool, <1>one, <2>3, <2>4 DEF Wait
<1>6. CASE NoUntriedSlot(r)
  BY <1>6, <1>pool, <1>one, <1>ans DEF NoUntriedSlot
<1>7. CASE WaitTimeout(r)
  BY <1>7, <1>pool, <1>one, <1>ans DEF WaitTimeout
<1>8. CASE Send(r)
  <2> DEFINE id == Identity(q.at, slots[q.at])
  <2>1. id \in Identities
    BY <1>s, IdentityType
  <2>2. [q EXCEPT !.pc = "sent", !.tried = @ \cup {id}, !.used = @ \cup {q.at}]
          \in RequestRecords
    BY <1>q, <1>s, <2>1 DEF RequestRecords
  <2>3. req' = [req EXCEPT ![r] = [q EXCEPT !.pc = "sent",
                  !.tried = @ \cup {id}, !.used = @ \cup {q.at}]]
    BY <1>8 DEF Send, TypeOK
  <2>4. req' \in [Requests -> RequestRecords]
    BY <1>one, <2>2, <2>3
  <2> QED
    BY <1>8, <1>s, <2>4 DEF Send, TypeOK
<1>25. CASE Malformed(r)
  <2>1. req' \in [Requests -> RequestRecords]
    BY <1>25, <1>one, <1>ret DEF Malformed
  <2> QED
    BY <1>25, <1>s, <2>1 DEF Malformed, TypeOK
<1>9. CASE TransportError(r)
  <2>1. PICK sl \in CoolSlot(slots[q.at], 0) : slots' = [slots EXCEPT ![q.at] = sl]
    BY <1>9 DEF TransportError, Cool
  <2>2. sl \in SlotRecords
    BY <1>s, CoolSlotType
  <2>3. req' = [req EXCEPT ![r] = [q EXCEPT !.pc = "failed", !.cause = "transport"]]
    BY <1>9 DEF TransportError, TypeOK
  <2> QED
    BY <1>9, <1>slot, <1>one, <1>fld, <2>1, <2>2, <2>3 DEF TransportError
<1>10. CASE TooManyRequests(r)
  <2>1. PICK after \in RetryAfters :
          \E sl \in CoolModel(slots[q.at], q.model, after) : slots' = [slots EXCEPT ![q.at] = sl]
    BY <1>10 DEF TooManyRequests, Cool
  <2>2. PICK sl \in SlotRecords : slots' = [slots EXCEPT ![q.at] = sl]
    BY <1>s, <2>1, CoolModelType, ForwardAssumption
  <2>3. req' = [req EXCEPT ![r] = [q EXCEPT !.pc = "failed", !.cause = "status"]]
    BY <1>10 DEF TooManyRequests, TypeOK
  <2> QED
    BY <1>10, <1>slot, <1>one, <1>fld, <2>2, <2>3 DEF TooManyRequests
<1>11. CASE ServerError(r)
  <2>1. PICK after \in RetryAfters :
          \E sl \in CoolSlot(slots[q.at], after) : slots' = [slots EXCEPT ![q.at] = sl]
    BY <1>11 DEF ServerError, Cool
  <2>2. PICK sl \in SlotRecords : slots' = [slots EXCEPT ![q.at] = sl]
    BY <1>s, <2>1, CoolSlotType, ForwardAssumption
  <2>3. req' = [req EXCEPT ![r] = [q EXCEPT !.pc = "failed", !.cause = "status"]]
    BY <1>11 DEF ServerError, TypeOK
  <2> QED
    BY <1>11, <1>slot, <1>one, <1>fld, <2>2, <2>3 DEF ServerError
<1>12. CASE Accept(r)
  <2>1. CASE req' = [req EXCEPT ![r].pc = "reading"]
    <3>1. req' = [req EXCEPT ![r] = [q EXCEPT !.pc = "reading"]]
      BY <2>1 DEF TypeOK
    <3> QED
      BY <1>12, <1>pool, <1>one, <1>fld, <3>1 DEF Accept
  <2>2. CASE req' = [req EXCEPT ![r].pc = "reading", ![r].kind = "buffered"]
    <3>1. req' = [req EXCEPT ![r] = [q EXCEPT !.pc = "reading", !.kind = "buffered"]]
      BY <2>2 DEF TypeOK
    <3>2. [q EXCEPT !.pc = "reading", !.kind = "buffered"] \in RequestRecords
      BY <1>q DEF RequestRecords
    <3> QED
      BY <1>12, <1>pool, <1>one, <3>1, <3>2 DEF Accept
  <2>3. CASE req' = [req EXCEPT ![r] = [Answer(q, "upstream") EXCEPT !.pc = "relaying"]]
    <3>1. [Answer(q, "upstream") EXCEPT !.pc = "relaying"] \in RequestRecords
      BY ZenonT(30), <1>ans DEF RequestRecords
    <3> QED
      BY <1>12, <1>pool, <1>one, <2>3, <3>1 DEF Accept
  <2> QED
    BY <1>12, <2>1, <2>2, <2>3 DEF Accept
<1>13. CASE Retry(r)
  <2>1. q.attempt + 1 \in 0 .. MaxRetries
    BY <1>13, <1>q, ForwardAssumption DEF Retry, MayRetry, RequestRecords
  <2>2. [q EXCEPT !.pc = "top", !.attempt = @ + 1, !.cause = "none"] \in RequestRecords
    BY <1>q, <2>1 DEF RequestRecords
  <2>3. req' = [req EXCEPT ![r] = [q EXCEPT !.pc = "top", !.attempt = @ + 1,
                                            !.cause = "none"]]
    BY <1>13 DEF Retry, TypeOK
  <2> QED
    BY <1>13, <1>pool, <1>one, <2>2, <2>3 DEF Retry
<1>14. CASE GiveUp(r)
  <2>1. [Answer(q, "upstream") EXCEPT !.pc = "relaying"] \in RequestRecords
    BY ZenonT(30), <1>ans DEF RequestRecords
  <2>2. Return(Answer(q, "unavailable")) \in RequestRecords
    BY <1>ans
  <2> QED
    BY <1>14, <1>pool, <1>one, <2>1, <2>2 DEF GiveUp
<1>15. CASE Deliver(r)
  BY <1>15, <1>s, <1>slot, <1>one, <1>ans, SucceedType DEF Deliver, Forgive
<1>16. CASE CommitStream(r)
  <2>1. [Answer(q, "upstream") EXCEPT !.pc = "relaying"] \in RequestRecords
    BY ZenonT(30), <1>ans DEF RequestRecords
  <2> QED
    BY <1>16, <1>pool, <1>one, <2>1 DEF CommitStream
<1>17. CASE ClientLost(r)
  <2>1. [Answer(q, "upstream") EXCEPT !.ended = TRUE] \in RequestRecords
    BY <1>ans DEF RequestRecords
  <2>2. Return([Answer(q, "upstream") EXCEPT !.ended = TRUE]) \in RequestRecords
    BY <2>1, ReturnType
  <2>3. [q EXCEPT !.pc = "failed", !.cause = "body", !.ended = TRUE] \in RequestRecords
    BY <1>q DEF RequestRecords
  <2> QED
    BY <1>17, <1>pool, <1>one, <2>2, <2>3 DEF ClientLost
<1>18. ASSUME NEW minimum \in Nat, NEW cause \in Causes, BreakBody(r, minimum, cause)
       PROVE  TypeOK'
  <2>1. PICK whole \in CoolSlot(slots[q.at], minimum) :
          Cool(r, IF q.model = NoModel THEN {whole}
                  ELSE CoolModel(whole, q.model, minimum))
    BY <1>18 DEF BreakBody
  <2>2. whole \in SlotRecords
    BY <1>s, CoolSlotType
  <2>3. PICK sl \in SlotRecords : slots' = [slots EXCEPT ![q.at] = sl]
    BY <1>s, <2>1, <2>2, CoolModelType DEF Cool
  <2>4. req' = [req EXCEPT ![r] = [q EXCEPT !.pc = "switching", !.cause = cause]]
    BY <1>18 DEF BreakBody, TypeOK
  <2> QED
    BY <1>18, <1>slot, <1>one, <1>fld, <2>3, <2>4 DEF BreakBody
<1>19. CASE BodyFails(r)
  BY <1>18, <1>19 DEF BodyFails
<1>20. CASE NoFirstOutput(r)
  BY <1>18, <1>20, ForwardAssumption DEF NoFirstOutput
<1>21. CASE RelayFails(r)
  BY <1>18, <1>21 DEF RelayFails
<1>22. CASE TooLarge(r)
  <2>1. req' = [req EXCEPT ![r] = [q EXCEPT !.pc = "failed", !.cause = "final"]]
    BY <1>22 DEF TooLarge, TypeOK
  <2> QED
    BY <1>22, <1>pool, <1>one, <1>fld, <2>1 DEF TooLarge
<1>23. CASE RelayEnds(r)
  <2>1. req' \in [Requests -> RequestRecords]
    BY <1>23, <1>one, <1>ret DEF RelayEnds
  <2>2. CASE UNCHANGED slots
    BY <1>23, <2>1, <2>2 DEF RelayEnds, TypeOK
  <2>3. CASE Forgive(r)
    BY <1>23, <1>s, <1>slot, <2>1, <2>3, SucceedType DEF RelayEnds, Forgive
  <2> QED
    BY <1>23, <2>2, <2>3 DEF RelayEnds
<1>24. CASE SwitchExit(r)
  <2>1. active' \in Slots
    BY <1>24 DEF SwitchExit, TypeOK
  <2>2. req' \in [Requests -> RequestRecords]
    BY <1>24, <1>one, <1>ret, <1>fld DEF SwitchExit
  <2> QED
    BY <1>24, <2>1, <2>2 DEF SwitchExit, TypeOK
<1> QED
  BY <1>1, <1>2, <1>3, <1>4, <1>5, <1>6, <1>7, <1>8, <1>9, <1>10, <1>11, <1>12,
     <1>13, <1>14, <1>15, <1>16, <1>17, <1>19, <1>20, <1>21, <1>22, <1>23, <1>24,
     <1>25
     DEF Serve

\* A step of a probe, the administrator or the clock.
LEMMA ControlType ==
  ASSUME TypeOK, Control \/ Tick
  PROVE  TypeOK'
<1>refresh. ASSUME NEW s \in Slots, Refresh(s) PROVE slots' \in [Slots -> SlotRecords]
  <2>1. slots[s] \in SlotRecords
    BY DEF TypeOK
  <2>2. PICK sl \in SlotRecords : slots' = [slots EXCEPT ![s] = sl]
    <3>1. CASE slots' = [slots EXCEPT ![s] = ProbeFailed(@)]
      <4>1. ProbeFailed(slots[s]) \in SlotRecords
        BY <2>1 DEF ProbeFailed, SlotRecords
      <4> QED
        BY <3>1, <4>1
    <3>2. CASE \E ip \in Exit[s] : slots' = [slots EXCEPT ![s] = ProbeSucceeded(@, ip)]
      <4>1. PICK ip \in Exit[s] : slots' = [slots EXCEPT ![s] = ProbeSucceeded(slots[s], ip)]
        BY <3>2 DEF TypeOK
      <4>2. ip \in Egresses
        BY ForwardAssumption
      <4> QED
        BY <2>1, <4>1, <4>2, ProbeType
    <3> QED
      BY <1>refresh, <3>1, <3>2 DEF Refresh
  <2> QED
    BY <2>2 DEF TypeOK
<1>1. CASE ProbeDirect
  <2>1. DirectSlots \subseteq Slots
    BY PoolAssumption DEF Slots
  <2> QED
    BY <1>1, <1>refresh, <2>1 DEF ProbeDirect, TypeOK
<1>2. CASE ProbeStatics
  <2>1. ASSUME NEW s \in Slots
        PROVE  slots'[s] \in SlotRecords
    <3>1. slots[s] \in SlotRecords /\ probed'[s] \in Egresses \cup {NoEgress}
      BY <1>2 DEF ProbeStatics, TypeOK
    <3>2. ProbeFailed(slots[s]) \in SlotRecords
      BY <3>1 DEF ProbeFailed, SlotRecords
    <3>3. [slots[s] EXCEPT !.egress = probed'[s], !.disabled = FALSE] \in SlotRecords
      BY <3>1 DEF SlotRecords
    <3> QED
      BY <1>2, <3>2, <3>3 DEF ProbeStatics
  <2>2. slots' \in [Slots -> SlotRecords]
    BY <1>2, <2>1 DEF ProbeStatics
  <2> QED
    BY <1>2, <2>2 DEF ProbeStatics, TypeOK
<1>3. CASE Deduplicate
  <2>1. ASSUME NEW s \in Slots
        PROVE  [slots[s] EXCEPT !.disabled = @ \/ Duplicate(s)] \in SlotRecords
    <3>1. slots[s] \in SlotRecords /\ (slots[s].disabled \/ Duplicate(s)) \in BOOLEAN
      BY DEF TypeOK
    <3> QED
      BY <3>1 DEF SlotRecords
  <2> QED
    BY <1>3, <2>1 DEF Deduplicate, TypeOK
<1>4. ASSUME NEW op, Admin(op)
      PROVE  /\ ops' \in 0 .. MaxOps
             /\ UNCHANGED <<boot, probed, req>>
  BY <1>4, ForwardAssumption DEF Admin, TypeOK
<1>5. CASE Rotate
  BY <1>4, <1>5 DEF Rotate, TypeOK
<1>6. ASSUME NEW s \in Slots, Probe(s) PROVE TypeOK'
  BY <1>4, <1>6, <1>refresh DEF Probe, TypeOK
<1>7. ASSUME NEW s \in Slots, SetEnabled(s) PROVE TypeOK'
  <2>1. PICK off \in BOOLEAN : slots' = [slots EXCEPT ![s].disabled = off]
    BY <1>7 DEF SetEnabled
  <2>2. slots[s] \in SlotRecords
    BY DEF TypeOK
  <2>3. [slots[s] EXCEPT !.disabled = off] \in SlotRecords
    BY <2>2 DEF SlotRecords
  <2>4. slots' \in [Slots -> SlotRecords]
    BY <2>1, <2>3 DEF TypeOK
  <2> QED
    BY <1>4, <1>7, <2>4 DEF SetEnabled, TypeOK
<1>8. CASE Tick
  <2>1. slots' \in [Slots -> SlotRecords]
    BY <1>8, ElapseType DEF Tick, TypeOK
  <2>2. ASSUME NEW r \in Requests
        PROVE  [req[r] EXCEPT !.timer = Less(@)] \in RequestRecords
    <3>1. req[r] \in RequestRecords /\ Less(req[r].timer) \in Nat
      BY DEF TypeOK, RequestRecords, Less
    <3> QED
      BY <3>1 DEF RequestRecords
  <2> QED
    BY <1>8, <2>1, <2>2 DEF Tick, TypeOK
<1> QED
  BY <1>1, <1>2, <1>3, <1>5, <1>6, <1>7, <1>8 DEF Control

LEMMA NextType == TypeOK /\ [Next]_vars => TypeOK'
<1> SUFFICES ASSUME TypeOK, [Next]_vars PROVE TypeOK'
  OBVIOUS
<1>1. CASE UNCHANGED vars
  BY <1>1 DEF vars, TypeOK
<1>2. CASE Next
  BY <1>2, ServeType, ControlType DEF Next
<1> QED
  BY <1>1, <1>2

\* Every variable keeps its type, whatever the exits, requests and upstreams do.
THEOREM TypeCorrect == Spec => []TypeOK
<1>1. Init => TypeOK
  BY InitType
<1>2. TypeOK /\ [Next]_vars => TypeOK'
  BY NextType
<1> QED
  BY <1>1, <1>2, PTL DEF Spec

-----------------------------------------------------------------------------
(* Delivery and the refinement of RequestService *)

\* How a step may change what the client of one request sees: the step of
\* RequestService that one request takes, or a stutter.
RequestStep(q, x) ==
    \/ /\ Phase(x) = Phase(q)
       /\ Sends(x) = Sends(q)
       /\ Len(x.replies) = Len(q.replies)
    \/ /\ Phase(q) \in {"idle", "done"} /\ Phase(x) = "trying"
       /\ Sends(x) = 0 /\ Len(x.replies) = 0
    \/ /\ Phase(q) = "trying" /\ Phase(x) = "trying"
       /\ Sends(q) < MaxRetries + 1 /\ Sends(x) = Sends(q) + 1
       /\ Len(x.replies) = Len(q.replies)
    \/ /\ Phase(q) = "trying" /\ Phase(x) = "replied"
       /\ Sends(x) = Sends(q) /\ Len(x.replies) = 1
    \/ /\ Phase(q) \in {"trying", "replied"} /\ Phase(x) = "done"
       /\ Sends(x) = 0
       /\ \/ Len(x.replies) = Len(q.replies)
          \/ Phase(q) = "trying" /\ Len(x.replies) = 1

Good(q, x) == Delivered(x) /\ RequestStep(q, x)

\* Nobody waits for a reply: there is one, or the context has ended, or no request can
\* be made of this one.
Excusable(q) == Replied(q) \/ q.ended \/ q.kind = "malformed"

\* forward returns what it has replied so far.
LEMMA ReturnGood ==
  ASSUME NEW q \in RequestRecords, Delivered(q),
         q.pc \notin {"idle", "done"}, Excusable(q)
  PROVE  Good(q, Return(q))
<1>1. /\ Return(q).pc = "done"
      /\ Return(q).ended = q.ended
      /\ Return(q).kind = q.kind
      /\ Return(q).replies = q.replies
  BY DEF Return, NewRequest
<1>2. Len(q.replies) <= 1 /\ (q.ended \/ q.kind = "malformed" \/ Len(q.replies) = 1)
  <2>1. CASE Replied(q)
    <3>1. Len(q.replies) = 1
      BY <2>1 DEF Delivered
    <3> QED
      BY <3>1
  <2>2. CASE ~Replied(q)
    <3>1. q.replies = <<>> /\ (q.ended \/ q.kind = "malformed")
      BY <2>2 DEF Delivered, Excusable
    <3>2. Len(q.replies) = 0
      BY <3>1
    <3> QED
      BY <3>1, <3>2
  <2> QED
    BY <2>1, <2>2
<1>3. Phase(q) \in {"trying", "replied"}
  BY DEF Phase
<1> DEFINE x == Return(q)
<1>4. Phase(x) = "done" /\ Sends(x) = 0 /\ ~Replied(x)
  BY <1>1 DEF Phase, Sends, Replied
<1> HIDE DEF x
<1>5. x.pc = "done" /\ x.ended = q.ended /\ x.kind = q.kind /\ x.replies = q.replies
  BY <1>1 DEF x
<1>6. Good(q, x)
  BY <1>2, <1>3, <1>4, <1>5 DEF Good, Delivered, RequestStep
<1> QED
  BY <1>6 DEF x

\* forward replies and returns.
LEMMA AnswerReturnGood ==
  ASSUME NEW q \in RequestRecords, NEW x \in RequestRecords, Delivered(q),
         q.pc \notin {"idle", "done"}, ~Replied(q),
         x.pc = "done", Len(x.replies) = 1
  PROVE  Good(q, x)
BY DEF Good, Delivered, RequestStep, Phase, Sends, Replied

LEMMA OneAnswer ==
  ASSUME NEW q \in RequestRecords, NEW reply \in Replies, q.replies = <<>>
  PROVE  /\ Len(Answer(q, reply).replies) = 1
         /\ Return(Answer(q, reply)).pc = "done"
         /\ Len(Return(Answer(q, reply)).replies) = 1
<1>1. Len(Append(<<>>, reply)) = 1
  OBVIOUS
<1>2. Answer(q, reply).replies = Append(<<>>, reply)
  BY DEF Answer, RequestRecords
<1>3. /\ Return(Answer(q, reply)).replies = Answer(q, reply).replies
      /\ Return(Answer(q, reply)).pc = "done"
  BY DEF Return, NewRequest
<1> QED
  BY <1>1, <1>2, <1>3

\* The header goes out and forward relays the rest.
LEMMA RelayGood ==
  ASSUME NEW q \in RequestRecords, NEW reply \in Replies, Delivered(q),
         q.pc \in {"sent", "reading", "failed"}
  PROVE  Good(q, [Answer(q, reply) EXCEPT !.pc = "relaying"])
<1> DEFINE x == [Answer(q, reply) EXCEPT !.pc = "relaying"]
<1>1. q.replies = <<>> /\ Phase(q) = "trying" /\ Sends(q) = q.attempt + 1
  BY DEF Delivered, Replied, Phase, Sends
<1>2. Len(Answer(q, reply).replies) = 1
  BY <1>1, OneAnswer
<1>3. /\ x.pc = "relaying" /\ x.replies = Answer(q, reply).replies
      /\ x.attempt = q.attempt
  BY DEF Answer, RequestRecords
<1> HIDE DEF x
<1> QED
  BY <1>1, <1>2, <1>3 DEF Good, Delivered, RequestStep, Phase, Sends, Replied, x

\* A step that delivers nothing and stays on the same side of the exchange.
LEMMA SilentGood ==
  ASSUME NEW q \in RequestRecords, NEW x \in RequestRecords, Delivered(q),
         q.pc \notin {"idle", "done"}, x.pc \notin {"idle", "done"},
         x.replies = q.replies, Replied(x) <=> Replied(q), Sends(x) = Sends(q)
  PROVE  Good(q, x)
BY DEF Good, Delivered, RequestStep, Phase

LEMMA ServeGood ==
  ASSUME TypeOK, NEW r \in Requests, Delivered(req[r]),
         Begin(r) \/ ContextEnds(r) \/ Serve(r)
  PROVE  \E x \in RequestRecords : Good(req[r], x) /\ req' = [req EXCEPT ![r] = x]
<1> DEFINE q == req[r]
<1>q. q \in RequestRecords
  BY DEF TypeOK
<1>x. req' \in [Requests -> RequestRecords]
  BY ServeType DEF TypeOK
<1>ans. ASSUME NEW reply \in Replies, ~Replied(q), q.pc \notin {"idle", "done"}
        PROVE  /\ Return(Answer(q, reply)) \in RequestRecords
               /\ Good(q, Return(Answer(q, reply)))
  <2>1. q.replies = <<>>
    BY <1>ans DEF Delivered
  <2>2. Answer(q, reply) \in RequestRecords /\ Return(Answer(q, reply)) \in RequestRecords
    BY <1>q, AnswerType, ReturnType
  <2> QED
    BY <1>ans, <1>q, <2>1, <2>2, OneAnswer, AnswerReturnGood
<1>ret. ASSUME Excusable(q), q.pc \notin {"idle", "done"}
        PROVE  Return(q) \in RequestRecords /\ Good(q, Return(q))
  BY <1>ret, <1>q, ReturnType, ReturnGood
<1>rel. ASSUME q.pc \in {"sent", "reading", "failed"}
        PROVE  /\ [Answer(q, "upstream") EXCEPT !.pc = "relaying"] \in RequestRecords
               /\ Good(q, [Answer(q, "upstream") EXCEPT !.pc = "relaying"])
  <2>1. Answer(q, "upstream") \in RequestRecords
    BY <1>q, AnswerType DEF Replies
  <2>2. [Answer(q, "upstream") EXCEPT !.pc = "relaying"] \in RequestRecords
    BY <2>1 DEF RequestRecords, Locations
  <2> QED
    BY <1>q, <1>rel, <2>2, RelayGood DEF Replies
<1>sil. ASSUME NEW x, req' = [req EXCEPT ![r] = x],
               x.replies = q.replies, Replied(x) <=> Replied(q), Sends(x) = Sends(q),
               q.pc \notin {"idle", "done"}, x.pc \notin {"idle", "done"}
        PROVE  \E y \in RequestRecords : Good(q, y) /\ req' = [req EXCEPT ![r] = y]
  <2>1. x \in RequestRecords
    BY <1>sil, <1>x DEF TypeOK
  <2> QED
    BY <1>sil, <1>q, <2>1, SilentGood
<1> USE DEF Replies
<1>1. CASE Begin(r)
  <2>1. PICK kind \in Kinds, model \in RequestModels :
          req' = [req EXCEPT ![r] = NewRequest(kind, model)]
    BY <1>1 DEF Begin
  <2>2. NewRequest(kind, model) \in RequestRecords
    BY NewRequestType, ForwardAssumption
  <2>3. /\ NewRequest(kind, model).pc = "top"
        /\ NewRequest(kind, model).attempt = 0
        /\ NewRequest(kind, model).replies = <<>>
    BY DEF NewRequest
  <2>4. Len(<<>>) = 0
    OBVIOUS
  <2>5. Good(q, NewRequest(kind, model))
    BY <1>1, <2>3, <2>4
       DEF Begin, Good, Delivered, RequestStep, Phase, Sends, Replied
  <2> QED
    BY <2>1, <2>2, <2>5
<1>2. CASE ContextEnds(r)
  <2> DEFINE x == [q EXCEPT !.ended = TRUE]
  <2>1. req' = [req EXCEPT ![r] = x]
    BY <1>2 DEF ContextEnds, TypeOK
  <2>2. /\ x.replies = q.replies /\ x.pc = q.pc
        /\ (Replied(x) <=> Replied(q)) /\ Sends(x) = Sends(q)
    BY <1>q DEF RequestRecords, Replied, Sends
  <2> HIDE DEF x
  <2> QED
    BY <1>2, <1>sil, <2>1, <2>2 DEF ContextEnds
<1>3. CASE Abort(r)
  BY <1>3, <1>ret DEF Abort, Excusable
<1>4. CASE RelayStops(r) \/ RelayEnds(r)
  <2>1. Excusable(q) /\ q.pc \notin {"idle", "done"}
    BY <1>4 DEF RelayStops, RelayEnds, Replied, Excusable
  <2> QED
    BY <1>4, <1>ret, <2>1 DEF RelayStops, RelayEnds
<1>5. CASE Pick(r)
  <2>1. PICK s \in Slots : req' = [req EXCEPT ![r].pc = "picked", ![r].at = s]
    BY <1>5 DEF Pick
  <2> DEFINE x == [q EXCEPT !.pc = "picked", !.at = s]
  <2>2. req' = [req EXCEPT ![r] = x]
    BY <2>1 DEF TypeOK
  <2>3. x.replies = q.replies /\ x.pc = "picked" /\ x.attempt = q.attempt
    BY <1>q DEF RequestRecords
  <2>4. q.pc \in {"top", "waiting"}
    BY <1>5 DEF Pick, Selecting
  <2>5. (Replied(x) <=> Replied(q)) /\ Sends(x) = Sends(q)
    BY <2>3, <2>4 DEF Replied, Sends
  <2> HIDE DEF x
  <2> QED
    BY <1>sil, <2>2, <2>3, <2>4, <2>5
<1>6. CASE Wait(r)
  <2>1. PICK t : req' = [req EXCEPT ![r].pc = "waiting", ![r].timer = t]
    BY <1>6 DEF Wait
  <2> DEFINE x == [q EXCEPT !.pc = "waiting", !.timer = t]
  <2>2. req' = [req EXCEPT ![r] = x]
    BY <2>1 DEF TypeOK
  <2>3. x.replies = q.replies /\ x.pc = "waiting" /\ x.attempt = q.attempt
    BY <1>q DEF RequestRecords
  <2>4. q.pc \in {"top", "waiting"}
    BY <1>6 DEF Wait, Selecting
  <2>5. (Replied(x) <=> Replied(q)) /\ Sends(x) = Sends(q)
    BY <2>3, <2>4 DEF Replied, Sends
  <2> HIDE DEF x
  <2> QED
    BY <1>sil, <2>2, <2>3, <2>4, <2>5
<1>7. CASE NoUntriedSlot(r)
  <2>1. ~Replied(q) /\ q.pc \notin {"idle", "done"}
    BY <1>7 DEF NoUntriedSlot, Selecting, Replied
  <2> QED
    BY <1>7, <1>ans, <2>1 DEF NoUntriedSlot
<1>8. CASE WaitTimeout(r)
  <2>1. ~Replied(q) /\ q.pc \notin {"idle", "done"}
    BY <1>8 DEF WaitTimeout, Replied
  <2> QED
    BY <1>8, <1>ans, <2>1 DEF WaitTimeout
<1>9. CASE Send(r)
  <2> DEFINE x == [q EXCEPT !.pc = "sent",
                            !.tried = @ \cup {Identity(q.at, slots[q.at])},
                            !.used = @ \cup {q.at}]
  <2>1. req' = [req EXCEPT ![r] = x]
    BY <1>9 DEF Send, TypeOK
  <2>2. x \in RequestRecords
    BY <1>x, <2>1 DEF TypeOK
  <2>3. x.pc = "sent" /\ x.replies = q.replies /\ x.attempt = q.attempt
    BY <1>q DEF RequestRecords
  <2>4. q.pc = "picked" /\ q.attempt \in 0 .. MaxRetries
    BY <1>9, <1>q DEF Send, RequestRecords
  <2>5. Good(q, x)
    <3> HIDE DEF x
    <3> QED
      BY <2>3, <2>4, ForwardAssumption
         DEF Good, Delivered, RequestStep, Phase, Sends, Replied
  <2> QED
    BY <2>1, <2>2, <2>5
<1>10. CASE TransportError(r) \/ TooManyRequests(r) \/ ServerError(r) \/ TooLarge(r)
  <2>1. PICK cause \in Causes : req' = [req EXCEPT ![r].pc = "failed", ![r].cause = cause]
    BY <1>10 DEF TransportError, TooManyRequests, ServerError, TooLarge, Causes
  <2> DEFINE x == [q EXCEPT !.pc = "failed", !.cause = cause]
  <2>2. req' = [req EXCEPT ![r] = x]
    BY <2>1 DEF TypeOK
  <2>3. x.replies = q.replies /\ x.pc = "failed" /\ x.attempt = q.attempt
    BY <1>q DEF RequestRecords
  <2>4. q.pc \in {"sent", "reading"}
    BY <1>10 DEF TransportError, TooManyRequests, ServerError, TooLarge
  <2>5. (Replied(x) <=> Replied(q)) /\ Sends(x) = Sends(q)
    BY <2>3, <2>4 DEF Replied, Sends
  <2> HIDE DEF x
  <2> QED
    BY <1>sil, <2>2, <2>3, <2>4, <2>5
<1>11. CASE Accept(r)
  <2>1. q.pc = "sent"
    BY <1>11 DEF Accept
  <2>2. CASE req' = [req EXCEPT ![r] = [Answer(q, "upstream") EXCEPT !.pc = "relaying"]]
    BY <1>rel, <2>1, <2>2
  <2>3. ASSUME NEW kind, req' = [req EXCEPT ![r] = [q EXCEPT !.pc = "reading", !.kind = kind]]
        PROVE  \E x \in RequestRecords : Good(q, x) /\ req' = [req EXCEPT ![r] = x]
    <3> DEFINE x == [q EXCEPT !.pc = "reading", !.kind = kind]
    <3>0. req' = [req EXCEPT ![r] = x]
      BY <2>3
    <3>1. x.replies = q.replies /\ x.pc = "reading" /\ x.attempt = q.attempt
      BY <1>q DEF RequestRecords
    <3>2. (Replied(x) <=> Replied(q)) /\ Sends(x) = Sends(q)
      BY <2>1, <3>1 DEF Replied, Sends
    <3> HIDE DEF x
    <3> QED
      BY <1>sil, <2>1, <3>0, <3>1, <3>2
  <2>4. CASE req' = [req EXCEPT ![r].pc = "reading"]
    <3>1. [q EXCEPT !.pc = "reading"] = [q EXCEPT !.pc = "reading", !.kind = q.kind]
      BY <1>q DEF RequestRecords
    <3>2. req' = [req EXCEPT ![r] = [q EXCEPT !.pc = "reading"]]
      BY <2>4 DEF TypeOK
    <3> QED
      BY <2>3, <3>1, <3>2
  <2>5. CASE req' = [req EXCEPT ![r].pc = "reading", ![r].kind = "buffered"]
    <3>1. req' = [req EXCEPT ![r] = [q EXCEPT !.pc = "reading", !.kind = "buffered"]]
      BY <2>5 DEF TypeOK
    <3> QED
      BY <2>3, <3>1
  <2> QED
    BY <1>11, <2>2, <2>4, <2>5 DEF Accept
<1>12. CASE Retry(r)
  <2> DEFINE x == [q EXCEPT !.pc = "top", !.attempt = @ + 1, !.cause = "none"]
  <2>1. req' = [req EXCEPT ![r] = x]
    BY <1>12 DEF Retry, TypeOK
  <2>2. x.replies = q.replies /\ x.pc = "top" /\ x.attempt = q.attempt + 1
    BY <1>q DEF RequestRecords
  <2>3. q.pc = "failed"
    BY <1>12 DEF Retry
  <2>4. (Replied(x) <=> Replied(q)) /\ Sends(x) = Sends(q)
    BY <2>2, <2>3 DEF Replied, Sends
  <2> HIDE DEF x
  <2> QED
    BY <1>sil, <2>1, <2>2, <2>3, <2>4
<1>13. CASE GiveUp(r)
  <2>1. q.pc = "failed" /\ ~Replied(q)
    BY <1>13 DEF GiveUp, Replied
  <2>2. CASE q.cause = "status"
    BY <1>13, <1>rel, <2>1, <2>2 DEF GiveUp
  <2>3. CASE q.cause # "status"
    BY <1>13, <1>ans, <2>1, <2>3 DEF GiveUp
  <2> QED
    BY <2>2, <2>3
<1>14. CASE Deliver(r)
  <2>1. ~Replied(q) /\ q.pc = "reading"
    BY <1>14 DEF Deliver, Replied
  <2> QED
    BY <1>14, <1>ans, <2>1 DEF Deliver
<1>15. CASE CommitStream(r)
  BY <1>15, <1>rel DEF CommitStream
<1>16. CASE ClientLost(r)
  <2>1. q.pc = "reading" /\ ~Replied(q) /\ q.replies = <<>>
    BY <1>16 DEF ClientLost, Replied, Delivered
  <2>2. CASE q.kind = "stream"
    <3> DEFINE x == [q EXCEPT !.pc = "failed", !.cause = "body", !.ended = TRUE]
    <3>1. req' = [req EXCEPT ![r] = x]
      BY <1>16, <2>2 DEF ClientLost
    <3>2. x.replies = q.replies /\ x.pc = "failed" /\ x.attempt = q.attempt
      BY <1>q DEF RequestRecords
    <3>3. (Replied(x) <=> Replied(q)) /\ Sends(x) = Sends(q)
      BY <2>1, <3>2 DEF Replied, Sends
    <3> HIDE DEF x
    <3> QED
      BY <1>sil, <2>1, <3>1, <3>2, <3>3
  <2>3. CASE q.kind # "stream"
    <3> DEFINE a == [Answer(q, "upstream") EXCEPT !.ended = TRUE]
    <3>1. a.replies = Answer(q, "upstream").replies
      BY DEF Answer, RequestRecords
    <3>2. Return(a).pc = "done" /\ Return(a).replies = a.replies
      BY DEF Return, NewRequest
    <3>3. req' = [req EXCEPT ![r] = Return(a)]
      BY <1>16, <2>3 DEF ClientLost
    <3>4. Return(a) \in RequestRecords
      BY <1>x, <3>3 DEF TypeOK
    <3>5. Len(Return(a).replies) = 1
      BY <1>q, <2>1, <3>1, <3>2, OneAnswer
    <3>6. Good(q, Return(a))
      BY <1>q, <2>1, <3>2, <3>4, <3>5, AnswerReturnGood
    <3> QED
      BY <3>3, <3>4, <3>6
  <2> QED
    BY <2>2, <2>3
<1>17. ASSUME NEW minimum, NEW cause, BreakBody(r, minimum, cause),
              q.pc \in {"reading", "relaying"},
              cause = "committed" <=> q.pc = "relaying"
       PROVE  \E x \in RequestRecords : Good(q, x) /\ req' = [req EXCEPT ![r] = x]
  <2> DEFINE x == [q EXCEPT !.pc = "switching", !.cause = cause]
  <2>1. req' = [req EXCEPT ![r] = x]
    BY <1>17 DEF BreakBody, TypeOK
  <2>2. /\ x.replies = q.replies /\ x.pc = "switching" /\ x.attempt = q.attempt
        /\ x.cause = cause
    BY <1>q DEF RequestRecords
  <2>3. Replied(x) <=> Replied(q)
    BY <1>17, <2>2 DEF Replied
  <2>4. Sends(x) = Sends(q)
    BY <1>17, <2>2 DEF Sends
  <2> HIDE DEF x
  <2> QED
    BY <1>17, <1>sil, <2>1, <2>2, <2>3, <2>4
<1>18. CASE BodyFails(r) \/ NoFirstOutput(r) \/ RelayFails(r)
  <2>1. CASE BodyFails(r)
    BY <1>17, <2>1 DEF BodyFails
  <2>2. CASE NoFirstOutput(r)
    BY <1>17, <2>2 DEF NoFirstOutput
  <2>3. CASE RelayFails(r)
    BY <1>17, <2>3 DEF RelayFails
  <2> QED
    BY <1>18, <2>1, <2>2, <2>3
<1>19. CASE SwitchExit(r)
  <2>1. q.pc = "switching"
    BY <1>19 DEF SwitchExit
  <2>2. CASE q.cause = "committed"
    BY <1>19, <1>ret, <2>1, <2>2 DEF SwitchExit, Replied, Excusable
  <2>3. CASE q.cause # "committed"
    <3> DEFINE x == [q EXCEPT !.pc = "failed"]
    <3>1. req' = [req EXCEPT ![r] = x]
      BY <1>19, <2>3 DEF SwitchExit
    <3>2. x.replies = q.replies /\ x.pc = "failed" /\ x.attempt = q.attempt
      BY <1>q DEF RequestRecords
    <3>3. Replied(x) <=> Replied(q)
      BY <2>1, <2>3, <3>2 DEF Replied
    <3>4. Sends(x) = Sends(q)
      BY <2>1, <3>2 DEF Sends
    <3> HIDE DEF x
    <3> QED
      BY <1>sil, <2>1, <3>1, <3>2, <3>3, <3>4
  <2> QED
    BY <2>2, <2>3
<1>20. CASE Malformed(r)
  <2>1. Excusable(q) /\ q.pc \notin {"idle", "done"}
    BY <1>20 DEF Malformed, Excusable
  <2> QED
    BY <1>20, <1>ret, <2>1 DEF Malformed
<1> QED
  BY <1>1, <1>2, <1>3, <1>4, <1>5, <1>6, <1>7, <1>8, <1>9, <1>10, <1>11, <1>12,
     <1>13, <1>14, <1>15, <1>16, <1>18, <1>19, <1>20 DEF Serve

LEMMA InitDelivers == Init => DeliveryInv
<1>1. NewRequest("buffered", NoModel).replies = <<>>
  BY DEF NewRequest
<1>2. ASSUME Init, NEW r \in Requests
      PROVE  req[r].pc = "idle" /\ req[r].replies = <<>>
  BY <1>1, <1>2 DEF Init, NewRequest
<1> QED
  BY <1>2 DEF DeliveryInv, Delivered, Replied

\* A tick changes nothing a client sees.
LEMMA TickSilent ==
  ASSUME TypeOK, DeliveryInv, Tick, NEW r \in Requests
  PROVE  /\ Delivered(req'[r])
         /\ Phase(req'[r]) = Phase(req[r])
         /\ Sends(req'[r]) = Sends(req[r])
         /\ req'[r].replies = req[r].replies
<1> DEFINE q == req[r]  x == [q EXCEPT !.timer = Less(q.timer)]
<1>1. req'[r] = x
  BY DEF Tick
<1>2. /\ x.pc = q.pc /\ x.cause = q.cause /\ x.replies = q.replies
      /\ x.ended = q.ended /\ x.attempt = q.attempt /\ x.kind = q.kind
  BY DEF TypeOK, RequestRecords
<1> HIDE DEF x
<1>3. Phase(x) = Phase(q) /\ Sends(x) = Sends(q) /\ (Replied(x) <=> Replied(q))
  BY <1>2 DEF Phase, Sends, Replied
<1>4. Delivered(x)
  BY <1>2, <1>3 DEF DeliveryInv, Delivered
<1> QED
  BY <1>1, <1>2, <1>3, <1>4

LEMMA NextDelivers == TypeOK /\ DeliveryInv /\ [Next]_vars => DeliveryInv'
<1> SUFFICES ASSUME TypeOK, DeliveryInv, [Next]_vars PROVE DeliveryInv'
  OBVIOUS
<1>1. ASSUME UNCHANGED req PROVE DeliveryInv'
  BY <1>1 DEF DeliveryInv
<1>2. ASSUME NEW r \in Requests, Begin(r) \/ ContextEnds(r) \/ Serve(r)
      PROVE  DeliveryInv'
  <2>1. PICK x \in RequestRecords :
          Good(req[r], x) /\ req' = [req EXCEPT ![r] = x]
    BY <1>2, ServeGood DEF DeliveryInv
  <2>2. Delivered(x)
    BY <2>1 DEF Good
  <2> QED
    BY <2>1, <2>2 DEF DeliveryInv, TypeOK
<1>3. CASE Control
  BY <1>1, <1>3 DEF Control, ProbeDirect, ProbeStatics, Deduplicate, Rotate,
                    Probe, SetEnabled, Admin
<1>4. CASE Tick
  BY <1>4, TickSilent DEF DeliveryInv
<1>5. CASE UNCHANGED vars
  BY <1>1, <1>5 DEF vars
<1> QED
  BY <1>2, <1>3, <1>4, <1>5 DEF Next

\* No request is answered twice, in pieces of two attempts, or not at all
\* while its client waits: for any exits, retries and interleaving.
THEOREM Delivery == Spec => []DeliveryInv
<1>1. Init => TypeOK /\ DeliveryInv
  BY InitType, InitDelivers
<1>2. TypeOK /\ DeliveryInv /\ [Next]_vars => TypeOK' /\ DeliveryInv'
  BY NextType, NextDelivers
<1> QED
  BY <1>1, <1>2, PTL DEF Spec

\* A step of one request is a step of RequestService, or a stutter.
LEMMA RequestRefines ==
  ASSUME TypeOK, NEW r \in Requests, NEW x \in RequestRecords,
         RequestStep(req[r], x), req' = [req EXCEPT ![r] = x]
  PROVE  [Service!Next]_(Service!vars)
<1> DEFINE phase == [s \in Requests |-> Phase(req[s])]
           sends == [s \in Requests |-> Sends(req[s])]
           got   == [s \in Requests |-> Len(req[s].replies)]
<1>1. /\ phase' = [phase EXCEPT ![r] = Phase(x)]
      /\ sends' = [sends EXCEPT ![r] = Sends(x)]
      /\ got' = [got EXCEPT ![r] = Len(x.replies)]
  BY DEF TypeOK
<1>2. /\ phase[r] = Phase(req[r])
      /\ sends[r] = Sends(req[r])
      /\ got[r] = Len(req[r].replies)
  OBVIOUS
<1>3. /\ phase = [phase EXCEPT ![r] = Phase(req[r])]
      /\ sends = [sends EXCEPT ![r] = Sends(req[r])]
      /\ got = [got EXCEPT ![r] = Len(req[r].replies)]
  OBVIOUS
<1> HIDE DEF phase, sends, got
<1>4. CASE /\ Phase(x) = Phase(req[r])
           /\ Sends(x) = Sends(req[r])
           /\ Len(x.replies) = Len(req[r].replies)
  <2>1. phase' = phase /\ sends' = sends /\ got' = got
    BY <1>1, <1>3, <1>4
  <2> QED
    BY <2>1 DEF Service!vars, phase, sends, got
<1>5. CASE /\ Phase(req[r]) \in {"idle", "done"} /\ Phase(x) = "trying"
           /\ Sends(x) = 0 /\ Len(x.replies) = 0
  <2>1. /\ phase[r] \in {"idle", "done"}
        /\ phase' = [phase EXCEPT ![r] = "trying"]
        /\ sends' = [sends EXCEPT ![r] = 0]
        /\ got' = [got EXCEPT ![r] = 0]
    BY <1>1, <1>2, <1>5
  <2>2. Service!Start(r)
    BY <2>1 DEF Service!Start, phase, sends, got
  <2> QED
    BY <2>2 DEF Service!Next
<1>6. CASE /\ Phase(req[r]) = "trying" /\ Phase(x) = "trying"
           /\ Sends(req[r]) < MaxRetries + 1 /\ Sends(x) = Sends(req[r]) + 1
           /\ Len(x.replies) = Len(req[r].replies)
  <2>1. /\ phase[r] = "trying"
        /\ sends[r] < MaxRetries + 1
        /\ sends' = [sends EXCEPT ![r] = sends[r] + 1]
        /\ phase' = phase /\ got' = got
    BY <1>1, <1>2, <1>3, <1>6
  <2>2. Service!Attempt(r)
    BY <2>1 DEF Service!Attempt, phase, sends, got
  <2> QED
    BY <2>2 DEF Service!Next
<1>7. CASE /\ Phase(req[r]) = "trying" /\ Phase(x) = "replied"
           /\ Sends(x) = Sends(req[r]) /\ Len(x.replies) = 1
  <2>1. /\ phase[r] = "trying"
        /\ phase' = [phase EXCEPT ![r] = "replied"]
        /\ sends' = sends
        /\ got' = [got EXCEPT ![r] = 1]
    BY <1>1, <1>2, <1>3, <1>7
  <2>2. Service!Reply(r)
    BY <2>1 DEF Service!Reply, phase, sends, got
  <2> QED
    BY <2>2 DEF Service!Next
<1>8. CASE /\ Phase(req[r]) \in {"trying", "replied"} /\ Phase(x) = "done"
           /\ Sends(x) = 0
           /\ \/ Len(x.replies) = Len(req[r].replies)
              \/ Phase(req[r]) = "trying" /\ Len(x.replies) = 1
  <2>1. /\ phase[r] \in {"trying", "replied"}
        /\ phase' = [phase EXCEPT ![r] = "done"]
        /\ sends' = [sends EXCEPT ![r] = 0]
        /\ \/ got' = got
           \/ phase[r] = "trying" /\ got' = [got EXCEPT ![r] = 1]
    BY <1>1, <1>2, <1>3, <1>8
  <2>2. Service!Return(r)
    BY <2>1 DEF Service!Return, phase, sends, got
  <2> QED
    BY <2>2 DEF Service!Next
<1> QED
  BY <1>4, <1>5, <1>6, <1>7, <1>8 DEF RequestStep

LEMMA InitRefines == Init => Service!Init
<1> SUFFICES ASSUME Init PROVE Service!Init
  OBVIOUS
<1>1. NewRequest("buffered", NoModel).replies = <<>> /\ Len(<<>>) = 0
  BY DEF NewRequest
<1>2. ASSUME NEW r \in Requests
      PROVE  Phase(req[r]) = "idle" /\ Sends(req[r]) = 0 /\ Len(req[r].replies) = 0
  BY <1>1 DEF Init, NewRequest, Phase, Sends
<1> QED
  BY <1>2 DEF Service!Init

LEMMA NextRefines ==
  TypeOK /\ DeliveryInv /\ [Next]_vars => [Service!Next]_(Service!vars)
<1> SUFFICES ASSUME TypeOK, DeliveryInv, [Next]_vars
             PROVE  [Service!Next]_(Service!vars)
  OBVIOUS
<1>1. ASSUME UNCHANGED req PROVE [Service!Next]_(Service!vars)
  BY <1>1 DEF Service!vars
<1>2. ASSUME NEW r \in Requests, Begin(r) \/ ContextEnds(r) \/ Serve(r)
      PROVE  [Service!Next]_(Service!vars)
  <2>1. PICK x \in RequestRecords :
          Good(req[r], x) /\ req' = [req EXCEPT ![r] = x]
    BY <1>2, ServeGood DEF DeliveryInv
  <2> QED
    BY <2>1, RequestRefines DEF Good
<1>3. CASE Control
  BY <1>1, <1>3 DEF Control, ProbeDirect, ProbeStatics, Deduplicate, Rotate,
                    Probe, SetEnabled, Admin
<1>4. CASE Tick
  <2>1. ASSUME NEW r \in Requests
        PROVE  /\ Phase(req[r])' = Phase(req[r])
               /\ Sends(req[r])' = Sends(req[r])
               /\ Len(req[r].replies)' = Len(req[r].replies)
    BY <1>4, TickSilent
  <2> QED
    BY <2>1 DEF Service!vars
<1>5. CASE UNCHANGED vars
  BY <1>1, <1>5 DEF vars
<1> QED
  BY <1>2, <1>3, <1>4, <1>5 DEF Next

\* forward implements RequestService: at most MaxRetries + 1 attempts, at most
\* one reply, and no attempt after the reply has begun.
THEOREM Refinement == Spec => ServesRequests
<1>1. Init => TypeOK /\ DeliveryInv
  BY InitType, InitDelivers
<1>2. TypeOK /\ DeliveryInv /\ [Next]_vars => TypeOK' /\ DeliveryInv'
  BY NextType, NextDelivers
<1>3. Init => Service!Init
  BY InitRefines
<1>4. TypeOK /\ DeliveryInv /\ [Next]_vars => [Service!Next]_(Service!vars)
  BY NextRefines
<1> QED
  BY <1>1, <1>2, <1>3, <1>4, PTL DEF Spec, ServesRequests, Service!Spec

-----------------------------------------------------------------------------
(* Exits and the table of cooldowns *)

\* The exits DistinctExits speaks of: every proxy leads to one address, there
\* is no direct slot, which serves before its address is known, and no slot is
\* switched on before it has been probed.
FixedExits ==
    /\ DirectSlots = {}
    /\ "enable" \notin AdminOps
    /\ \A s \in Slots : \E ip \in Egresses : Exit[s] = {ip}

SlotsKnown ==
    \A s \in Slots :
        /\ slots[s].egress \in Exit[s] \cup {NoEgress}
        /\ slots[s].disabled \/ slots[s].egress # NoEgress

Addresses(S) == UNION {Exit[s] : s \in S}

\* The locals of a request agree on the exits it has used.
Counted(q) ==
    /\ q.tried = {<<"egress", ip>> : ip \in Addresses(q.used)}
    /\ IsFiniteSet(Addresses(q.used))
    /\ Cardinality(Addresses(q.used)) = Sends(q)

\* The slot a request has picked is new to it, and stays so until it is used.
Chosen(q) ==
    q.pc = "picked" => /\ slots[q.at].egress # NoEgress
                       /\ Identity(q.at, slots[q.at]) \notin q.tried

ExitInv ==
    /\ TypeOK
    /\ SlotsKnown
    /\ \A r \in Requests : Counted(req[r]) /\ Chosen(req[r])

-----------------------------------------------------------------------------
(* The slots *)

\* The table of model cooldowns is within its bound.
Roomy(sl) ==
    /\ IsFiniteSet(LiveModels(sl))
    /\ Cardinality(LiveModels(sl)) <= MaxModelCooldowns

Kept(sl, t) ==
    /\ t.egress = sl.egress
    /\ t.disabled = sl.disabled
    /\ Roomy(sl) => Roomy(t)

LEMMA FewerRoomy ==
  ASSUME NEW sl, NEW t, LiveModels(t) \subseteq LiveModels(sl), Roomy(sl)
  PROVE  Roomy(t)
<1>1. /\ IsFiniteSet(LiveModels(t))
      /\ Cardinality(LiveModels(t)) <= Cardinality(LiveModels(sl))
  BY FS_Subset DEF Roomy
<1>2. /\ Cardinality(LiveModels(t)) \in Nat /\ Cardinality(LiveModels(sl)) \in Nat
      /\ MaxModelCooldowns \in Nat
  BY <1>1, FS_CardinalityType, PoolAssumption DEF Roomy
<1> QED
  BY <1>1, <1>2 DEF Roomy

LEMMA CoolSlotKeeps ==
  ASSUME NEW sl \in SlotRecords, NEW minimum \in Nat, NEW t \in CoolSlot(sl, minimum)
  PROVE  t \in SlotRecords /\ Kept(sl, t)
<1>1. PICK c \in NextCooldown(sl.fails, minimum) :
        t = [sl EXCEPT !.fails = c.fails, !.until = c.until]
  BY DEF CoolSlot
<1>2. t.egress = sl.egress /\ t.disabled = sl.disabled /\ t.cool = sl.cool
  BY <1>1 DEF SlotRecords
<1>3. LiveModels(t) = LiveModels(sl)
  BY <1>2 DEF LiveModels
<1> QED
  BY <1>2, <1>3, CoolSlotType DEF Kept, Roomy

\* A full table gives up an entry, and only then, for a model that has none.
LEMMA EvictedRoom ==
  ASSUME NEW sl \in SlotRecords, NEW model \in Models, Roomy(sl),
         NEW room \in Evicted(sl, model)
  PROVE  /\ IsFiniteSet(LiveModels(room))
         /\ Cardinality(LiveModels(room)) <= MaxModelCooldowns
         /\ model \notin LiveModels(room)
            => Cardinality(LiveModels(room)) < MaxModelCooldowns
<1> DEFINE had == Cardinality(LiveModels(sl))
           has == Cardinality(LiveModels(room))
<1>1. had \in Nat /\ MaxModelCooldowns \in Nat /\ had <= MaxModelCooldowns
  BY FS_CardinalityType, PoolAssumption DEF Roomy
<1>2. CASE ~Live(sl.cool[model]) /\ had >= MaxModelCooldowns
  <2>1. PICK m \in EndingFirst(sl) : room = [sl EXCEPT !.cool[m] = NoCooldown]
    BY <1>2 DEF Evicted
  <2>2. m \in LiveModels(sl) /\ m \in Models
    BY DEF EndingFirst, LiveModels
  <2>3. LiveModels(room) = LiveModels(sl) \ {m}
    BY <2>1, <2>2 DEF LiveModels, Live, NoCooldown, SlotRecords
  <2>4. IsFiniteSet(LiveModels(room)) /\ has = had - 1
    BY <2>2, <2>3, FS_RemoveElement DEF Roomy
  <2> HIDE DEF had, has
  <2>5. has <= MaxModelCooldowns /\ has < MaxModelCooldowns
    BY <1>1, <2>4
  <2> QED
    BY <2>4, <2>5 DEF has
<1>3. CASE ~(~Live(sl.cool[model]) /\ had >= MaxModelCooldowns)
  <2>1. room = sl
    BY <1>3 DEF Evicted
  <2>2. model \notin LiveModels(sl) => ~(had >= MaxModelCooldowns)
    BY <1>3 DEF LiveModels
  <2> HIDE DEF had
  <2>3. model \notin LiveModels(sl) => had < MaxModelCooldowns
    BY <1>1, <2>2
  <2> QED
    BY <2>1, <2>3 DEF had, Roomy
<1> QED
  BY <1>2, <1>3

LEMMA CoolModelRoomy ==
  ASSUME NEW sl \in SlotRecords, NEW model \in Models, NEW minimum \in Nat,
         NEW t \in CoolModel(sl, model, minimum), Roomy(sl)
  PROVE  Roomy(t)
<1>1. PICK room \in Evicted(sl, model) :
        \E c \in NextCooldown(room.cool[model].fails, minimum) :
            t = [room EXCEPT !.cool[model] = c]
  BY DEF CoolModel
<1>2. room \in SlotRecords
  BY <1>1, EvictedType
<1>3. LiveModels(t) \subseteq LiveModels(room) \cup {model}
  BY <1>1, <1>2 DEF LiveModels, SlotRecords
<1>4. IsFiniteSet(LiveModels(room) \cup {model})
  BY EvictedRoom, FS_AddElement
<1>5. Cardinality(LiveModels(room) \cup {model}) <= MaxModelCooldowns
  <2>1. CASE model \in LiveModels(room)
    <3>1. LiveModels(room) \cup {model} = LiveModels(room)
      BY <2>1
    <3> QED
      BY <3>1, EvictedRoom
  <2>2. CASE model \notin LiveModels(room)
    <3> DEFINE has == Cardinality(LiveModels(room))
               more == Cardinality(LiveModels(room) \cup {model})
    <3>1. more = has + 1 /\ has \in Nat /\ MaxModelCooldowns \in Nat
      BY <2>2, EvictedRoom, FS_AddElement, FS_CardinalityType, PoolAssumption
    <3>2. has < MaxModelCooldowns
      BY <2>2, EvictedRoom
    <3> HIDE DEF has, more
    <3>3. more <= MaxModelCooldowns
      BY <3>1, <3>2
    <3> QED
      BY <3>3 DEF more
  <2> QED
    BY <2>1, <2>2
<1> DEFINE all == LiveModels(room) \cup {model}
<1>6. IsFiniteSet(LiveModels(t)) /\ Cardinality(LiveModels(t)) <= Cardinality(all)
  BY <1>3, <1>4, FS_Subset
<1>7. /\ Cardinality(LiveModels(t)) \in Nat /\ Cardinality(all) \in Nat
      /\ MaxModelCooldowns \in Nat
  BY <1>4, <1>6, FS_CardinalityType, PoolAssumption
<1>8. Cardinality(all) <= MaxModelCooldowns
  BY <1>5
<1> HIDE DEF all
<1> QED
  BY <1>6, <1>7, <1>8 DEF Roomy

LEMMA CoolModelKeeps ==
  ASSUME NEW sl \in SlotRecords, NEW model \in Models, NEW minimum \in Nat,
         NEW t \in CoolModel(sl, model, minimum)
  PROVE  t \in SlotRecords /\ Kept(sl, t)
<1>1. PICK room \in Evicted(sl, model) :
        \E c \in NextCooldown(room.cool[model].fails, minimum) :
            t = [room EXCEPT !.cool[model] = c]
  BY DEF CoolModel
<1>2. room.egress = sl.egress /\ room.disabled = sl.disabled /\ room \in SlotRecords
  BY <1>1, EvictedType DEF Evicted, SlotRecords
<1>3. t.egress = sl.egress /\ t.disabled = sl.disabled
  BY <1>1, <1>2 DEF SlotRecords
<1> QED
  BY <1>3, CoolModelType, CoolModelRoomy DEF Kept

LEMMA SucceedKeeps ==
  ASSUME NEW sl \in SlotRecords, NEW model \in Models
  PROVE  Kept(sl, Succeed(sl, model))
<1>1. /\ Succeed(sl, model).egress = sl.egress
      /\ Succeed(sl, model).disabled = sl.disabled
  BY DEF Succeed, SlotRecords
<1>2. LiveModels(Succeed(sl, model)) \subseteq LiveModels(sl)
  BY DEF Succeed, SlotRecords, LiveModels, Live, NoCooldown
<1> QED
  BY <1>1, <1>2, FewerRoomy DEF Kept

LEMMA ElapseKeeps ==
  ASSUME NEW sl \in SlotRecords
  PROVE  Kept(sl, Elapse(sl))
<1> DEFINE cooler(m) == IF sl.cool[m].until > 1
                        THEN [fails |-> sl.cool[m].fails,
                              until |-> sl.cool[m].until - 1]
                        ELSE NoCooldown
<1>1. /\ Elapse(sl).egress = sl.egress
      /\ Elapse(sl).disabled = sl.disabled
      /\ Elapse(sl).cool = [m \in Models |-> cooler(m)]
  BY DEF Elapse, SlotRecords
<1>2. ASSUME NEW m \in Models, Live(cooler(m)) PROVE Live(sl.cool[m])
  BY <1>2 DEF Live, NoCooldown, SlotRecords, Cooldowns
<1> HIDE DEF cooler
<1>3. LiveModels(Elapse(sl)) \subseteq LiveModels(sl)
  BY <1>1, <1>2 DEF LiveModels
<1> QED
  BY <1>1, <1>3, FewerRoomy DEF Kept

\* No step of a request touches the address or the service of a slot, or makes
\* its table outgrow the bound.
LEMMA ServeKeeps ==
  ASSUME TypeOK, NEW r \in Requests, Begin(r) \/ ContextEnds(r) \/ Serve(r),
         NEW s \in Slots
  PROVE  Kept(slots[s], slots'[s])
<1> DEFINE q == req[r]
<1>q. q \in RequestRecords /\ q.at \in Slots /\ q.model \in Models
  BY DEF TypeOK, RequestRecords
<1>s. slots \in [Slots -> SlotRecords] /\ slots[q.at] \in SlotRecords
  BY <1>q DEF TypeOK
<1>same. ASSUME slots' = slots PROVE Kept(slots[s], slots'[s])
  BY <1>same DEF Kept
<1>cool. ASSUME NEW t, Kept(slots[q.at], t), slots' = [slots EXCEPT ![q.at] = t]
         PROVE  Kept(slots[s], slots'[s])
  BY <1>cool, <1>s DEF Kept
<1>break. ASSUME NEW minimum \in Nat, NEW cause, BreakBody(r, minimum, cause)
          PROVE  Kept(slots[s], slots'[s])
  <2>1. PICK whole \in CoolSlot(slots[q.at], minimum) :
          Cool(r, IF q.model = NoModel THEN {whole}
                  ELSE CoolModel(whole, q.model, minimum))
    BY <1>break DEF BreakBody
  <2>2. whole \in SlotRecords /\ Kept(slots[q.at], whole)
    BY <1>s, CoolSlotKeeps
  <2>3. PICK t \in IF q.model = NoModel THEN {whole}
                   ELSE CoolModel(whole, q.model, minimum) :
          slots' = [slots EXCEPT ![q.at] = t]
    BY <2>1 DEF Cool
  <2>4. Kept(whole, t)
    BY <1>q, <2>2, <2>3, CoolModelKeeps DEF Kept
  <2>5. Kept(slots[q.at], t)
    BY <2>2, <2>4 DEF Kept
  <2> QED
    BY <1>cool, <2>3, <2>5
<1>forgive. ASSUME Forgive(r) PROVE Kept(slots[s], slots'[s])
  <2>1. slots' = [slots EXCEPT ![q.at] = Succeed(slots[q.at], q.model)]
    BY <1>forgive DEF Forgive
  <2>2. Kept(slots[q.at], Succeed(slots[q.at], q.model))
    BY <1>q, <1>s, SucceedKeeps
  <2> QED
    BY <1>cool, <2>1, <2>2
<1> HIDE DEF q
<1>1. CASE UNCHANGED slots
  BY <1>1, <1>same
<1>2. CASE TransportError(r)
  <2>1. PICK t \in CoolSlot(slots[q.at], 0) : slots' = [slots EXCEPT ![q.at] = t]
    BY <1>2 DEF TransportError, Cool, q
  <2> QED
    BY <1>cool, <1>s, <2>1, CoolSlotKeeps
<1>3. CASE TooManyRequests(r)
  <2>1. PICK after \in RetryAfters :
          \E t \in CoolModel(slots[q.at], q.model, after) :
              slots' = [slots EXCEPT ![q.at] = t]
    BY <1>3 DEF TooManyRequests, Cool, q
  <2>2. after \in Nat
    BY ForwardAssumption
  <2> QED
    BY <1>cool, <1>q, <1>s, <2>1, <2>2, CoolModelKeeps
<1>4. CASE ServerError(r)
  <2>1. PICK after \in RetryAfters :
          \E t \in CoolSlot(slots[q.at], after) : slots' = [slots EXCEPT ![q.at] = t]
    BY <1>4 DEF ServerError, Cool, q
  <2>2. after \in Nat
    BY ForwardAssumption
  <2> QED
    BY <1>cool, <1>s, <2>1, <2>2, CoolSlotKeeps
<1>5. CASE Deliver(r)
  BY <1>5, <1>forgive DEF Deliver
<1>6. CASE RelayEnds(r)
  BY <1>6, <1>forgive, <1>same DEF RelayEnds
<1>7. CASE BodyFails(r)
  BY <1>7, <1>break DEF BodyFails
<1>8. CASE NoFirstOutput(r)
  BY <1>8, <1>break, ForwardAssumption DEF NoFirstOutput
<1>9. CASE RelayFails(r)
  BY <1>9, <1>break DEF RelayFails
<1> QED
  BY <1>1, <1>2, <1>3, <1>4, <1>5, <1>6, <1>7, <1>8, <1>9
     DEF Serve, Begin, ContextEnds, Abort, Pick, Wait, NoUntriedSlot, WaitTimeout,
         Send, Malformed, Accept, Retry, GiveUp, CommitStream, ClientLost, TooLarge,
         RelayStops, SwitchExit, pool

\* A slot stays known, and an address that is known stays.
StillKnown(s) ==
    /\ slots'[s].egress \in Exit[s] \cup {NoEgress}
    /\ slots'[s].disabled \/ slots'[s].egress # NoEgress
    /\ slots[s].egress # NoEgress => slots'[s].egress = slots[s].egress

LEMMA RefreshKeeps ==
  ASSUME FixedExits, TypeOK, SlotsKnown, NEW at \in Slots, Refresh(at), NEW s \in Slots
  PROVE  StillKnown(s)
<1>1. slots \in [Slots -> SlotRecords] /\ slots[at] \in SlotRecords
  BY DEF TypeOK
<1>2. PICK ip \in Egresses : Exit[at] = {ip}
  BY DEF FixedExits
<1>3. ip # NoEgress
  BY PoolAssumption
<1>4. CASE slots' = [slots EXCEPT ![at] = ProbeFailed(slots[at])]
  <2>1. /\ ProbeFailed(slots[at]).egress = slots[at].egress
        /\ ProbeFailed(slots[at]).disabled
    BY <1>1 DEF ProbeFailed, SlotRecords
  <2> QED
    BY <1>1, <1>4, <2>1 DEF StillKnown, SlotsKnown
<1>5. CASE slots' = [slots EXCEPT ![at] = ProbeSucceeded(slots[at], ip)]
  <2>1. ProbeSucceeded(slots[at], ip).egress = ip
    BY DEF ProbeSucceeded
  <2> QED
    BY <1>1, <1>2, <1>3, <1>5, <2>1 DEF StillKnown, SlotsKnown
<1> QED
  BY <1>2, <1>4, <1>5 DEF Refresh

LEMMA NextKeeps ==
  ASSUME FixedExits, TypeOK, SlotsKnown, [Next]_vars, NEW s \in Slots
  PROVE  StillKnown(s)
<1>s. slots \in [Slots -> SlotRecords] /\ slots[s] \in SlotRecords
  BY DEF TypeOK
<1>kept. ASSUME Kept(slots[s], slots'[s]) PROVE StillKnown(s)
  BY <1>kept DEF Kept, StillKnown, SlotsKnown
<1>1. CASE \E r \in Requests : Begin(r) \/ ContextEnds(r) \/ Serve(r)
  BY <1>1, <1>kept, ServeKeeps
<1>2. CASE ProbeDirect
  BY <1>2, RefreshKeeps DEF ProbeDirect, FixedExits
<1>3. CASE ProbeStatics
  <2>1. probed'[s] \in Exit[s] \cup {NoEgress}
    BY <1>3 DEF ProbeStatics
  <2>2. slots'[s] = IF probed'[s] = NoEgress THEN ProbeFailed(slots[s])
                    ELSE [slots[s] EXCEPT !.egress = probed'[s], !.disabled = FALSE]
    BY <1>3 DEF ProbeStatics
  <2>3. PICK ip \in Egresses : Exit[s] = {ip}
    BY DEF FixedExits
  <2>4. CASE probed'[s] = NoEgress
    BY <1>s, <2>2, <2>4 DEF ProbeFailed, SlotRecords, StillKnown, SlotsKnown
  <2>5. CASE probed'[s] # NoEgress
    <3>1. slots'[s].egress = ip /\ ip # NoEgress
      BY <1>s, <2>1, <2>2, <2>3, <2>5 DEF SlotRecords
    <3> QED
      BY <2>3, <3>1 DEF StillKnown, SlotsKnown
  <2> QED
    BY <2>4, <2>5
<1>4. CASE Deduplicate
  <2>1. slots'[s] = [slots[s] EXCEPT !.disabled = slots[s].disabled \/ Duplicate(s)]
    BY <1>4 DEF Deduplicate
  <2>2. slots'[s].egress = slots[s].egress /\ (slots[s].disabled => slots'[s].disabled)
    BY <1>s, <2>1 DEF SlotRecords
  <2> QED
    BY <2>2 DEF StillKnown, SlotsKnown
<1>5. CASE Rotate
  BY <1>5, <1>kept DEF Rotate, Kept
<1>6. CASE \E t \in Slots : Probe(t) \/ SetEnabled(t)
  BY <1>6, RefreshKeeps DEF Probe, SetEnabled, Admin, FixedExits
<1>7. CASE Tick
  <2>1. slots'[s] = Elapse(slots[s])
    BY <1>7 DEF Tick
  <2> QED
    BY <1>s, <1>kept, <2>1, ElapseKeeps
<1>8. CASE UNCHANGED vars
  BY <1>8, <1>kept DEF vars, Kept
<1> QED
  BY <1>1, <1>2, <1>3, <1>4, <1>5, <1>6, <1>7, <1>8 DEF Next, Control

-----------------------------------------------------------------------------
(* The requests *)

LEMMA NoneUsed ==
  ASSUME NEW q, q.tried = {}, q.used = {}, Sends(q) = 0, q.pc # "picked"
  PROVE  Counted(q) /\ Chosen(q)
<1>1. Addresses(q.used) = {}
  BY DEF Addresses
<1> QED
  BY <1>1, FS_EmptySet DEF Counted, Chosen

LEMMA NothingUsed ==
  ASSUME NEW q, NEW x, Counted(q), x.tried = q.tried, x.used = q.used,
         Sends(x) = Sends(q), x.pc # "picked"
  PROVE  Counted(x) /\ Chosen(x)
BY DEF Counted, Chosen

\* A request sent through the slot it has chosen has used one address more.
LEMMA OneMore ==
  ASSUME FixedExits, SlotsKnown, NEW q \in RequestRecords, NEW x \in RequestRecords,
         Counted(q), Chosen(q), q.pc = "picked", x.pc = "sent",
         x.attempt = q.attempt, x.used = q.used \cup {q.at},
         x.tried = q.tried \cup {Identity(q.at, slots[q.at])}
  PROVE  Counted(x) /\ Chosen(x)
<1>1. q.at \in Slots /\ q.attempt \in Nat
  BY ForwardAssumption DEF RequestRecords
<1>2. PICK ip \in Egresses : Exit[q.at] = {ip}
  BY <1>1 DEF FixedExits
<1>3. slots[q.at].egress = ip /\ Identity(q.at, slots[q.at]) = <<"egress", ip>>
  BY <1>1, <1>2 DEF SlotsKnown, Chosen, Identity
<1>4. Addresses(x.used) = Addresses(q.used) \cup {ip}
  BY <1>2 DEF Addresses
<1>5. ip \notin Addresses(q.used)
  BY <1>3 DEF Chosen, Counted
<1>6. /\ IsFiniteSet(Addresses(x.used))
      /\ Cardinality(Addresses(x.used)) = Cardinality(Addresses(q.used)) + 1
  BY <1>4, <1>5, FS_AddElement DEF Counted
<1>7. Sends(q) = q.attempt /\ Sends(x) = q.attempt + 1
  BY DEF Sends
<1>8. x.tried = {<<"egress", a>> : a \in Addresses(x.used)}
  BY <1>3, <1>4 DEF Counted
<1> QED
  BY <1>6, <1>7, <1>8 DEF Counted, Chosen

\* forward forgets everything when it returns.
LEMMA ReturnApart ==
  ASSUME NEW q
  PROVE  /\ Counted(Return(q)) /\ Chosen(Return(q))
         /\ \A kind, model : /\ Counted(NewRequest(kind, model))
                             /\ Chosen(NewRequest(kind, model))
<1>1. /\ Return(q).tried = {} /\ Return(q).used = {} /\ Return(q).pc = "done"
  BY DEF Return, NewRequest
<1>2. Counted(Return(q)) /\ Chosen(Return(q))
  BY <1>1, NoneUsed DEF Sends
<1>3. ASSUME NEW kind, NEW model
      PROVE  Counted(NewRequest(kind, model)) /\ Chosen(NewRequest(kind, model))
  <2>1. /\ NewRequest(kind, model).tried = {} /\ NewRequest(kind, model).used = {}
        /\ NewRequest(kind, model).pc = "top" /\ NewRequest(kind, model).attempt = 0
    BY DEF NewRequest
  <2> QED
    BY <2>1, NoneUsed DEF Sends
<1> QED
  BY <1>2, <1>3

\* A step of a request keeps its count and its choice.  The slots it may have
\* cooled are still known, so what it has chosen is what it chose.
LEMMA ServeApart ==
  ASSUME FixedExits, TypeOK, SlotsKnown, NEW r \in Requests,
         Counted(req[r]), Chosen(req[r]), Begin(r) \/ ContextEnds(r) \/ Serve(r)
  PROVE  \E x : req' = [req EXCEPT ![r] = x] /\ Counted(x) /\ Chosen(x)
<1> DEFINE q == req[r]
           Goal == \E x : req' = [req EXCEPT ![r] = x] /\ Counted(x) /\ Chosen(x)
<1>q. q \in RequestRecords /\ q.at \in Slots /\ q.attempt \in Nat
  BY ForwardAssumption DEF TypeOK, RequestRecords
<1>ret. ASSUME NEW y, req' = [req EXCEPT ![r] = Return(y)] PROVE Goal
  BY <1>ret, ReturnApart
<1>same. ASSUME NEW x, req' = [req EXCEPT ![r] = x], x.tried = q.tried,
                x.used = q.used, Sends(x) = Sends(q), x.pc # "picked"
         PROVE  Goal
  BY <1>same, NothingUsed
<1>relay. ASSUME req' = [req EXCEPT ![r] = [Answer(q, "upstream") EXCEPT !.pc = "relaying"]],
                 q.pc \in {"sent", "reading", "failed"}
          PROVE  Goal
  <2> DEFINE x == [Answer(q, "upstream") EXCEPT !.pc = "relaying"]
  <2>1. x.tried = q.tried /\ x.used = q.used /\ x.pc = "relaying" /\ x.attempt = q.attempt
    BY <1>q DEF Answer, RequestRecords
  <2>2. Sends(x) = Sends(q)
    BY <1>relay, <2>1 DEF Sends
  <2> HIDE DEF x
  <2>3. req' = [req EXCEPT ![r] = x]
    BY <1>relay DEF x
  <2> QED
    BY <1>same, <2>1, <2>2, <2>3
<1>break. ASSUME NEW minimum, NEW cause, BreakBody(r, minimum, cause),
                 q.pc \in {"reading", "relaying"}
          PROVE  Goal
  <2> DEFINE x == [q EXCEPT !.pc = "switching", !.cause = cause]
  <2>1. x.tried = q.tried /\ x.used = q.used /\ x.pc = "switching" /\ x.attempt = q.attempt
    BY <1>q DEF RequestRecords
  <2>2. Sends(x) = Sends(q)
    BY <1>break, <2>1 DEF Sends
  <2>3. req' = [req EXCEPT ![r] = x]
    BY <1>break DEF BreakBody
  <2> HIDE DEF x
  <2> QED
    BY <1>same, <2>1, <2>2, <2>3
<1>fail. ASSUME NEW cause, q.pc = "sent",
                req' = [req EXCEPT ![r].pc = "failed", ![r].cause = cause]
         PROVE  Goal
  <2> DEFINE x == [q EXCEPT !.pc = "failed", !.cause = cause]
  <2>1. x.tried = q.tried /\ x.used = q.used /\ x.pc = "failed" /\ x.attempt = q.attempt
    BY <1>q DEF RequestRecords
  <2>2. Sends(x) = Sends(q)
    BY <1>fail, <2>1 DEF Sends
  <2>3. req' = [req EXCEPT ![r] = x]
    BY <1>fail
  <2> HIDE DEF x
  <2> QED
    BY <1>same, <2>1, <2>2, <2>3
<1>1. CASE Begin(r)
  BY <1>1, ReturnApart DEF Begin
<1>2. CASE ContextEnds(r)
  <2> DEFINE x == [q EXCEPT !.ended = TRUE]
  <2>1. /\ x.tried = q.tried /\ x.used = q.used /\ x.pc = q.pc
        /\ x.attempt = q.attempt /\ x.at = q.at
    BY <1>q DEF RequestRecords
  <2>2. Sends(x) = Sends(q)
    BY <2>1 DEF Sends
  <2>3. req' = [req EXCEPT ![r] = x]
    BY <1>2 DEF ContextEnds
  <2> HIDE DEF x
  <2>4. Counted(x) /\ Chosen(x)
    BY <2>1, <2>2 DEF Counted, Chosen
  <2> QED
    BY <2>3, <2>4
<1>3. CASE Abort(r)
  BY <1>3, <1>ret DEF Abort
<1>4. CASE Pick(r)
  <2>1. PICK s \in Slots :
          /\ FirstOf(Ready(Untried(q), q.model), s)
          /\ req' = [req EXCEPT ![r].pc = "picked", ![r].at = s]
    BY <1>4 DEF Pick
  <2> DEFINE x == [q EXCEPT !.pc = "picked", !.at = s]
  <2>2. /\ x.tried = q.tried /\ x.used = q.used /\ x.pc = "picked"
        /\ x.attempt = q.attempt /\ x.at = s
    BY <1>q DEF RequestRecords
  <2>3. Sends(x) = Sends(q)
    BY <1>4, <2>2 DEF Sends, Pick, Selecting
  <2>4. req' = [req EXCEPT ![r] = x]
    BY <2>1
  <2> HIDE DEF x
  <2>5. ~slots[s].disabled /\ Identity(s, slots[s]) \notin q.tried
    BY <2>1 DEF FirstOf, Ready, Untried
  <2>6. Counted(x) /\ Chosen(x)
    BY <2>2, <2>3, <2>5 DEF Counted, Chosen, SlotsKnown
  <2> QED
    BY <2>4, <2>6
<1>5. CASE Wait(r)
  <2>1. PICK left : req' = [req EXCEPT ![r].pc = "waiting", ![r].timer = left]
    BY <1>5 DEF Wait
  <2> DEFINE x == [q EXCEPT !.pc = "waiting", !.timer = left]
  <2>2. x.tried = q.tried /\ x.used = q.used /\ x.pc = "waiting" /\ x.attempt = q.attempt
    BY <1>q DEF RequestRecords
  <2>3. Sends(x) = Sends(q)
    BY <1>5, <2>2 DEF Sends, Wait, Selecting
  <2>4. req' = [req EXCEPT ![r] = x]
    BY <2>1
  <2> HIDE DEF x
  <2> QED
    BY <1>same, <2>2, <2>3, <2>4
<1>6. CASE NoUntriedSlot(r)
  BY <1>6, <1>ret DEF NoUntriedSlot
<1>7. CASE WaitTimeout(r)
  BY <1>7, <1>ret DEF WaitTimeout
<1>8. CASE Send(r)
  <2> DEFINE x == [q EXCEPT !.pc = "sent",
                            !.tried = q.tried \cup {Identity(q.at, slots[q.at])},
                            !.used = q.used \cup {q.at}]
  <2>1. q.pc = "picked" /\ req' = [req EXCEPT ![r] = x]
    BY <1>8 DEF Send
  <2>2. /\ x.tried = q.tried \cup {Identity(q.at, slots[q.at])}
        /\ x.used = q.used \cup {q.at}
        /\ x.pc = "sent" /\ x.attempt = q.attempt
    BY <1>q DEF RequestRecords
  <2> HIDE DEF x
  <2>3. req' \in [Requests -> RequestRecords]
    BY ServeType DEF TypeOK
  <2>4. x \in RequestRecords
    BY <2>1, <2>3 DEF TypeOK
  <2>5. Counted(x) /\ Chosen(x)
    BY <1>q, <2>1, <2>2, <2>4, OneMore
  <2> QED
    BY <2>1, <2>5
<1>9. CASE TransportError(r)
  BY <1>9, <1>fail DEF TransportError
<1>10. CASE TooManyRequests(r)
  BY <1>10, <1>fail DEF TooManyRequests
<1>11. CASE ServerError(r)
  BY <1>11, <1>fail DEF ServerError
<1>12. CASE Accept(r)
  <2>0. q.pc = "sent"
    BY <1>12 DEF Accept
  <2>1. CASE req' = [req EXCEPT ![r].pc = "reading"]
    <3> DEFINE x == [q EXCEPT !.pc = "reading"]
    <3>1. x.tried = q.tried /\ x.used = q.used /\ x.pc = "reading" /\ x.attempt = q.attempt
      BY <1>q DEF RequestRecords
    <3>2. Sends(x) = Sends(q)
      BY <2>0, <3>1 DEF Sends
    <3>3. req' = [req EXCEPT ![r] = x]
      BY <2>1
    <3> HIDE DEF x
    <3> QED
      BY <1>same, <3>1, <3>2, <3>3
  <2>2. CASE req' = [req EXCEPT ![r].pc = "reading", ![r].kind = "buffered"]
    <3> DEFINE x == [q EXCEPT !.pc = "reading", !.kind = "buffered"]
    <3>1. x.tried = q.tried /\ x.used = q.used /\ x.pc = "reading" /\ x.attempt = q.attempt
      BY <1>q DEF RequestRecords
    <3>2. Sends(x) = Sends(q)
      BY <2>0, <3>1 DEF Sends
    <3>3. req' = [req EXCEPT ![r] = x]
      BY <2>2
    <3> HIDE DEF x
    <3> QED
      BY <1>same, <3>1, <3>2, <3>3
  <2> QED
    BY <1>12, <1>relay, <2>0, <2>1, <2>2 DEF Accept
<1>13. CASE Retry(r)
  <2> DEFINE x == [q EXCEPT !.pc = "top", !.attempt = q.attempt + 1, !.cause = "none"]
  <2>1. x.tried = q.tried /\ x.used = q.used /\ x.pc = "top" /\ x.attempt = q.attempt + 1
    BY <1>q DEF RequestRecords
  <2>2. q.pc = "failed" /\ req' = [req EXCEPT ![r] = x]
    BY <1>13 DEF Retry
  <2>3. Sends(x) = Sends(q)
    BY <2>1, <2>2 DEF Sends
  <2> HIDE DEF x
  <2> QED
    BY <1>same, <2>1, <2>2, <2>3
<1>14. CASE GiveUp(r)
  BY <1>14, <1>ret, <1>relay DEF GiveUp
<1>15. CASE Deliver(r)
  BY <1>15, <1>ret DEF Deliver
<1>16. CASE CommitStream(r)
  BY <1>16, <1>relay DEF CommitStream
<1>17. CASE ClientLost(r)
  <2> DEFINE x == [q EXCEPT !.pc = "failed", !.cause = "body", !.ended = TRUE]
  <2>1. x.tried = q.tried /\ x.used = q.used /\ x.pc = "failed" /\ x.attempt = q.attempt
    BY <1>q DEF RequestRecords
  <2>2. q.pc = "reading"
    BY <1>17 DEF ClientLost
  <2>3. Sends(x) = Sends(q)
    BY <2>1, <2>2 DEF Sends
  <2>4. req' = [req EXCEPT ![r] = x]
        \/ \E y : req' = [req EXCEPT ![r] = Return(y)]
    BY <1>17 DEF ClientLost
  <2> HIDE DEF x
  <2> QED
    BY <1>same, <1>ret, <2>1, <2>3, <2>4
<1>18. CASE BodyFails(r)
  BY <1>18, <1>break DEF BodyFails
<1>19. CASE NoFirstOutput(r)
  BY <1>19, <1>break DEF NoFirstOutput
<1>20. CASE TooLarge(r)
  <2> DEFINE x == [q EXCEPT !.pc = "failed", !.cause = "final"]
  <2>1. x.tried = q.tried /\ x.used = q.used /\ x.pc = "failed" /\ x.attempt = q.attempt
    BY <1>q DEF RequestRecords
  <2>2. q.pc = "reading" /\ req' = [req EXCEPT ![r] = x]
    BY <1>20 DEF TooLarge
  <2>3. Sends(x) = Sends(q)
    BY <2>1, <2>2 DEF Sends
  <2> HIDE DEF x
  <2> QED
    BY <1>same, <2>1, <2>2, <2>3
<1>21. CASE RelayEnds(r)
  BY <1>21, <1>ret DEF RelayEnds
<1>22. CASE RelayFails(r)
  BY <1>22, <1>break DEF RelayFails
<1>23. CASE RelayStops(r)
  BY <1>23, <1>ret DEF RelayStops
<1>24. CASE SwitchExit(r)
  <2> DEFINE x == [q EXCEPT !.pc = "failed"]
  <2>1. x.tried = q.tried /\ x.used = q.used /\ x.pc = "failed" /\ x.attempt = q.attempt
    BY <1>q DEF RequestRecords
  <2>2. q.pc = "switching"
    BY <1>24 DEF SwitchExit
  <2>3. Sends(x) = Sends(q)
    BY <2>1, <2>2 DEF Sends
  <2>4. req' = [req EXCEPT ![r] = x] \/ req' = [req EXCEPT ![r] = Return(q)]
    BY <1>24 DEF SwitchExit
  <2> HIDE DEF x
  <2> QED
    BY <1>same, <1>ret, <2>1, <2>3, <2>4
<1>25. CASE Malformed(r)
  BY <1>25, <1>ret DEF Malformed
<1> QED
  BY <1>1, <1>2, <1>3, <1>4, <1>5, <1>6, <1>7, <1>8, <1>9, <1>10, <1>11, <1>12,
     <1>13, <1>14, <1>15, <1>16, <1>17, <1>18, <1>19, <1>20, <1>21, <1>22, <1>23,
     <1>24, <1>25 DEF Serve

-----------------------------------------------------------------------------
LEMMA InitApart == FixedExits /\ Init => ExitInv
<1> SUFFICES ASSUME FixedExits, Init PROVE ExitInv
  OBVIOUS
<1>1. SlotsKnown
  <2> SUFFICES ASSUME NEW s \in Slots
               PROVE  slots[s].egress = NoEgress /\ slots[s].disabled
    BY DEF SlotsKnown
  <2> QED
    BY DEF Init, FreshSlot, Statics, FixedExits
<1>2. ASSUME NEW r \in Requests PROVE Counted(req[r]) /\ Chosen(req[r])
  <2>1. /\ req[r].tried = {} /\ req[r].used = {} /\ req[r].pc = "idle"
    BY DEF Init, NewRequest
  <2> QED
    BY <2>1, NoneUsed DEF Sends
<1> QED
  BY <1>1, <1>2, InitType DEF ExitInv

\* What a request has chosen is still new to it after any step that leaves its
\* locals alone or is its own.
LEMMA ChoiceStays ==
  ASSUME NEW x, x \in RequestRecords, Chosen(x), \A s \in Slots : StillKnown(s)
  PROVE  x.pc = "picked" => /\ slots'[x.at].egress # NoEgress
                            /\ Identity(x.at, slots'[x.at]) \notin x.tried
<1>1. x.at \in Slots
  BY DEF RequestRecords
<1> QED
  BY <1>1 DEF Chosen, StillKnown, Identity

LEMMA NextApart ==
  ASSUME FixedExits, ExitInv, [Next]_vars
  PROVE  ExitInv'
<1>1. TypeOK'
  BY NextType DEF ExitInv
<1>k. \A s \in Slots : StillKnown(s)
  BY NextKeeps DEF ExitInv
<1>2. SlotsKnown'
  BY <1>k DEF SlotsKnown, StillKnown
<1>3. ASSUME NEW r \in Requests
      PROVE  Counted(req[r])' /\ Chosen(req[r])'
  <2>1. req[r] \in RequestRecords /\ req'[r] \in RequestRecords
    BY <1>1 DEF ExitInv, TypeOK
  <2>2. Counted(req[r]) /\ Chosen(req[r])
    BY DEF ExitInv
  <2>3. Counted(req'[r]) /\ Chosen(req'[r])
    <3>1. CASE req'[r] = req[r]
      BY <2>2, <3>1
    <3>2. ASSUME NEW t \in Requests, Begin(t) \/ ContextEnds(t) \/ Serve(t)
          PROVE  Counted(req'[r]) /\ Chosen(req'[r])
      <4>1. Counted(req[t]) /\ Chosen(req[t])
        BY DEF ExitInv
      <4>2. PICK x : req' = [req EXCEPT ![t] = x] /\ Counted(x) /\ Chosen(x)
        BY <3>2, <4>1, ServeApart DEF ExitInv
      <4>3. req'[r] = req[r] \/ req'[r] = x
        BY <4>2 DEF ExitInv, TypeOK
      <4> QED
        BY <3>1, <4>2, <4>3
    <3>3. CASE Control
      BY <3>1, <3>3 DEF Control, ProbeDirect, ProbeStatics, Deduplicate, Rotate,
                        Probe, SetEnabled, Admin
    <3>4. CASE Tick
      <4> DEFINE x == [req[r] EXCEPT !.timer = Less(req[r].timer)]
      <4>1. req'[r] = x
        BY <3>4 DEF Tick
      <4>2. /\ x.tried = req[r].tried /\ x.used = req[r].used /\ x.pc = req[r].pc
            /\ x.attempt = req[r].attempt /\ x.at = req[r].at
        BY <2>1 DEF RequestRecords
      <4>3. Sends(x) = Sends(req[r])
        BY <4>2 DEF Sends
      <4> HIDE DEF x
      <4> QED
        BY <2>2, <4>1, <4>2, <4>3 DEF Counted, Chosen
    <3>5. CASE UNCHANGED vars
      BY <3>1, <3>5 DEF vars
    <3> QED
      BY <3>2, <3>3, <3>4, <3>5 DEF Next
  <2>4. Chosen(req[r])'
    BY <1>k, <2>1, <2>3, ChoiceStays DEF Chosen
  <2>5. Counted(req[r])'
    BY <2>3 DEF Counted
  <2> QED
    BY <2>4, <2>5
<1> QED
  BY <1>1, <1>2, <1>3 DEF ExitInv

LEMMA ApartDistinct == ExitInv => DistinctExits
<1> SUFFICES ASSUME ExitInv, NEW r \in Requests,
                    req[r].pc \in {"sent", "reading", "switching", "failed"}
             PROVE  Cardinality(UNION {Exit[s] : s \in req[r].used}) = req[r].attempt + 1
  BY DEF DistinctExits
<1> QED
  BY DEF ExitInv, Counted, Addresses, Sends

\* Exits whose address is fixed and that are in service only once it is known:
\* no request is ever sent twice to the same public address (gateway.go:1177,
\* 1757-1768), whatever other requests, probes and rotations do meanwhile.
THEOREM ExitsDistinct == FixedExits => (Spec => []DistinctExits)
<1> SUFFICES ASSUME FixedExits PROVE Spec => []DistinctExits
  OBVIOUS
<1>1. Init => ExitInv
  BY InitApart
<1>2. ExitInv /\ [Next]_vars => ExitInv'
  BY NextApart
<1>3. ExitInv => DistinctExits
  BY ApartDistinct
<1> QED
  BY <1>1, <1>2, <1>3, PTL DEF Spec

-----------------------------------------------------------------------------
(* The table of model cooldowns *)

BoundInv == TypeOK /\ \A s \in Slots : Roomy(slots[s])

LEMMA RefreshRoomy ==
  ASSUME BoundInv, NEW at \in Slots, Refresh(at), NEW s \in Slots
  PROVE  Roomy(slots'[s])
<1>1. slots \in [Slots -> SlotRecords] /\ slots[at] \in SlotRecords
  BY DEF BoundInv, TypeOK
<1>2. Roomy(slots[at]) /\ Roomy(slots[s])
  BY DEF BoundInv
<1>3. CASE slots' = [slots EXCEPT ![at] = ProbeFailed(slots[at])]
  <2>1. ProbeFailed(slots[at]).cool = slots[at].cool
    BY <1>1 DEF ProbeFailed, SlotRecords
  <2>2. Roomy(ProbeFailed(slots[at]))
    BY <1>2, <2>1, FewerRoomy DEF LiveModels
  <2> QED
    BY <1>1, <1>2, <1>3, <2>2
<1>4. ASSUME NEW ip, slots' = [slots EXCEPT ![at] = ProbeSucceeded(slots[at], ip)]
      PROVE  Roomy(slots'[s])
  <2>1. LiveModels(ProbeSucceeded(slots[at], ip)) \subseteq LiveModels(slots[at])
    BY DEF ProbeSucceeded, LiveModels, Live, NoCooldown
  <2>2. Roomy(ProbeSucceeded(slots[at], ip))
    BY <1>2, <2>1, FewerRoomy
  <2> QED
    BY <1>1, <1>2, <1>4, <2>2
<1> QED
  BY <1>3, <1>4 DEF Refresh

LEMMA NextRoomy ==
  ASSUME BoundInv, [Next]_vars
  PROVE  BoundInv'
<1>1. TypeOK'
  BY NextType DEF BoundInv
<1>2. ASSUME NEW s \in Slots PROVE Roomy(slots'[s])
  <2>s. slots \in [Slots -> SlotRecords] /\ slots[s] \in SlotRecords /\ Roomy(slots[s])
    BY DEF BoundInv, TypeOK
  <2>kept. ASSUME Kept(slots[s], slots'[s]) PROVE Roomy(slots'[s])
    BY <2>kept, <2>s DEF Kept
  <2>cool. ASSUME slots'[s].cool = slots[s].cool PROVE Roomy(slots'[s])
    BY <2>cool, <2>s, FewerRoomy DEF LiveModels
  <2>1. CASE \E r \in Requests : Begin(r) \/ ContextEnds(r) \/ Serve(r)
    BY <2>1, <2>kept, ServeKeeps DEF BoundInv
  <2>2. CASE ProbeDirect
    <3>1. PICK t \in DirectSlots : Refresh(t)
      BY <2>2 DEF ProbeDirect
    <3>2. t \in Slots
      BY PoolAssumption DEF Slots
    <3> QED
      BY <3>1, <3>2, RefreshRoomy
  <2>3. CASE ProbeStatics
    <3>1. slots'[s] = IF probed'[s] = NoEgress THEN ProbeFailed(slots[s])
                      ELSE [slots[s] EXCEPT !.egress = probed'[s], !.disabled = FALSE]
      BY <2>3 DEF ProbeStatics
    <3> QED
      BY <2>s, <2>cool, <3>1 DEF ProbeFailed, SlotRecords
  <2>4. CASE Deduplicate
    <3>1. slots'[s] = [slots[s] EXCEPT !.disabled = slots[s].disabled \/ Duplicate(s)]
      BY <2>4 DEF Deduplicate
    <3>2. slots'[s].cool = slots[s].cool
      BY <2>s, <3>1 DEF SlotRecords
    <3> QED
      BY <2>cool, <3>2
  <2>5. CASE Rotate
    BY <2>5, <2>s DEF Rotate
  <2>6. ASSUME NEW t \in Slots, Probe(t) PROVE Roomy(slots'[s])
    BY <2>6, RefreshRoomy DEF Probe
  <2>7. ASSUME NEW t \in Slots, SetEnabled(t) PROVE Roomy(slots'[s])
    <3>1. PICK off \in BOOLEAN : slots' = [slots EXCEPT ![t].disabled = off]
      BY <2>7 DEF SetEnabled
    <3>2. slots'[s].cool = slots[s].cool
      BY <2>s, <3>1 DEF SlotRecords
    <3> QED
      BY <2>cool, <3>2
  <2>8. CASE Tick
    <3>1. slots'[s] = Elapse(slots[s])
      BY <2>8 DEF Tick
    <3> QED
      BY <2>s, <2>kept, <3>1, ElapseKeeps
  <2>9. CASE UNCHANGED vars
    BY <2>9, <2>s DEF vars
  <2> QED
    BY <2>1, <2>2, <2>3, <2>4, <2>5, <2>6, <2>7, <2>8, <2>9 DEF Next, Control
<1>3. (\A s \in Slots : Roomy(slots[s]))'
  BY <1>2 DEF Roomy, LiveModels
<1> QED
  BY <1>1, <1>3 DEF BoundInv

\* The table of model cooldowns never holds more live entries than
\* maxModelCooldownsPerSlot, however many models are asked for and however the
\* requests that fail on the slot follow one another.
LEMMA TableBounded == Spec => []BoundInv
<1>1. Init => BoundInv
  <2> SUFFICES ASSUME Init, NEW s \in Slots PROVE Roomy(slots[s])
    BY InitType DEF BoundInv
  <2>1. LiveModels(slots[s]) = {}
    BY DEF Init, FreshSlot, LiveModels, Live, NoCooldown
  <2> QED
    BY <2>1, FS_EmptySet, PoolAssumption DEF Roomy
<1>2. BoundInv /\ [Next]_vars => BoundInv'
  BY NextRoomy
<1> QED
  BY <1>1, <1>2, PTL DEF Spec

\* One insertion: only a full table gives an entry up, for a model without one.
LEMMA CoolModelRemembers ==
  ASSUME NEW sl \in SlotRecords, NEW model \in Models, NEW minimum \in Nat,
         NEW t \in CoolModel(sl, model, minimum), Roomy(sl)
  PROVE  Remembered(model, sl, t)
<1> DEFINE had == LiveModels(sl)
           has == LiveModels(t)
<1>1. PICK room \in Evicted(sl, model) :
        \E c \in NextCooldown(room.cool[model].fails, minimum) :
            t = [room EXCEPT !.cool[model] = c]
  BY DEF CoolModel
<1>2. room \in SlotRecords
  BY <1>1, EvictedType
<1>3. model \in has
  BY CoolModelType DEF LiveModels
<1>4. Cardinality(has) <= MaxModelCooldowns
  BY CoolModelRoomy DEF Roomy
<1>5. ASSUME NEW m \in Models \ {model} PROVE t.cool[m] = room.cool[m]
  BY <1>1, <1>2 DEF SlotRecords
<1>6. ASSUME NEW lost \in had \ has
      PROVE  /\ model \notin had /\ Cardinality(had) = MaxModelCooldowns
             /\ \A m \in had \ {lost} :
                  m \in has /\ sl.cool[lost].until <= sl.cool[m].until
  <2>1. lost \in Models \ {model} /\ Live(sl.cool[lost]) /\ ~Live(room.cool[lost])
    BY <1>3, <1>5 DEF LiveModels
  <2>2. ~Live(sl.cool[model]) /\ Cardinality(had) >= MaxModelCooldowns
    BY <1>1, <2>1 DEF Evicted
  <2>3. PICK e \in EndingFirst(sl) : room = [sl EXCEPT !.cool[e] = NoCooldown]
    BY <2>2 DEF Evicted
  <2>4. e \in Models
    BY DEF EndingFirst, LiveModels
  <2>5. \A m \in Models \ {e} : room.cool[m] = sl.cool[m]
    BY <2>3, <2>4 DEF SlotRecords
  <2>6. lost = e
    BY <2>1, <2>5
  <2>7. model \notin had
    BY <2>2 DEF LiveModels
  <2>8. Cardinality(had) = MaxModelCooldowns
    <3>1. /\ Cardinality(had) \in Nat /\ MaxModelCooldowns \in Nat
          /\ Cardinality(had) <= MaxModelCooldowns
      BY FS_CardinalityType, PoolAssumption DEF Roomy
    <3> HIDE DEF had
    <3> QED
      BY <2>2, <3>1
  <2>9. ASSUME NEW m \in had \ {lost}
        PROVE  m \in has /\ sl.cool[lost].until <= sl.cool[m].until
    <3>1. m \in Models \ {model} /\ m \in Models \ {e} /\ Live(sl.cool[m])
      BY <2>6, <2>7 DEF LiveModels
    <3>2. t.cool[m] = sl.cool[m]
      BY <1>5, <2>5, <3>1
    <3>3. m \in has
      BY <3>1, <3>2 DEF LiveModels
    <3> QED
      BY <2>6, <3>3 DEF EndingFirst
  <2> QED
    BY <2>7, <2>8, <2>9
<1> QED
  BY <1>3, <1>4, <1>6 DEF Remembered

\* A step of a request that records a cooldown of its model.
LEMMA CooledRemembers ==
  ASSUME BoundInv, NEW r \in Requests, ModelCooled(r)
  PROVE  Remembered(req[r].model, slots[req[r].at], slots'[req[r].at])
<1> DEFINE q == req[r]
           sl == slots[q.at]
<1>1. /\ q.model \in Models /\ q.at \in Slots /\ slots \in [Slots -> SlotRecords]
      /\ sl \in SlotRecords /\ Roomy(sl)
  BY DEF BoundInv, TypeOK, RequestRecords
<1>2. CASE TooManyRequests(r)
  <2>1. PICK after \in RetryAfters :
          \E t \in CoolModel(sl, q.model, after) : slots' = [slots EXCEPT ![q.at] = t]
    BY <1>2 DEF TooManyRequests, Cool
  <2>2. PICK t \in CoolModel(sl, q.model, after) : slots' = [slots EXCEPT ![q.at] = t]
    BY <2>1
  <2>3. slots'[q.at] = t /\ after \in Nat
    BY <1>1, <2>2, ForwardAssumption
  <2> QED
    BY <1>1, <2>3, CoolModelRemembers
<1>3. ASSUME NEW minimum \in Nat, NEW cause, BreakBody(r, minimum, cause),
             q.model # NoModel
      PROVE  Remembered(q.model, sl, slots'[q.at])
  <2>1. PICK whole \in CoolSlot(sl, minimum) : Cool(r, CoolModel(whole, q.model, minimum))
    BY <1>3 DEF BreakBody
  <2>2. PICK t \in CoolModel(whole, q.model, minimum) : slots' = [slots EXCEPT ![q.at] = t]
    BY <2>1 DEF Cool
  <2>3. slots'[q.at] = t
    BY <1>1, <2>2
  <2>4. whole \in SlotRecords /\ Roomy(whole)
    BY <1>1, CoolSlotKeeps DEF Kept
  <2>5. whole.cool = sl.cool
    BY <1>1 DEF CoolSlot, SlotRecords
  <2>6. Remembered(q.model, whole, t)
    BY <1>1, <2>4, CoolModelRemembers
  <2> QED
    BY <2>3, <2>5, <2>6 DEF Remembered, LiveModels
<1>4. CASE q.model # NoModel /\ (BodyFails(r) \/ NoFirstOutput(r) \/ RelayFails(r))
  <2>1. 0 \in Nat /\ StreamFailureCooldown \in Nat
    BY ForwardAssumption
  <2> QED
    BY <1>3, <1>4, <2>1 DEF BodyFails, NoFirstOutput, RelayFails
<1> QED
  BY <1>2, <1>4 DEF ModelCooled

\* A cooldown recorded for a model is in the table afterwards, and the table
\* gives up another one only when it is full, the one that ends first: for any
\* bound, models, exits and interleaving (gateway.go, cooldownModel).
THEOREM CooldownsStay == Spec => CooldownsRemembered
<1>1. BoundInv => [\A r \in Requests :
        ModelCooled(r) => Remembered(req[r].model, slots[req[r].at],
                                     slots'[req[r].at])]_vars
  BY CooledRemembers
<1> QED
  BY <1>1, TableBounded, PTL DEF CooldownsRemembered

-----------------------------------------------------------------------------
(* What cools an exit as a whole (module ForwardHistory) *)

\* An attempt is with its exit.
InExchange(q) == q.pc \in {"sent", "reading", "relaying"}

\* An attempt fails in a way that the code charges to its exit.
AttemptFails(r) ==
    \/ TransportError(r) \/ ServerError(r)
    \/ BodyFails(r) \/ NoFirstOutput(r) \/ RelayFails(r)

\* The attempt of a request speaks no more for or against its exit: the request's own
\* context has ended, or it left through an address the exit has no longer.
Excused(r) == InExchange(req[r]) /\ ~Broken(r)

Cause(r) == AttemptFails(r) /\ (req[r].at \in guilty' \/ Excused(r))

\* A cooldown of a whole exit starts, or grows, with the failure of an attempt at this
\* exit, which is a fault of the exit at its present address or no evidence of one.
CooledForCause ==
    [][\A s \in Slots : slots'[s].until > slots[s].until
                        => \E r \in Requests : req[r].at = s /\ Cause(r)]_hvars

LEMMA WatchedStep ==
  ASSUME NEW r \in Requests, WatchRequest(r)
  PROVE  Begin(r) \/ ContextEnds(r) \/ Serve(r)
BY DEF WatchRequest, Serve

LEMMA WatchedNext == [HNext]_hvars => [Next]_vars
BY WatchedStep DEF HNext, Next, hvars, vars

\* The histories only watch: what is proved of Forward holds with them.
THEOREM HistoryWatches == HSpec => Spec
<1>1. HInit => Init
  BY DEF HInit
<1> QED
  BY <1>1, WatchedNext, PTL DEF HSpec, Spec

\* A 429 cools one model of the exit, not the exit.
LEMMA CoolModelSpares ==
  ASSUME NEW sl \in SlotRecords, NEW model \in Models, NEW minimum \in Nat,
         NEW t \in CoolModel(sl, model, minimum)
  PROVE  t.until = sl.until
<1>1. PICK room \in Evicted(sl, model) :
        \E c \in NextCooldown(room.cool[model].fails, minimum) :
            t = [room EXCEPT !.cool[model] = c]
  BY DEF CoolModel
<1>2. room.until = sl.until /\ room \in SlotRecords
  BY <1>1, EvictedType DEF Evicted, SlotRecords
<1> QED
  BY <1>1, <1>2 DEF SlotRecords

\* A step of a request that makes the cooldown of an exit longer.
LEMMA ServeCools ==
  ASSUME TypeOK, NEW r \in Requests, WatchRequest(r), NEW s \in Slots,
         slots'[s].until > slots[s].until
  PROVE  req[r].at = s /\ Cause(r)
<1> DEFINE q == req[r]
<1>q. q.at \in Slots /\ q.model \in Models
  BY DEF TypeOK, RequestRecords
<1>s. /\ slots \in [Slots -> SlotRecords] /\ slots[q.at] \in SlotRecords
      /\ slots[s].until \in Nat /\ ~ (slots[s].until > slots[s].until)
  BY <1>q DEF TypeOK, SlotRecords
<1>at. ASSUME NEW t, slots' = [slots EXCEPT ![q.at] = t] PROVE s = q.at
  BY <1>at, <1>s
<1>1. slots' # slots
  BY <1>s
<1>2. ASSUME TransportError(r) \/ ServerError(r), Charge(r, SameExit(r))
      PROVE  s = q.at /\ Cause(r)
  <2>1. q.pc = "sent" /\ s = q.at
    BY <1>2, <1>at DEF TransportError, ServerError, Cool
  <2>2. CASE SameExit(r)
    BY <1>2, <2>1, <2>2 DEF Charge, Cause, AttemptFails
  <2>3. CASE ~SameExit(r)
    BY <1>2, <2>1, <2>3 DEF Excused, InExchange, Broken, Cause, AttemptFails
  <2> QED
    BY <2>2, <2>3
<1>3. ASSUME BodyFails(r) \/ NoFirstOutput(r) \/ RelayFails(r), Charge(r, Broken(r))
      PROVE  s = q.at /\ Cause(r)
  <2>1. q.pc \in {"reading", "relaying"} /\ s = q.at
    BY <1>3, <1>at DEF BodyFails, NoFirstOutput, RelayFails, BreakBody, Cool
  <2>2. CASE Broken(r)
    BY <1>3, <2>1, <2>2 DEF Charge, Cause, AttemptFails
  <2>3. CASE ~Broken(r)
    BY <1>3, <2>1, <2>3 DEF Excused, InExchange, Cause, AttemptFails
  <2> QED
    BY <2>2, <2>3
<1>4. ASSUME TooManyRequests(r) PROVE FALSE
  <2>1. PICK after \in RetryAfters :
          \E t \in CoolModel(slots[q.at], q.model, after) : slots' = [slots EXCEPT ![q.at] = t]
    BY <1>4 DEF TooManyRequests, Cool
  <2>2. PICK t \in CoolModel(slots[q.at], q.model, after) : slots' = [slots EXCEPT ![q.at] = t]
    BY <2>1
  <2>3. t.until = slots[q.at].until
    BY <1>q, <1>s, CoolModelSpares, ForwardAssumption
  <2>4. slots'[s] = t /\ s = q.at
    BY <1>at, <1>s, <2>2
  <2> QED
    BY <1>s, <2>3, <2>4
<1>5. ASSUME Forgive(r) PROVE FALSE
  <2>1. slots' = [slots EXCEPT ![q.at] = Succeed(slots[q.at], q.model)]
    BY <1>5 DEF Forgive
  <2>2. slots'[s] = Succeed(slots[q.at], q.model) /\ s = q.at
    BY <1>at, <1>s, <2>1
  <2>3. slots'[s].until = 0
    BY <1>s, <2>2 DEF Succeed, SlotRecords
  <2> QED
    BY <1>s, <2>3
<1> HIDE DEF q
<1>6. ASSUME Deliver(r) \/ RelayEnds(r) PROVE FALSE
  BY <1>1, <1>5, <1>6 DEF Deliver, RelayEnds
<1>7. (TransportError(r) \/ ServerError(r)) /\ Charge(r, SameExit(r))
      => req[r].at = s /\ Cause(r)
  BY <1>2 DEF q
<1>8. (BodyFails(r) \/ NoFirstOutput(r) \/ RelayFails(r)) /\ Charge(r, Broken(r))
      => req[r].at = s /\ Cause(r)
  BY <1>3 DEF q
<1> QED
  BY <1>1, <1>7, <1>8, <1>4, <1>6
     DEF WatchRequest, Begin, ContextEnds, Abort, Pick, Wait, NoUntriedSlot, WaitTimeout,
         Send, Malformed, Accept, Retry, GiveUp, CommitStream, ClientLost, TooLarge,
         RelayStops, SwitchExit, pool

\* A probe, the administrator and the clock make no cooldown longer.
LEMMA RefreshCools ==
  ASSUME TypeOK, NEW at \in Slots, Refresh(at), NEW s \in Slots
  PROVE  ~ (slots'[s].until > slots[s].until)
<1>1. /\ slots \in [Slots -> SlotRecords] /\ slots[at] \in SlotRecords
      /\ slots[s].until \in Nat
  BY DEF TypeOK, SlotRecords
<1>2. PICK t : /\ slots' = [slots EXCEPT ![at] = t]
               /\ t.until = 0 \/ t.until = slots[at].until
  <2>1. ProbeFailed(slots[at]).until = slots[at].until
    BY <1>1 DEF ProbeFailed, SlotRecords
  <2>2. \A ip : ProbeSucceeded(slots[at], ip).until = 0
    BY DEF ProbeSucceeded
  <2> QED
    BY <2>1, <2>2 DEF Refresh
<1>3. slots'[s].until = 0 \/ slots'[s].until = slots[s].until
  BY <1>1, <1>2
<1> QED
  BY <1>1, <1>3

LEMMA ControlCools ==
  ASSUME TypeOK, Control \/ Tick, NEW s \in Slots
  PROVE  ~ (slots'[s].until > slots[s].until)
<1>s. /\ slots \in [Slots -> SlotRecords] /\ slots[s] \in SlotRecords
      /\ slots[s].until \in Nat /\ ~ (slots[s].until > slots[s].until)
  BY DEF TypeOK, SlotRecords
<1>1. CASE ProbeDirect
  <2>1. PICK t \in DirectSlots : Refresh(t)
    BY <1>1 DEF ProbeDirect
  <2>2. t \in Slots
    BY PoolAssumption DEF Slots
  <2> QED
    BY <2>1, <2>2, RefreshCools
<1>2. CASE ProbeStatics
  <2>1. slots'[s] = IF probed'[s] = NoEgress THEN ProbeFailed(slots[s])
                    ELSE [slots[s] EXCEPT !.egress = probed'[s], !.disabled = FALSE]
    BY <1>2 DEF ProbeStatics
  <2>2. slots'[s].until = slots[s].until
    BY <1>s, <2>1 DEF ProbeFailed, SlotRecords
  <2> QED
    BY <1>s, <2>2
<1>3. CASE Deduplicate
  <2>1. slots'[s] = [slots[s] EXCEPT !.disabled = slots[s].disabled \/ Duplicate(s)]
    BY <1>3 DEF Deduplicate
  <2>2. slots'[s].until = slots[s].until
    BY <1>s, <2>1 DEF SlotRecords
  <2> QED
    BY <1>s, <2>2
<1>4. CASE Rotate
  BY <1>s, <1>4 DEF Rotate
<1>5. ASSUME NEW t \in Slots, Probe(t) PROVE ~ (slots'[s].until > slots[s].until)
  BY <1>5, RefreshCools DEF Probe
<1>6. ASSUME NEW t \in Slots, SetEnabled(t) PROVE ~ (slots'[s].until > slots[s].until)
  <2>1. PICK off \in BOOLEAN : slots' = [slots EXCEPT ![t].disabled = off]
    BY <1>6 DEF SetEnabled
  <2>2. slots'[s].until = slots[s].until
    BY <1>s, <2>1 DEF SlotRecords
  <2> QED
    BY <1>s, <2>2
<1>7. CASE Tick
  <2>1. slots'[s] = Elapse(slots[s])
    BY <1>7 DEF Tick
  <2>2. slots'[s].until = Less(slots[s].until)
    BY <1>s, <2>1 DEF Elapse, SlotRecords
  <2> QED
    BY <1>s, <2>2 DEF Less
<1> QED
  BY <1>1, <1>2, <1>3, <1>4, <1>5, <1>6, <1>7 DEF Control

LEMMA NextCools ==
  ASSUME TypeOK, [HNext]_hvars, NEW s \in Slots, slots'[s].until > slots[s].until
  PROVE  \E r \in Requests : req[r].at = s /\ Cause(r)
<1>1. ASSUME UNCHANGED hvars PROVE FALSE
  <2>1. slots[s].until \in Nat /\ slots' = slots
    BY <1>1 DEF TypeOK, SlotRecords, hvars, vars
  <2> QED
    BY <2>1
<1> QED
  BY <1>1, ServeCools, ControlCools DEF HNext

\* Whatever probes, the administrator and other requests do: an exit is cooled as a
\* whole only when an attempt at it fails by its connection or a 5xx, and this is a fault
\* of the exit at its address, or the request's context has ended or the exit has lost
\* that address; nothing else, not even a 429, cools the exit (gateway.go, forward and
\* handleUpstreamBodyFailure).
THEOREM CooledOnlyForCause == HSpec => CooledForCause
<1>1. HInit => TypeOK
  BY InitType DEF HInit
<1>2. TypeOK /\ [HNext]_hvars => TypeOK'
  BY NextType, WatchedNext
<1>3. TypeOK /\ [HNext]_hvars
      => [\A s \in Slots : slots'[s].until > slots[s].until
                           => \E r \in Requests : req[r].at = s /\ Cause(r)]_hvars
  BY NextCools
<1> QED
  BY <1>1, <1>2, <1>3, PTL DEF HSpec, CooledForCause

\* No client leaves and no deadline passes while an attempt is with an exit.
ContextsLast == \A r \in Requests : InExchange(req[r]) => ~req[r].ended

\* An attempt is with its exit, or its 429 or 5xx is about to be passed on.
InUse(q) == InExchange(q) \/ (q.pc = "failed" /\ q.cause = "status")

\* An address changes only while no attempt is with the exit, and an exit with a new
\* address is not cooled.
MovesAtRest ==
    \A s \in Slots :
        slots'[s].egress # slots[s].egress
        => slots'[s].until = 0 /\ \A r \in Requests : InUse(req[r]) => req[r].at # s

\* An attempt that is with an exit left from the address the exit has.
AtExit(r) ==
    /\ InUse(req[r]) => slots[req[r].at].egress = via[r]
    /\ req[r].pc = "switching" => req[r].cause # "status"

FaultInv ==
    /\ TypeOK
    /\ via \in [Requests -> Egresses \cup {NoEgress}]
    /\ OnlyFaultsCool
    /\ \A r \in Requests : AtExit(r)

\* An attempt that is with an exit after a step of its request was with it before, or has
\* just been sent.
Continues(q, x) ==
    /\ InUse(x) => InUse(q) /\ x.at = q.at
    /\ x.pc = "switching" => x.cause # "status"

LEMMA UseContinues ==
  ASSUME TypeOK, NEW r \in Requests, req[r].pc = "switching" => req[r].cause # "status",
         WatchRequest(r)
  PROVE  \/ Continues(req[r], req'[r]) /\ via' = via
         \/ Send(r) /\ via' = [via EXCEPT ![r] = slots[req[r].at].egress]
<1> DEFINE q == req[r]
           x == req'[r]
<1>q. q \in RequestRecords /\ req \in [Requests -> RequestRecords]
  BY DEF TypeOK
<1>new. \A k, m : NewRequest(k, m).pc = "top"
  BY DEF NewRequest
<1>ret. \A y : Return(y).pc = "done"
  BY DEF Return, NewRequest
<1>1. ASSUME x.pc \in {"top", "waiting", "picked", "done"} PROVE Continues(q, x)
  BY <1>1 DEF Continues, InUse, InExchange
<1>2. ASSUME x.pc \in {"failed", "switching"}, x.cause # "status" PROVE Continues(q, x)
  BY <1>2 DEF Continues, InUse, InExchange
<1>3. ASSUME InUse(q), x.at = q.at, x.pc # "switching" PROVE Continues(q, x)
  BY <1>3 DEF Continues
<1>4. ASSUME Begin(r) PROVE Continues(q, x)
  BY <1>1, <1>4, <1>q, <1>new DEF Begin
<1>5. ASSUME ContextEnds(r) PROVE Continues(q, x)
  <2>1. x.pc = q.pc /\ x.at = q.at /\ x.cause = q.cause
    BY <1>5, <1>q DEF ContextEnds, RequestRecords
  <2> QED
    BY <2>1 DEF Continues, InUse, InExchange
<1>6. ASSUME Abort(r) \/ NoUntriedSlot(r) \/ WaitTimeout(r) \/ Deliver(r) \/ RelayEnds(r)
           \/ RelayStops(r) \/ Malformed(r)
      PROVE  Continues(q, x)
  <2>1. x.pc = "done"
    BY <1>6, <1>q, <1>ret
       DEF Abort, Malformed, NoUntriedSlot, WaitTimeout, Deliver, RelayEnds, RelayStops
  <2> QED
    BY <1>1, <2>1
<1>7. ASSUME Pick(r) \/ Wait(r) \/ Retry(r) PROVE Continues(q, x)
  <2>1. x.pc \in {"picked", "waiting", "top"}
    BY <1>7, <1>q DEF Pick, Wait, Retry, RequestRecords
  <2> QED
    BY <1>1, <2>1
<1>8. ASSUME TransportError(r) \/ TooLarge(r) PROVE Continues(q, x)
  <2>1. x.pc = "failed" /\ x.cause \in {"transport", "final"}
    BY <1>8, <1>q DEF TransportError, TooLarge, RequestRecords
  <2> QED
    BY <1>2, <2>1
<1>9. ASSUME ClientLost(r) PROVE Continues(q, x)
  <2>1. \/ x.pc = "failed" /\ x.cause = "body"
        \/ x.pc = "done"
    BY <1>9, <1>q, <1>ret DEF ClientLost, RequestRecords
  <2> QED
    BY <1>1, <1>2, <2>1
<1>10. ASSUME TooManyRequests(r) \/ ServerError(r) PROVE Continues(q, x)
  <2>1. q.pc = "sent" /\ x.pc = "failed" /\ x.at = q.at
    BY <1>10, <1>q DEF TooManyRequests, ServerError, RequestRecords
  <2> QED
    BY <1>3, <2>1 DEF InUse, InExchange
<1>11. ASSUME Accept(r) \/ CommitStream(r) PROVE Continues(q, x)
  <2>1. q.pc \in {"sent", "reading"}
    BY <1>11 DEF Accept, CommitStream
  <2>2. PICK a \in RequestRecords : a = Answer(q, "upstream") /\ a.at = q.at
    <3>1. Answer(q, "upstream").at = q.at
      BY <1>q DEF Answer, RequestRecords
    <3> QED
      BY <1>q, <3>1, AnswerType DEF Replies
  <2>3. x.pc \in {"reading", "relaying"} /\ x.at = q.at
    BY <1>11, <1>q, <2>2 DEF Accept, CommitStream, RequestRecords
  <2> QED
    BY <1>3, <2>1, <2>3 DEF InUse, InExchange
<1>12. ASSUME GiveUp(r) PROVE Continues(q, x)
  <2>1. q.pc = "failed"
    BY <1>12 DEF GiveUp
  <2>2. CASE q.cause = "status"
    <3>1. x.pc = "relaying" /\ x.at = q.at
      BY <1>12, <1>q, <2>2 DEF GiveUp, Answer, RequestRecords
    <3> QED
      BY <1>3, <2>1, <2>2, <3>1 DEF InUse
  <2>3. CASE q.cause # "status"
    BY <1>1, <1>12, <1>q, <1>ret, <2>3 DEF GiveUp
  <2> QED
    BY <2>2, <2>3
<1>13. ASSUME BodyFails(r) \/ NoFirstOutput(r) \/ RelayFails(r) PROVE Continues(q, x)
  <2>1. x.pc = "switching" /\ x.cause \in {"body", "final", "committed"}
    BY <1>13, <1>q DEF BodyFails, NoFirstOutput, RelayFails, BreakBody, RequestRecords
  <2> QED
    BY <1>2, <2>1
<1>14. ASSUME SwitchExit(r) PROVE Continues(q, x)
  <2>1. q.pc = "switching"
    BY <1>14 DEF SwitchExit
  <2>2. \/ x.pc = "failed" /\ x.cause = q.cause
        \/ x.pc = "done"
    BY <1>14, <1>q, <1>ret DEF SwitchExit, RequestRecords
  <2> QED
    BY <1>1, <1>2, <2>1, <2>2
<1> QED
  BY <1>4, <1>5, <1>6, <1>7, <1>8, <1>9, <1>10, <1>11, <1>12, <1>13, <1>14
     DEF WatchRequest, Charge

\* A step of a request leaves the other requests alone.
LEMMA OthersWait ==
  ASSUME TypeOK, DOMAIN via = Requests, NEW r \in Requests, WatchRequest(r),
         NEW p \in Requests \ {r}
  PROVE  req'[p] = req[p] /\ via'[p] = via[p]
<1>1. req \in [Requests -> RequestRecords]
  BY DEF TypeOK
<1>2. via'[p] = via[p]
  BY DEF WatchRequest, Charge
<1>3. CASE Begin(r) \/ ContextEnds(r) \/ Abort(r) \/ Pick(r) \/ Wait(r) \/ NoUntriedSlot(r)
           \/ WaitTimeout(r) \/ Send(r) \/ Malformed(r)
  BY <1>1, <1>2, <1>3 DEF Begin, ContextEnds, Abort, Pick, Wait, NoUntriedSlot, WaitTimeout, Send,
     Malformed
<1>4. CASE TransportError(r) \/ TooManyRequests(r) \/ ServerError(r) \/ Accept(r) \/ Retry(r)
           \/ GiveUp(r) \/ Deliver(r) \/ CommitStream(r)
  BY <1>1, <1>2, <1>4 DEF TransportError, TooManyRequests, ServerError, Accept, Retry, GiveUp,
     Deliver, CommitStream
<1>5. CASE ClientLost(r) \/ BodyFails(r) \/ NoFirstOutput(r) \/ TooLarge(r) \/ RelayEnds(r)
           \/ RelayFails(r) \/ RelayStops(r) \/ SwitchExit(r)
  BY <1>1, <1>2, <1>5 DEF ClientLost, BodyFails, NoFirstOutput, TooLarge, RelayEnds, RelayFails,
     RelayStops, SwitchExit, BreakBody
<1> QED
  BY <1>3, <1>4, <1>5 DEF WatchRequest

LEMMA NextFaults ==
  ASSUME FaultInv, ContextsLast, [HNext]_hvars, [MovesAtRest]_hvars
  PROVE  FaultInv'
<1>1. TypeOK /\ TypeOK' /\ slots \in [Slots -> SlotRecords] /\ req \in [Requests -> RequestRecords]
  BY NextType, WatchedNext DEF FaultInv, TypeOK
<1>2. CASE UNCHANGED hvars
  BY <1>1, <1>2 DEF FaultInv, OnlyFaultsCool, AtExit, InUse, InExchange, hvars, vars
<1>3. CASE HNext /\ MovesAtRest
  <2>1. via' \in [Requests -> Egresses \cup {NoEgress}]
    <3>1. ASSUME NEW r \in Requests, Send(r) PROVE slots[req[r].at].egress \in Egresses \cup {NoEgress}
      BY <1>1 DEF SlotRecords, RequestRecords
    <3> QED
      BY <1>3, <3>1 DEF FaultInv, HNext, WatchRequest, Charge
  <2>2. ASSUME NEW s \in Slots, slots'[s].until > 0 PROVE s \in guilty'
    <3>1. slots[s].until \in Nat /\ slots'[s].until \in Nat
      BY <1>1 DEF TypeOK, SlotRecords
    <3>2. CASE slots[s].until > 0
      <4>1. s \in guilty
        BY <3>2 DEF FaultInv, OnlyFaultsCool
      <4>2. slots'[s].egress = slots[s].egress
        BY <1>3, <2>2 DEF MovesAtRest
      <4> QED
        BY <1>3, <4>1, <4>2 DEF HNext, WatchRequest, Charge
    <3>3. CASE ~ (slots[s].until > 0)
      <4>1. slots'[s].until > slots[s].until
        BY <2>2, <3>1, <3>3
      <4>2. \A r \in Requests : ~ Excused(r)
        BY DEF FaultInv, AtExit, Excused, InUse, Broken, SameExit, ContextsLast
      <4>3. PICK r \in Requests : req[r].at = s /\ Cause(r)
        BY <1>1, <4>1, NextCools
      <4> QED
        BY <4>2, <4>3 DEF Cause
    <3> QED
      BY <3>2, <3>3
  <2>3. ASSUME NEW p \in Requests, InUse(req[p])
        PROVE  slots'[req[p].at].egress = via[p]
    <3>1. req[p].at \in Slots
      BY <1>1 DEF RequestRecords
    <3> QED
      BY <1>3, <2>3, <3>1 DEF MovesAtRest, FaultInv, AtExit
  <2>4. ASSUME NEW p \in Requests, via'[p] = via[p], Continues(req[p], req'[p])
        PROVE  AtExit(p)'
    BY <2>3, <2>4 DEF AtExit, Continues
  <2>5. ASSUME NEW p \in Requests, req'[p].pc = req[p].pc, req'[p].at = req[p].at,
               req'[p].cause = req[p].cause
        PROVE  Continues(req[p], req'[p])
    BY <2>5 DEF FaultInv, AtExit, Continues, InUse, InExchange
  <2>6. ASSUME NEW r \in Requests, WatchRequest(r), NEW p \in Requests PROVE AtExit(p)'
    <3>1. CASE p # r
      BY <1>1, <2>4, <2>5, <2>6, <3>1, OthersWait DEF FaultInv
    <3>2. CASE p = r /\ Continues(req[r], req'[r]) /\ via' = via
      BY <2>4, <3>2
    <3>3. CASE p = r /\ Send(r) /\ via' = [via EXCEPT ![r] = slots[req[r].at].egress]
      <4>1. slots' = slots /\ req'[r].at = req[r].at /\ req'[r].pc = "sent"
        BY <1>1, <3>3 DEF Send, RequestRecords
      <4>2. via'[r] = slots[req[r].at].egress
        BY <3>3 DEF FaultInv
      <4> QED
        BY <3>3, <4>1, <4>2 DEF AtExit
    <3>4. p = r => \/ Continues(req[r], req'[r]) /\ via' = via
                   \/ Send(r) /\ via' = [via EXCEPT ![r] = slots[req[r].at].egress]
      BY <1>1, <2>6, UseContinues DEF FaultInv, AtExit
    <3> QED
      BY <3>1, <3>2, <3>3, <3>4
  <2>7. ASSUME Control \/ Tick, via' = via, NEW p \in Requests PROVE AtExit(p)'
    <3>1. /\ req'[p].pc = req[p].pc /\ req'[p].at = req[p].at
          /\ req'[p].cause = req[p].cause
      <4>1. CASE Control
        <5>1. req' = req
          BY <4>1 DEF Control, ProbeDirect, ProbeStatics, Deduplicate, Rotate, Probe, SetEnabled,
             Admin
        <5> QED
          BY <5>1
      <4>2. CASE Tick
        <5>1. req'[p] = [req[p] EXCEPT !.timer = Less(req[p].timer)]
          BY <4>2 DEF Tick
        <5> QED
          BY <1>1, <5>1 DEF RequestRecords
      <4> QED
        BY <2>7, <4>1, <4>2
    <3> QED
      BY <2>4, <2>5, <2>7, <3>1
  <2>8. \A p \in Requests : AtExit(p)'
    BY <1>3, <2>6, <2>7 DEF HNext
  <2> QED
    BY <1>1, <2>1, <2>2, <2>8 DEF FaultInv, OnlyFaultsCool
<1> QED
  BY <1>2, <1>3

\* As long as no context ends under an attempt and addresses change only at rest, an
\* exit is cooled as a whole for its own faults alone: what the code takes for a fault
\* without being one is always a context that has ended or an address that has moved
\* (gateway.go, forward and handleUpstreamBodyFailure).
THEOREM FaultsAloneCool ==
  HSpec /\ []ContextsLast /\ [][MovesAtRest]_hvars => []OnlyFaultsCool
<1>1. HInit => FaultInv
  <2> SUFFICES ASSUME HInit PROVE FaultInv
    OBVIOUS
  <2>1. TypeOK
    BY InitType DEF HInit
  <2>2. \A s \in Slots : slots[s].until = 0
    BY DEF HInit, Init, FreshSlot
  <2>3. \A r \in Requests : req[r].pc = "idle"
    BY DEF HInit, Init, NewRequest
  <2> QED
    BY <2>1, <2>2, <2>3 DEF HInit, FaultInv, OnlyFaultsCool, AtExit, InUse, InExchange
<1>2. FaultInv /\ ContextsLast /\ [HNext]_hvars /\ [MovesAtRest]_hvars => FaultInv'
  BY NextFaults
<1>3. FaultInv => OnlyFaultsCool
  BY DEF FaultInv
<1> QED
  BY <1>1, <1>2, <1>3, PTL DEF HSpec
=============================================================================
