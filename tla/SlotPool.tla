------------------------------ MODULE SlotPool ------------------------------
(***************************************************************************)
(* The exits of one gateway instance and what the gateway remembers about  *)
(* each of them (internal/gateway/gateway.go, type proxySlot).  A slot is  *)
(* a record                                                                *)
(*                                                                         *)
(*    disabled   the operator, a failed probe or the duplicate check took  *)
(*               it out of service                                         *)
(*    egress     the public address its last successful probe saw          *)
(*    fails      consecutive whole-slot failures                           *)
(*    until      time left before the whole slot is usable again           *)
(*    cool       per model: fails and the time left of its 429 cooldown    *)
(*                                                                         *)
(* The code stores instants; a slot here stores the time that is LEFT, so  *)
(* the clock is the step that decrements every counter (Elapse).  0 means  *)
(* the instant has passed.  Every reader of the code's map of model        *)
(* cooldowns ignores or deletes an entry whose instant has passed, so an   *)
(* expired entry and an absent one are the same here: NoCooldown.          *)
(*                                                                         *)
(* Every operator below is one critical section of the slot's mutex and    *)
(* returns the slot after it, or the set of slots it can leave behind when *)
(* the code draws a random jitter or iterates over a map.                  *)
(***************************************************************************)
EXTENDS Integers, FiniteSets

CONSTANTS
    NumSlots,       \* g.slots has NumSlots elements, in this order
    DirectSlots,    \* the slots without a proxy URL
    Models,         \* model names the gateway has seen, NoModel included
    NoModel,        \* a request body that names no model ("")
    Egresses,       \* public addresses a probe may see
    NoEgress,       \* the slot has not been probed successfully yet
    CooldownBase,   \* COOLDOWN_BASE
    CooldownMax,    \* COOLDOWN_MAX
    MaxFails,       \* BOUND: failure counters stop here; the backoff is flat
    MaxModelCooldowns \* maxModelCooldownsPerSlot

Slots == 1 .. NumSlots

\* What config.go validates (CooldownBase > 0, CooldownMax >= CooldownBase)
\* and what New ensures (a non-empty list, the direct slot in front).  From MaxFails on, one more
\* failure no longer changes the backoff, so the counter may stop there.
ASSUME PoolAssumption ==
    /\ NumSlots \in Nat \ {0}
    /\ DirectSlots \subseteq {1}
    /\ NoModel \in Models
    /\ NoEgress \notin Egresses
    /\ CooldownBase \in Nat \ {0}
    /\ CooldownMax \in Nat
    /\ CooldownBase <= CooldownMax
    /\ MaxFails \in Nat \ {0}
    /\ MaxModelCooldowns \in Nat \ {0}

ASSUME FailuresSaturate == CooldownBase * 2 ^ (MaxFails - 1) >= CooldownMax

NoCooldown == [fails |-> 0, until |-> 0]

Cooldowns == [fails : 0 .. MaxFails, until : Nat]

SlotRecords ==
    [ disabled : BOOLEAN,
      egress   : Egresses \cup {NoEgress},
      fails    : 0 .. MaxFails,
      until    : Nat,
      cool     : [Models -> Cooldowns] ]

FreshSlot(disabled) ==
    [ disabled |-> disabled, egress |-> NoEgress, fails |-> 0, until |-> 0,
      cool |-> [m \in Models |-> NoCooldown] ]

-----------------------------------------------------------------------------
\* Faulty variant: the address is ignored.
IdentityByProxy(s, sl) ==
    IF s \in DirectSlots THEN <<"direct">> ELSE <<"proxy", s>>

\* Which exit a request has used is remembered by identity: the address if
\* it is known, the proxy URL otherwise, one name for every direct slot.
Identity(s, sl) ==
    IF sl.egress # NoEgress THEN <<"egress", sl.egress>>
    ELSE IF s \in DirectSlots THEN <<"direct">> ELSE <<"proxy", s>>

Identities ==
    {<<"egress", ip>> : ip \in Egresses} \cup {<<"direct">>}
        \cup {<<"proxy", s>> : s \in Slots}

-----------------------------------------------------------------------------
\* Base doubled once per failure after the first, never above the maximum.
Backoff(n) ==
    LET doubled == CooldownBase * 2 ^ (n - 1)
    IN  IF doubled \in 1 .. CooldownMax THEN doubled ELSE CooldownMax

\* The jitter is added after the cap; a minimum (Retry-After or the stream
\* failure cooldown) replaces a shorter delay.
NextCooldown(fails, minimum) ==
    LET n == IF fails < MaxFails THEN fails + 1 ELSE MaxFails
        d == Backoff(n)
    IN  { [fails |-> n, until |-> IF minimum > d + j THEN minimum ELSE d + j] :
            j \in 0 .. (d \div 5) }

CoolSlot(sl, minimum) ==
    { [sl EXCEPT !.fails = c.fails, !.until = c.until] :
        c \in NextCooldown(sl.fails, minimum) }

Live(c) == c.until > 0

LiveModels(sl) == {m \in Models : Live(sl.cool[m])}

\* The live entries a full table may give up: those that end first.
EndingFirst(sl) ==
    {m \in LiveModels(sl) : \A o \in LiveModels(sl) :
                               sl.cool[m].until <= sl.cool[o].until}

\* Faulty variant: the new model's own entry does not count as there.
EvictedAlways(sl, model) ==
    IF Cardinality(LiveModels(sl)) >= MaxModelCooldowns
    THEN {[sl EXCEPT !.cool[m] = NoCooldown] : m \in EndingFirst(sl)}
    ELSE {sl}

Evicted(sl, model) ==
    IF ~Live(sl.cool[model]) /\ Cardinality(LiveModels(sl)) >= MaxModelCooldowns
    THEN {[sl EXCEPT !.cool[m] = NoCooldown] : m \in EndingFirst(sl)}
    ELSE {sl}

CoolModel(sl, model, minimum) ==
    UNION { { [room EXCEPT !.cool[model] = c] :
                c \in NextCooldown(room.cool[model].fails, minimum) } :
            room \in Evicted(sl, model) }

\* A completed request forgives the slot and the model it used, whatever
\* another request has recorded there since it was sent.
Succeed(sl, model) ==
    [sl EXCEPT !.fails = 0, !.until = 0, !.cool[model] = NoCooldown]

\* Time before the slot would take a request for the model.
ReadyIn(sl, model) ==
    IF sl.cool[model].until > sl.until THEN sl.cool[model].until ELSE sl.until

-----------------------------------------------------------------------------
\* A probe that fails takes the slot out of service; one that succeeds puts
\* it back, forgives the slot, and keeps the model cooldowns only if the
\* address is still the one they were recorded for.
ProbeFailed(sl) == [sl EXCEPT !.disabled = TRUE]

ProbeSucceeded(sl, ip) ==
    [ disabled |-> FALSE, egress |-> ip, fails |-> 0, until |-> 0,
      cool |-> IF ip = sl.egress THEN sl.cool
               ELSE [m \in Models |-> NoCooldown] ]

-----------------------------------------------------------------------------
\* A tick of the clock.
Less(t) == IF t > 0 THEN t - 1 ELSE 0

Elapse(sl) ==
    [sl EXCEPT !.until = Less(sl.until),
               !.cool = [m \in Models |->
                           IF sl.cool[m].until > 1
                           THEN [fails |-> sl.cool[m].fails,
                                 until |-> sl.cool[m].until - 1]
                           ELSE NoCooldown]]

Cooling(sl) == sl.until > 0 \/ LiveModels(sl) # {}

-----------------------------------------------------------------------------
\* The ring the selection walks, starting at the active slot.
Distance(from, s) == (s - from + NumSlots) % NumSlots
=============================================================================
