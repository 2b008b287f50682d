------------------------------ MODULE ProxyList ------------------------------
(***************************************************************************)
(* The list of slots of a gateway (internal/gateway/gateway.go): the base  *)
(* slots of the configuration, followed by those of the proxy list file.   *)
(* Three activities read the list, probe for seconds and then replace it   *)
(* as a whole: the start-up probe of the base slots, the periodic refresh  *)
(* of the file and the refresh an administrator asks for.                  *)
(*                                                                         *)
(* A slot is an object: requests hold on to it, and its cooldowns go with  *)
(* it.  It is written <<url, n>>: the n-th object made for that URL of the *)
(* file among those that are still in use; the k-th base slot has n = -k.  *)
(* Configuration and file may name the same URL, and the configuration may *)
(* name it twice.                                                          *)
(***************************************************************************)
EXTENDS Integers, Sequences, SequencesExt, FiniteSetsExt

CONSTANTS
    Direct,     \* the URL "" of the direct slot, always the first of the base
    Base,       \* the URLs of g.base, in order
    Files,      \* possible contents of the proxy list: sequences of URLs
    Worlds,     \* where a URL leads to: an address, or Down
    Down,
    Unknown,    \* no address has been probed yet
    Target,     \* TargetEgress, MaxConcurrency when it is 0
    MaxCopies,  \* BOUND: objects in use for one URL
    MaxChanges  \* BOUND: changes of the file or of the world

Refreshes == {"loop", "admin"}

Urls == ToSet(Base) \cup UNION {ToSet(f) : f \in Files}

ASSUME ListAssumption ==
    /\ Base \in Seq(Urls) /\ \A k \in DOMAIN Base : Base[k] = Direct => k = 1
    /\ \A f \in Files : f \in Seq(Urls) /\ IsInjective(f) /\ Direct \notin ToSet(f)
    /\ \A w \in Worlds, u \in Urls : w[u] # Unknown
    /\ Target \in Nat \ {0} /\ MaxCopies \in Nat /\ MaxChanges \in Nat

VARIABLES
    slots,   \* g.slots
    object,  \* egress and disabled of every slot in use
    file, world,
    run,     \* per refresh: its step, its candidates, one per address
    dedupe,  \* probeAndDeduplicateStaticSlots: its step, its list
    started, \* New has returned
    changes

listVars == <<slots, object, file, world, run, dedupe, started, changes>>

BaseSlots == [k \in DOMAIN Base |-> <<Base[k], -k>>]

Resting == [at |-> "idle", candidates |-> <<>>, chosen |-> {}, alone |-> FALSE]

ListInit ==
    /\ slots = BaseSlots
    /\ object = [s \in ToSet(BaseSlots) |-> [egress |-> Unknown, disabled |-> s[1] # Direct]]
    /\ file \in Files /\ world \in Worlds
    /\ run = [r \in Refreshes |-> Resting]
    /\ dedupe = [at |-> IF ToSet(Base) \ {Direct} = {} THEN "done" ELSE "start", list |-> <<>>]
    /\ started = FALSE
    /\ changes = 0

\* Only what is referenced stays in memory.
Retain(objects, list, runs, dd) ==
    LET used == UNION {ToSet(list), ToSet(dd.list),
                       UNION {ToSet(runs[r].candidates) : r \in Refreshes}}
    IN  [s \in DOMAIN objects \cap used |-> objects[s]]

-----------------------------------------------------------------------------
(* refreshProxyList *)

Busy(r) == run[r].at # "idle"

\* No other activity that will replace the list.
Alone(r) == dedupe.at = "done" /\ \A q \in Refreshes \ {r} : ~Busy(q)

Room(u) == \E n \in 1 .. MaxCopies : <<u, n>> \notin DOMAIN object

NewSlot(u) == <<u, CHOOSE n \in 1 .. MaxCopies : <<u, n>> \notin DOMAIN object>>

\* Faulty variant: a new slot for every line.
Unrelated(u) == NewSlot(u)

\* The slot that the list has for a URL goes on being used, the last if there
\* are several.
Candidate(u) ==
    LET places == {k \in DOMAIN slots : slots[k][1] = u}
    IN  IF places = {} THEN NewSlot(u) ELSE slots[Max(places)]

StartRefresh(r) ==
    /\ ~Busy(r)
    /\ r = "admin" => started
    /\ \A u \in ToSet(file) : Room(u)
    /\ LET candidates == [k \in DOMAIN file |-> Candidate(file[k])] IN
       /\ object' = [s \in DOMAIN object \cup ToSet(candidates) |->
                       IF s \in DOMAIN object THEN object[s]
                       ELSE [egress |-> Unknown, disabled |-> FALSE]]
       /\ run' = [q \in Refreshes |->
                    IF q = r THEN [at |-> "probe", candidates |-> candidates,
                                   chosen |-> {}, alone |-> Alone(r)]
                    ELSE [run[q] EXCEPT !.alone = FALSE]]
    /\ UNCHANGED <<slots, file, world, dedupe, started, changes>>

Up(s) == world[s[1]] # Down

\* Faulty variant: every slot that answers.
AllAnswering(candidates, chosen) == ToSet(candidates)

\* Of those that leave through the same address, the one that answered first.
OnePerAddress(candidates, chosen) == chosen

Probed(r) ==
    /\ run[r].at = "probe"
    /\ LET up == {s \in ToSet(run[r].candidates) : Up(s)} IN
       /\ object' = [s \in DOMAIN object |->
                       IF s \in up THEN [object[s] EXCEPT !.egress = world[s[1]]]
                       ELSE object[s]]
       /\ \E chosen \in SUBSET up :
            /\ \A s \in up : \E t \in chosen : world[t[1]] = world[s[1]]
            /\ \A s, t \in chosen : s # t => world[t[1]] # world[s[1]]
            /\ run' = [run EXCEPT ![r].at = "publish",
                         ![r].chosen = OnePerAddress(run[r].candidates, chosen) \cap up]
    /\ UNCHANGED <<slots, file, world, dedupe, started, changes>>

\* The candidates that were chosen, by their places.
Picked(r) == {k \in DOMAIN run[r].candidates : run[r].candidates[k] \in run[r].chosen}

Rank(places, k) == Cardinality({j \in places : j <= k})

FirstPicked(r, size) ==
    [p \in 1 .. size |-> run[r].candidates[CHOOSE k \in Picked(r) : Rank(Picked(r), k) = p]]

\* Faulty variant: one less than wanted.
DynamicShort(r) ==
    FirstPicked(r, IF Cardinality(Picked(r)) < Target THEN Cardinality(Picked(r)) ELSE Target - 1)

\* In the order of the file, as many as wanted.
Dynamic(r) ==
    FirstPicked(r, IF Cardinality(Picked(r)) < Target THEN Cardinality(Picked(r)) ELSE Target)

Publish(r) ==
    /\ run[r].at = "publish"
    /\ LET list == BaseSlots \o Dynamic(r) IN
       slots' = IF list = <<>> THEN slots ELSE list
    /\ run' = [run EXCEPT ![r] = Resting]
    /\ started' = (started \/ slots' # <<>>)
    /\ object' = Retain(object, slots', run', dedupe)
    /\ UNCHANGED <<file, world, dedupe, changes>>

-----------------------------------------------------------------------------
(* probeAndDeduplicateStaticSlots *)

DedupeStart ==
    /\ dedupe.at = "start"
    /\ dedupe' = [at |-> "probe", list |-> slots]
    /\ UNCHANGED <<slots, object, file, world, run, started, changes>>

\* Faulty variant: the first of the list, be it the direct slot.
KeepsFirst(same) == Min(same)

\* Of the positions with the same address the first stays in service, a proxy
\* before the direct slot.  A slot that is listed twice is a duplicate of itself.
Keeps(same) ==
    LET proxies == {k \in same : dedupe.list[k][1] # Direct} IN
    Min(IF proxies = {} THEN same ELSE proxies)

DedupeProbed ==
    /\ dedupe.at = "probe"
    /\ LET list == dedupe.list
           SameAs(k) == {j \in DOMAIN list : world[list[j][1]] = world[list[k][1]]}
           out == {list[k] : k \in {k \in DOMAIN list : ~Up(list[k]) \/ k # Keeps(SameAs(k))}}
       IN  object' = [s \in DOMAIN object |->
                        IF s \notin ToSet(list) THEN object[s]
                        ELSE [egress |-> IF Up(s) THEN world[s[1]] ELSE object[s].egress,
                              disabled |-> s \in out]]
    /\ dedupe' = [dedupe EXCEPT !.at = "publish"]
    /\ UNCHANGED <<slots, file, world, run, started, changes>>

\* Faulty variant: slots that are out of service are left out of the list.
DedupePublishEnabled ==
    /\ dedupe.at = "publish"
    /\ slots' = SelectSeq(dedupe.list, LAMBDA s : ~object[s].disabled)
    /\ dedupe' = [at |-> "done", list |-> <<>>]
    /\ object' = Retain(object, slots', run, dedupe')
    /\ UNCHANGED <<file, world, run, started, changes>>

\* The slots that were read at the start, whatever has been published since.
DedupePublish ==
    /\ dedupe.at = "publish"
    /\ slots' = dedupe.list
    /\ dedupe' = [at |-> "done", list |-> <<>>]
    /\ object' = Retain(object, slots', run, dedupe')
    /\ UNCHANGED <<file, world, run, started, changes>>

-----------------------------------------------------------------------------
Change ==
    /\ changes < MaxChanges
    /\ changes' = changes + 1
    /\ \/ file' \in Files /\ UNCHANGED world
       \/ world' \in Worlds /\ UNCHANGED file
    /\ UNCHANGED <<slots, object, run, dedupe, started>>

ListNext ==
    \/ \E r \in Refreshes : StartRefresh(r) \/ Probed(r) \/ Publish(r)
    \/ DedupeStart \/ DedupeProbed \/ DedupePublish
    \/ Change

ListSpec == ListInit /\ [][ListNext]_listVars

\* An activity that has begun goes on.
ListProceeds ==
    \/ \E r \in Refreshes : Probed(r) \/ Publish(r)
    \/ DedupeStart \/ DedupeProbed \/ DedupePublish

\* The ticker of proxyRefreshLoop; probes have deadlines.
ListFairness ==
    /\ WF_listVars(ListProceeds)
    /\ WF_listVars(StartRefresh("loop"))

-----------------------------------------------------------------------------
(* Properties *)

\* The slots that follow the base slots.
Listed(list) == {list[k] : k \in Len(Base) + 1 .. Len(list)}

\* In whatever order the three activities replace the list, it has the base
\* slots in their places and then each URL of the file at most once
\* (gateway.go:355, 614).  A URL that is configured as well is listed a second
\* time, but as the same object, whose cooldowns hold in both places
\* (gateway.go:538-548, 609-610).
BaseStays ==
    /\ Len(Base) <= Len(slots) /\ \A k \in DOMAIN Base : slots[k] = BaseSlots[k]
    /\ IsInjective([k \in Len(Base) + 1 .. Len(slots) |-> slots[k][1]])
    /\ \A s \in Listed(slots) : s[1] \in ToSet(Base) => s \in ToSet(BaseSlots)

\* Of the base slots that leave through one address the start-up probe leaves
\* exactly one in service, and not the direct one if there is a proxy
\* (gateway.go:319-353).  None is left only where the slots of the file had been
\* listed already, and one of them has taken the place of the direct slot, or is
\* itself a base slot: that is its own duplicate and goes out of service.
OneInServicePerAddress ==
    [][dedupe.at = "probe" /\ dedupe'.at = "publish"
       => \A s \in ToSet(BaseSlots) : Up(s) =>
            LET same == {t \in ToSet(BaseSlots) : world[t[1]] = world[s[1]]}
                kept == {t \in same : ~object'[t].disabled}
            IN  \/ \E t \in kept : kept = {t} /\ (t[1] = Direct => same = kept)
                \/ /\ kept = {}
                   /\ \E t \in Listed(dedupe.list) :
                        /\ world[t[1]] = world[s[1]]
                        /\ t \in same \/ \A d \in same : d[1] = Direct]_listVars

\* A refresh that no other activity overlaps publishes slots with different
\* addresses only (gateway.go:577-590), and a URL that was in the list has the
\* object it had, cooldowns included (gateway.go:538-548).
RefreshKeepsSlots ==
    [][\A r \in Refreshes :
         /\ run[r].at = "publish" /\ run[r].alone /\ run'[r].at = "idle"
         /\ BaseSlots \o Dynamic(r) # <<>>
         => /\ \A s, t \in Listed(slots') : s # t => object[s].egress # object[t].egress
            /\ \A s \in ToSet(slots), t \in Listed(slots') :
                 s[1] = t[1] => t \in ToSet(slots)]_listVars

\* Once file and network are quiet the list has, for good, a slot for each
\* address that the proxies of the file lead to, as far as they are wanted:
\* what a start-up probe or an overlapping refresh has overwritten comes back.
ListServed ==
    LET there == {world[u] : u \in {u \in ToSet(file) : world[u] # Down}}
        served == {object[s].egress : s \in Listed(slots)}
    IN  <>[](served \subseteq there /\ (served = there \/ Cardinality(served) >= Target))
=============================================================================
