----------------------- MODULE EgressRotation_proofs -----------------------
(***************************************************************************)
(* What a rotation and a reconciliation leave behind, for any number of    *)
(* gateways, ports, nodes, addresses, events and failing calls.            *)
(*                                                                         *)
(* Three facts are carried through every step of an operation: the records *)
(* of the gateways are real but for the slot that is being rotated; what   *)
(* was read is still shown, unless something stirred; and the addresses    *)
(* that have been gone through belong to one instance each.                *)
(***************************************************************************)
EXTENDS EgressRotation, WellFoundedInduction, TLAPS

Kinds == {"none", "reconcile", "refresh", "manual"}
Steps == {"read", "dedup", "limits", "target", "group", "try", "probe", "restore",
          "reprobe", "refresh", "end"}
Reasons == {"none", "duplicate_egress", "upstream_429", "manual"}

Trying == {"try", "probe", "restore", "reprobe"}
InRotation == {"group"} \cup Trying

Slots(i) == DOMAIN SlotsOf[i]

Recordable == Egresses \cup {Unknown}

Gates(i) == [ active : Slots(i), egress : [Slots(i) -> Recordable],
              enabled : [Slots(i) -> BOOLEAN], limited : Nat ]

Summaries == [slot : Nat \ {0}, egress : Recordable, limited : Nat]

Ops == [ kind : Kinds, pc : Steps, at : Instances, slot : Nat,
         seen : [Instances -> {Absent} \cup Summaries],
         occupied : [Egresses -> {NoOne} \cup Instances],
         rotated : SUBSET Instances, failed : BOOLEAN,
         reason : Reasons, forbidden : SUBSET Recordable, now : Nodes, tries : Nat,
         stirred : BOOLEAN, hits : 0 .. 2 ]

Types ==
    /\ exit \in [Nodes -> Egresses]
    /\ picks \in [Ports -> Nodes]
    /\ gate = [i \in Instances |-> gate[i]] /\ \A i \in Instances : gate[i] \in Gates(i)
    /\ op \in Ops

\* The slot that is being rotated is the one that was shown, and the only one of
\* the instance unless it is rotated for a 429; the slots of a refresh exist.
OpSlots ==
    /\ op.pc \in InRotation =>
         Seen(op.at) /\ op.slot = op.seen[op.at].slot /\ Managed(op.at, op.slot)
    /\ op.pc \in InRotation /\ op.reason # "upstream_429" => Single(op.at)
    /\ op.pc = "refresh" => op.slot \in Slots(op.at)
    /\ op.kind = "manual" /\ op.pc = "read" => op.slot \in Instances
    /\ \A i \in Instances : Seen(i) => op.seen[i].slot \in Slots(i)

\* The record of a slot is real, but while the port is tried out.
Recorded(s) ==
    s \notin excused /\ ~(op.pc \in Trying /\ s = Here) =>
        (gate[s[1]].enabled[s[2]] => gate[s[1]].egress[s[2]] \in {Address(s[1], s[2]), Unknown})

RecordsInv == \A s \in AllSlots : Recorded(s)

-----------------------------------------------------------------------------
\* The gateway still shows what was read.
AsSeen(i) ==
    Seen(i) => /\ ShownSlot(gate[i]) = op.seen[i].slot
               /\ Shown(i) = op.seen[i].egress

\* The address it shows is noted as its own.
Noted(i) == op.occupied[Shown(i)] = i

\* The first pass is done with it: its address is noted if it is compared at
\* all, and it has been rotated or is as it was read.
Unmoved(i) == i \in op.rotated \/ AsSeen(i)

Done(i) == (Considered(i) => Noted(i)) /\ Unmoved(i)

AllApart == \A i, j \in Instances : i # j /\ Considered(i) /\ Considered(j) => Apart(i, j)

\* Gateway g shows slot k once k is in service.
WouldShow(g, k) ==
    \/ g.active = k
    \/ ~g.enabled[g.active] /\ \A j \in DOMAIN g.enabled \ {k} : g.enabled[j] => k <= j

\* Nothing is rotated before everything has been read.
Reading == op.pc = "read" /\ ~op.stirred => \A i \in Instances : AsSeen(i)

\* A rotation of the administrator.
ManualInv ==
    op.kind = "manual" =>
      /\ op.pc \in {"read", "target", "end"} \cup InRotation
      /\ op.pc = "target" /\ ~op.stirred => \A i \in Instances : AsSeen(i)
      /\ op.pc \in InRotation =>
           /\ op.reason = "manual" /\ Seen(op.at)
           /\ op.forbidden = {op.seen[j].egress : j \in {j \in Instances : Seen(j)}} \ {Unknown}
           /\ ~op.stirred => \A i \in Instances \ {op.at} : AsSeen(i)
      /\ op.pc = "end" /\ ~op.failed /\ ~op.stirred =>
           /\ Shown(op.at) # op.seen[op.at].egress
           /\ \A j \in Instances \ {op.at} : Seen(j) => Apart(op.at, j)

\* The passes of a reconciliation.
PassInv ==
    op.kind = "reconcile" =>
      /\ op.pc \in {"read", "dedup", "limits", "end"} \cup InRotation
      /\ op.pc \in {"read", "dedup"} => op.reason \in {"none", "duplicate_egress"}
      /\ op.pc \in {"limits", "end"} => op.reason = "upstream_429"
      /\ op.pc \in InRotation => op.reason \in {"duplicate_egress", "upstream_429"}
      /\ op.reason # "upstream_429" => op.hits = 0

\* The first pass is done with the instances before op.at, and the others are as
\* they were read; the rotation stays away from all that is noted.
FirstPassInv ==
    \A i \in Instances :
      /\ i < op.at => Done(i)
      /\ i > op.at => AsSeen(i)
      /\ op.pc = "dedup" /\ i = op.at => AsSeen(i)
      /\ op.pc \in InRotation => Occupied \subseteq op.forbidden

\* The second pass starts with all of them noted; what its first rotation finds
\* is apart from them.  It knows what an instance shows that it has not come to.
SecondPassInv ==
    /\ op.hits = 0 => \A i \in Instances :
         (op.pc \in InRotation /\ i = op.at) \/ (Considered(i) => Noted(i))
    /\ op.hits <= 1 /\ op.pc \notin InRotation => AllApart
    /\ op.pc \in InRotation => \A e \in Occupied : op.occupied[e] = op.at \/ e \in op.forbidden
    /\ \A i \in Instances : i > op.at \/ (op.pc = "limits" /\ i = op.at) => Unmoved(i)
    /\ op.pc \in InRotation => WouldShow(gate[op.at], op.slot)

ReconcileInv ==
    op.kind = "reconcile" /\ op.pc # "read" /\ ~op.failed /\ Informed =>
      IF op.reason = "upstream_429" THEN SecondPassInv ELSE FirstPassInv

RotationInv ==
    /\ Types /\ OpSlots
    /\ RecordsInv
    /\ Reading /\ ManualInv
    /\ PassInv /\ ReconcileInv

-----------------------------------------------------------------------------
(* Slots and ports *)

Before == {ss \in Nat \X Nat : ss[1] < ss[2]}

LEMMA LeastNatural ==
  ASSUME NEW S \in SUBSET Nat, S # {}
  PROVE  \E x \in S : \A y \in S : x <= y
<1>1. IsWellFoundedOn(Before, Nat)
  BY NatLessThanWellFounded DEF OpToRel, Before
<1>2. PICK x \in S : \A y \in S : ~(<<y, x>> \in Before)
  BY <1>1, WFMin
<1>3. \A y \in S : ~(y < x)
  BY <1>2 DEF Before
<1> QED
  BY <1>3

LEMMA PortTypes ==
  ASSUME NEW i \in Instances
  PROVE  /\ Slots(i) = 1 .. Len(SlotsOf[i]) /\ Len(SlotsOf[i]) \in Nat \ {0}
         /\ 1 \in Slots(i) /\ Slots(i) \subseteq Nat \ {0}
         /\ \A k \in Slots(i) : Port(i, k) \in Ports \cup Outside
         /\ Single(i) => Slots(i) = {1}
<1>1. SlotsOf[i] \in Seq(Ports \cup Outside) /\ SlotsOf[i] # <<>>
  BY RotationAssumption
<1>2. Slots(i) = 1 .. Len(SlotsOf[i]) /\ Len(SlotsOf[i]) \in Nat \ {0}
  BY <1>1 DEF Slots
<1>3. \A k \in Slots(i) : Port(i, k) \in Ports \cup Outside
  BY <1>1 DEF Slots, Port
<1>4. 1 \in Slots(i) /\ Slots(i) \subseteq Nat \ {0} /\ (Single(i) => Slots(i) = {1})
  <2>1. 1 .. 1 = {1}
    OBVIOUS
  <2>2. 1 \in Slots(i) /\ Slots(i) \subseteq Nat \ {0}
    BY <1>2
  <2> QED
    BY <1>2, <2>1, <2>2 DEF Single
<1> QED
  BY <1>2, <1>3, <1>4

LEMMA SlotPairs ==
  /\ \A s \in AllSlots : s[1] \in Instances /\ s[2] \in Slots(s[1]) /\ s = <<s[1], s[2]>>
  /\ \A i \in Instances : \A k \in Slots(i) : <<i, k>> \in AllSlots
<1>1. ASSUME NEW s \in AllSlots
      PROVE  s[1] \in Instances /\ s[2] \in Slots(s[1]) /\ s = <<s[1], s[2]>>
  BY DEF AllSlots, Slots
<1>2. ASSUME NEW i \in Instances, NEW k \in Slots(i) PROVE <<i, k>> \in AllSlots
  BY DEF AllSlots, Slots
<1> QED
  BY <1>1, <1>2

LEMMA AddressType ==
  ASSUME Types, NEW i \in Instances, NEW k \in Slots(i)
  PROVE  Address(i, k) \in Egresses
<1>1. CASE Managed(i, k)
  BY <1>1 DEF Types, Address, Managed
<1>2. CASE ~Managed(i, k)
  <2>1. Port(i, k) \in Outside
    BY <1>2, PortTypes DEF Managed
  <2> QED
    BY <1>2, <2>1, RotationAssumption DEF Address
<1> QED
  BY <1>1, <1>2

\* The slot that is shown exists; it is in service if any is.
LEMMA ShownSlotExists ==
  ASSUME NEW i \in Instances, NEW g \in Gates(i)
  PROVE  /\ ShownSlot(g) \in Slots(i)
         /\ g.enabled[g.active] => ShownSlot(g) = g.active
         /\ WouldShow(g, ShownSlot(g))
         /\ \A k \in Slots(i) : g.enabled[k] /\ WouldShow(g, k) => ShownSlot(g) = k
<1> DEFINE inService == {k \in Slots(i) : g.enabled[k]}
<1>1. DOMAIN g.enabled = Slots(i) /\ g.active \in Slots(i)
  BY DEF Gates
<1>2. inService # {} => \E k \in inService : \A j \in inService : k <= j
  BY LeastNatural, PortTypes
<1>3. ShownSlot(g) = IF g.active \in inService THEN g.active
                     ELSE IF inService = {} THEN 1
                     ELSE CHOOSE k \in inService : \A j \in inService : k <= j
  BY <1>1 DEF ShownSlot
<1>s. Slots(i) \subseteq Nat /\ 1 \in Slots(i) /\ inService \subseteq Slots(i)
  BY PortTypes
<1>4. CASE g.active \in inService
  BY <1>1, <1>3, <1>4 DEF WouldShow
<1>5. CASE g.active \notin inService /\ inService = {}
  BY <1>1, <1>3, <1>5, <1>s DEF WouldShow
<1>6. CASE g.active \notin inService /\ inService # {}
  <2>1. ShownSlot(g) \in inService /\ \A j \in inService : ShownSlot(g) <= j
    BY <1>2, <1>3, <1>6
  <2>2. ~g.enabled[g.active]
    BY <1>1, <1>6
  <2>3. WouldShow(g, ShownSlot(g))
    BY <1>1, <2>1, <2>2 DEF WouldShow
  <2>4. ASSUME NEW k \in Slots(i), g.enabled[k], WouldShow(g, k) PROVE ShownSlot(g) = k
    <3>1. k \in inService /\ k # g.active
      BY <1>6, <2>4
    <3>2. ShownSlot(g) <= k /\ (ShownSlot(g) = k \/ k <= ShownSlot(g))
      BY <1>1, <2>1, <2>4, <3>1 DEF WouldShow
    <3>3. k \in Nat /\ ShownSlot(g) \in Nat
      BY <1>s, <2>1
    <3> QED
      BY <3>2, <3>3
  <2> QED
    BY <1>s, <2>1, <2>2, <2>3, <2>4
<1> QED
  BY <1>4, <1>5, <1>6

LEMMA SummaryType ==
  ASSUME Types, NEW i \in Instances
  PROVE  /\ Summary(i) \in Summaries /\ Summary(i).slot \in Slots(i)
         /\ Summary(i) # Absent
         /\ Shown(i) \in Recordable
<1>1. gate[i] \in Gates(i) /\ ShownSlot(gate[i]) \in Slots(i)
  BY ShownSlotExists DEF Types
<1>2. ShownSlot(gate[i]) \in Nat \ {0}
  BY <1>1, PortTypes
<1>3. gate[i].egress[ShownSlot(gate[i])] \in Recordable /\ gate[i].limited \in Nat
  BY <1>1 DEF Gates
<1>4. Summary(i) = [slot |-> ShownSlot(gate[i]),
                    egress |-> gate[i].egress[ShownSlot(gate[i])],
                    limited |-> gate[i].limited]
  BY DEF Summary
<1>5. Summary(i) # Absent
  BY <1>2, <1>4 DEF Absent
<1> QED
  BY <1>1, <1>2, <1>3, <1>4, <1>5 DEF Summaries, Shown

LEMMA SeenType ==
  ASSUME Types, OpSlots, NEW i \in Instances, Seen(i)
  PROVE  /\ op.seen[i] \in Summaries /\ op.seen[i].egress \in Recordable
         /\ op.seen[i].slot \in Slots(i)
         /\ Considered(i) => op.seen[i].egress \in Egresses
<1>1. op.seen[i] \in Summaries
  BY DEF Types, Ops, Seen
<1> QED
  BY <1>1 DEF Summaries, OpSlots, Considered, Compared, Recordable

-----------------------------------------------------------------------------
(* What the operation does next *)

SameRest(o, a) ==
    /\ a.kind = o.kind /\ a.slot = o.slot /\ a.seen = o.seen /\ a.occupied = o.occupied
    /\ a.rotated = o.rotated /\ a.failed = o.failed /\ a.forbidden = o.forbidden
    /\ a.stirred = o.stirred /\ a.hits = o.hits

\* The loop goes on: with the next instance of the same pass, with the second
\* pass, or not at all.
GoesOn(o, a) ==
    /\ a \in Ops /\ SameRest(o, a)
    /\ \/ o.kind = "manual" /\ a.pc = "end" /\ a.at = o.at /\ a.reason = o.reason
       \/ /\ o.kind # "manual" /\ a.at = o.at + 1 /\ a.reason = o.reason
          /\ a.pc = (IF o.reason = "upstream_429" THEN "limits" ELSE "dedup")
       \/ /\ o.kind # "manual" /\ o.reason = "upstream_429" /\ o.at = NumInstances
          /\ a.pc = "end" /\ a.at = o.at /\ a.reason = o.reason
       \/ /\ o.kind # "manual" /\ o.reason # "upstream_429" /\ o.at = NumInstances
          /\ a.pc = "limits" /\ a.at = 1 /\ a.reason = "upstream_429"

LEMMA AdvancedGoesOn ==
  ASSUME NEW o \in Ops, o.pc # "end"
  PROVE  GoesOn(o, Advanced(o))
<1>at. o.at \in Instances /\ NumInstances \in Nat \ {0} /\ 1 \in Instances
       /\ (o.at < NumInstances => o.at + 1 \in Instances)
       /\ (o.at < NumInstances \/ o.at = NumInstances)
  BY RotationAssumption DEF Ops, Instances
<1>1. CASE o.kind = "manual"
  <2>1. Advanced(o) = [o EXCEPT !.pc = "end"]
    BY <1>1 DEF Advanced
  <2> QED
    BY <1>1, <2>1 DEF Ops, Steps, GoesOn, SameRest
<1>2. CASE o.kind # "manual" /\ o.at < NumInstances
  <2>1. Advanced(o) = [o EXCEPT !.at = o.at + 1,
                                !.pc = IF o.reason = "upstream_429" THEN "limits" ELSE "dedup"]
    BY <1>2 DEF Advanced
  <2> QED
    BY <1>at, <1>2, <2>1 DEF Ops, Steps, GoesOn, SameRest
<1>3. CASE o.kind # "manual" /\ o.at = NumInstances /\ o.reason = "upstream_429"
  <2>1. Advanced(o) = [o EXCEPT !.pc = "end"]
    BY <1>at, <1>3 DEF Advanced
  <2> QED
    BY <1>3, <2>1 DEF Ops, Steps, GoesOn, SameRest
<1>4. CASE o.kind # "manual" /\ o.at = NumInstances /\ o.reason # "upstream_429"
  <2>1. Advanced(o) = [o EXCEPT !.at = 1, !.pc = "limits", !.reason = "upstream_429"]
    BY <1>at, <1>4 DEF Advanced
  <2> QED
    BY <1>at, <1>4, <2>1 DEF Ops, Steps, Reasons, GoesOn, SameRest
<1> QED
  BY <1>at, <1>1, <1>2, <1>3, <1>4

LEMMA FailedGoesOn ==
  ASSUME NEW o \in Ops, o.pc # "end"
  PROVE  GoesOn([o EXCEPT !.failed = TRUE], Failed(o))
<1>1. [o EXCEPT !.failed = TRUE] \in Ops /\ [o EXCEPT !.failed = TRUE].pc # "end"
  BY DEF Ops
<1> QED
  BY <1>1, AdvancedGoesOn DEF Failed

WithNoted(o, e) == [o EXCEPT !.occupied = [o.occupied EXCEPT ![e] = o.at],
                             !.rotated = o.rotated \cup {o.at}]

WithHit(o) == [o EXCEPT !.hits = IF o.hits < 2 THEN o.hits + 1 ELSE 2]

LEMMA RotatedGoesOn ==
  ASSUME NEW o \in Ops, o.pc # "end", NEW e \in Egresses
  PROVE  /\ o.reason = "duplicate_egress" => GoesOn(WithNoted(o, e), Rotated(o, e))
         /\ o.reason = "upstream_429" => GoesOn(WithHit(o), Rotated(o, e))
         /\ o.reason \in {"none", "manual"} => GoesOn(o, Rotated(o, e))
<1>1. WithNoted(o, e) \in Ops /\ WithNoted(o, e).pc # "end"
  BY DEF WithNoted, Ops
<1>2. (IF o.hits < 2 THEN o.hits + 1 ELSE 2) \in 0 .. 2
  BY DEF Ops
<1>3. WithHit(o) \in Ops /\ WithHit(o).pc # "end"
  BY <1>2 DEF WithHit, Ops
<1>4. o.reason = "duplicate_egress" => Rotated(o, e) = Advanced(WithNoted(o, e))
  BY DEF Rotated, WithNoted
<1>5. o.reason = "upstream_429" => Rotated(o, e) = Advanced(WithHit(o))
  BY DEF Rotated, WithHit
<1>6. o.reason \in {"none", "manual"} => Rotated(o, e) = Advanced(o)
  BY DEF Rotated
<1> QED
  BY <1>1, <1>3, <1>4, <1>5, <1>6, AdvancedGoesOn

\* A rotation of the slot that op.at shows starts.
StartsRotation(reason, a) ==
    /\ a \in Ops /\ a.pc = "group" /\ a.reason = reason
    /\ a.kind = op.kind /\ a.at = op.at /\ a.seen = op.seen /\ a.occupied = op.occupied
    /\ a.failed = op.failed /\ a.stirred = op.stirred /\ a.hits = op.hits
    /\ a.rotated = op.rotated
    /\ a.slot = op.seen[op.at].slot
    /\ a.forbidden = Forbidden([op EXCEPT !.reason = reason], op.at)

LEMMA RotatingStarts ==
  ASSUME Types, OpSlots, NEW reason \in Reasons, Seen(op.at)
  PROVE  StartsRotation(reason, Rotating(op, reason))
<1> DEFINE r == [op EXCEPT !.reason = reason, !.slot = op.seen[op.at].slot]
           f == Forbidden(r, op.at)
<1>1. op \in Ops /\ op.at \in Instances
  BY DEF Types, Ops
<1>2. op.seen[op.at].slot \in Nat /\ op.seen[op.at].egress \in Recordable
  BY <1>1, SeenType, PortTypes
<1>3. r \in Ops /\ r.seen = op.seen /\ r.occupied = op.occupied /\ r.reason = reason
  BY <1>1, <1>2 DEF Ops
<1>4. f = Forbidden([op EXCEPT !.reason = reason], op.at)
  BY <1>1, <1>3 DEF Forbidden, Ops
<1>5. f \subseteq Recordable
  <2>1. \A j \in Instances : op.seen[j] # Absent => op.seen[j].egress \in Recordable
    BY SeenType DEF Seen
  <2> QED
    BY <1>2, <1>3, <2>1 DEF Forbidden, Recordable
<1>6. Rotating(op, reason) = [r EXCEPT !.forbidden = f, !.pc = "group"]
  BY DEF Rotating
<1> HIDE DEF f
<1>7. Rotating(op, reason) \in Ops
  BY <1>3, <1>5, <1>6, ZenonT(60) DEF Ops, Steps
<1>8. /\ Rotating(op, reason).pc = "group" /\ Rotating(op, reason).reason = reason
      /\ Rotating(op, reason).forbidden = f
      /\ Rotating(op, reason).slot = op.seen[op.at].slot
  BY <1>1, <1>2, <1>6 DEF Ops
<1> QED
  BY <1>1, <1>2, <1>4, <1>6, <1>7, <1>8 DEF StartsRotation, Ops

-----------------------------------------------------------------------------
(* What a probe does to a gateway *)

LEMMA ProbeGate ==
  ASSUME Types, NEW i \in Instances, NEW k \in Slots(i), ProbeOk(i, k) \/ ProbeFails(i, k)
  PROVE  /\ gate' = [j \in Instances |-> gate'[j]] /\ \A j \in Instances : gate'[j] \in Gates(j)
         /\ \A j \in Instances \ {i} : gate'[j] = gate[j]
         /\ gate'[i].active = gate[i].active
         /\ \A h \in Slots(i) \ {k} : /\ gate'[i].egress[h] = gate[i].egress[h]
                                      /\ gate'[i].enabled[h] = gate[i].enabled[h]
         /\ \/ ~gate'[i].enabled[k]
            \/ gate' = gate
            \/ gate'[i].egress[k] = Address(i, k) /\ gate'[i].enabled[k]
<1>g. gate[i] \in Gates(i) /\ gate = [j \in Instances |-> gate[j]]
      /\ \A j \in Instances : gate[j] \in Gates(j)
  BY DEF Types
<1>e. Address(i, k) \in Recordable
  BY AddressType DEF Recordable
<1>1. CASE gate' = gate
  BY <1>1, <1>g
<1>2. CASE gate' = [gate EXCEPT ![i].enabled[k] = FALSE]
  <2> DEFINE g == [gate[i] EXCEPT !.enabled = [gate[i].enabled EXCEPT ![k] = FALSE]]
  <2>1. gate' = [gate EXCEPT ![i] = g]
    BY <1>2
  <2>2. g \in Gates(i) /\ ~g.enabled[k] /\ g.active = gate[i].active
        /\ \A h \in Slots(i) \ {k} : g.egress[h] = gate[i].egress[h]
                                     /\ g.enabled[h] = gate[i].enabled[h]
    BY <1>g DEF Gates
  <2> HIDE DEF g
  <2> QED
    BY <1>g, <2>1, <2>2
<1>3. CASE gate' = [gate EXCEPT ![i].egress[k] = Address(i, k), ![i].enabled[k] = TRUE]
  <2> DEFINE g == [gate[i] EXCEPT !.egress = [gate[i].egress EXCEPT ![k] = Address(i, k)],
                                  !.enabled = [gate[i].enabled EXCEPT ![k] = TRUE]]
  <2>1. gate' = [gate EXCEPT ![i] = g]
    BY <1>3, <1>g DEF Gates
  <2>2. g \in Gates(i) /\ g.enabled[k] /\ g.egress[k] = Address(i, k) /\ g.active = gate[i].active
        /\ \A h \in Slots(i) \ {k} : g.egress[h] = gate[i].egress[h]
                                     /\ g.enabled[h] = gate[i].enabled[h]
    BY <1>g, <1>e DEF Gates
  <2> HIDE DEF g
  <2> QED
    BY <1>g, <2>1, <2>2
<1> QED
  BY <1>1, <1>2, <1>3 DEF ProbeOk, ProbeFails

LEMMA ProbeOkGate ==
  ASSUME Types, NEW i \in Instances, NEW k \in Slots(i), ProbeOk(i, k)
  PROVE  gate'[i].egress[k] = Address(i, k) /\ gate'[i].enabled[k]
<1>1. gate[i] \in Gates(i) /\ gate = [j \in Instances |-> gate[j]]
  BY DEF Types
<1>2. gate' = [gate EXCEPT ![i].egress[k] = Address(i, k), ![i].enabled[k] = TRUE]
  BY DEF ProbeOk
<1> QED
  BY <1>1, <1>2 DEF Gates

\* A slot that would be shown once in service is shown after a good probe, and
\* would still be after any probe of it.
LEMMA ProbeWouldShow ==
  ASSUME Types, NEW i \in Instances, NEW k \in Slots(i), ProbeOk(i, k) \/ ProbeFails(i, k),
         WouldShow(gate[i], k)
  PROVE  WouldShow(gate'[i], k)
<1>1. gate[i] \in Gates(i) /\ gate'[i] \in Gates(i)
  BY ProbeGate DEF Types
<1>2. /\ gate'[i].active = gate[i].active
      /\ \A h \in Slots(i) \ {k} : gate'[i].enabled[h] = gate[i].enabled[h]
  BY ProbeGate
<1>3. DOMAIN gate[i].enabled = Slots(i) /\ DOMAIN gate'[i].enabled = Slots(i)
      /\ gate[i].active \in Slots(i)
  BY <1>1 DEF Gates
<1> QED
  BY <1>2, <1>3 DEF WouldShow

-----------------------------------------------------------------------------
(* Types *)

LEMMA IdleType ==
  /\ Idle \in Ops /\ Idle.kind = "none" /\ Idle.pc = "end" /\ ~Idle.stirred /\ ~Idle.failed
  /\ Idle.reason = "none" /\ Idle.hits = 0 /\ Idle.slot = 1 /\ Idle.at = 1
  /\ \A i \in Instances : Idle.seen[i] = Absent
  /\ 1 \in Instances
<1>1. 1 \in Instances /\ 1 \in Nodes
  BY RotationAssumption DEF Instances, Nodes
<1> QED
  BY <1>1 DEF Idle, Ops, Kinds, Steps, Reasons

WorldTypes ==
    /\ exit \in [Nodes -> Egresses] /\ picks \in [Ports -> Nodes]
    /\ gate = [i \in Instances |-> gate[i]] /\ \A i \in Instances : gate[i] \in Gates(i)

OpTypes == op \in Ops /\ OpSlots

LEMMA TypesParts == Types /\ OpSlots <=> WorldTypes /\ OpTypes
BY DEF Types, WorldTypes, OpTypes

LEMMA InitTypes == Init => Types /\ OpSlots
<1> SUFFICES ASSUME Init PROVE Types /\ OpSlots
  OBVIOUS
<1>1. Ports \subseteq Nodes
  BY RotationAssumption DEF Ports, Nodes
<1>2. exit \in [Nodes -> Egresses] /\ picks \in [Ports -> Nodes]
  BY <1>1, RotationAssumption DEF Init
<1>3. ASSUME NEW i \in Instances, NEW dark PROVE Started(i, dark) \in Gates(i)
  <2>1. \A k \in Slots(i) : Address(i, k) \in Egresses
    BY <1>2, PortTypes, RotationAssumption DEF Address, Managed
  <2>2. 1 \in Slots(i)
    BY PortTypes
  <2> QED
    BY <2>1, <2>2 DEF Started, Gates, Slots, Recordable
<1>4. gate = [i \in Instances |-> gate[i]] /\ \A i \in Instances : gate[i] \in Gates(i)
  <2>1. PICK dark \in SUBSET AllSlots : gate = [i \in Instances |-> Started(i, dark)]
    BY DEF Init
  <2> QED
    BY <1>3, <2>1
<1>5. OpSlots
  BY IdleType DEF Init, OpSlots, Seen, InRotation, Trying
<1> QED
  BY <1>2, <1>4, <1>5, IdleType DEF Init, Types

\* The loop goes on.
LEMMA GoesOnTypes ==
  ASSUME OpTypes, NEW o \in Ops, o.seen = op.seen, GoesOn(o, op')
  PROVE  OpTypes'
<1>1. op' \in Ops /\ op'.seen = op.seen /\ op'.pc \in {"end", "dedup", "limits"}
  BY DEF GoesOn, SameRest
<1>2. OpSlots'
  BY <1>1 DEF OpTypes, OpSlots, Seen, InRotation, Trying
<1> QED
  BY <1>1, <1>2 DEF OpTypes

\* The rotation of the slot that was read.
LEMMA StartsTypes ==
  ASSUME OpTypes, Seen(op.at), SeenManaged(op.at), NEW reason, StartsRotation(reason, op'),
         reason # "upstream_429" => Single(op.at)
  PROVE  OpTypes'
<1>1. op' \in Ops /\ op'.pc = "group" /\ op'.at = op.at /\ op'.seen = op.seen
      /\ op'.slot = op.seen[op.at].slot /\ op'.reason = reason
  BY DEF StartsRotation
<1>2. Managed(op'.at, op'.slot)
  BY <1>1 DEF SeenManaged, SeenPort, Managed
<1>3. OpSlots'
  BY <1>1, <1>2 DEF OpTypes, OpSlots, Seen, InRotation, Single, Managed, Port
<1> QED
  BY <1>1, <1>3 DEF OpTypes

\* The rotation goes on at the same place.
LEMMA SamePlaceTypes ==
  ASSUME OpTypes, op' \in Ops, op.pc \in InRotation, op'.pc \in InRotation,
         op'.at = op.at, op'.slot = op.slot, op'.seen = op.seen, op'.reason = op.reason
  PROVE  OpTypes'
BY DEF OpTypes, OpSlots, Seen, InRotation, Trying, Single, Managed, Port

LEMMA BeginTypes ==
  ASSUME Begin("reconcile", 1) \/ Begin("refresh", 1) \/ \E i \in Instances : BeginManual(i)
  PROVE  OpTypes'
<1>0. 1 \in Slots(1) /\ \A i \in Instances : i \in Nat
  BY IdleType, PortTypes DEF Instances
<1>1. CASE Begin("reconcile", 1)
  <2>1. op' = [Idle EXCEPT !.kind = "reconcile", !.at = 1, !.pc = "read"]
    BY <1>1 DEF Begin
  <2> QED
    BY <1>0, <2>1, IdleType DEF OpTypes, OpSlots, Seen, InRotation, Trying, Ops, Kinds, Steps
<1>2. CASE Begin("refresh", 1)
  <2>1. op' = [Idle EXCEPT !.kind = "refresh", !.at = 1, !.pc = "refresh"]
    BY <1>2 DEF Begin
  <2> QED
    BY <1>0, <2>1, IdleType DEF OpTypes, OpSlots, Seen, InRotation, Trying, Ops, Kinds, Steps
<1>3. ASSUME NEW i \in Instances, BeginManual(i) PROVE OpTypes'
  <2>1. op' = [Idle EXCEPT !.kind = "manual", !.pc = "read", !.slot = i]
    BY <1>3 DEF BeginManual
  <2> QED
    BY <1>0, <2>1, IdleType DEF OpTypes, OpSlots, Seen, InRotation, Trying, Ops, Kinds, Steps
<1> QED
  BY <1>1, <1>2, <1>3

\* What Read does to the operation.
ReadResult(seen) ==
    /\ op' \in Ops
    /\ op'.seen = [op.seen EXCEPT ![op.at] = seen]
    /\ \/ op'.pc = "read" /\ op'.slot = op.slot
       \/ op.kind = "manual" /\ op'.pc = "target" /\ op'.at \in Instances
       \/ op.kind # "manual" /\ op'.pc = "dedup" /\ op'.at = 1
    /\ op'.kind = op.kind /\ op'.failed = op.failed /\ op'.stirred = op.stirred
    /\ op'.reason = op.reason /\ op'.hits = op.hits /\ op'.occupied = op.occupied

LEMMA ReadDoes ==
  ASSUME WorldTypes, OpTypes, Read
  PROVE  \E seen \in {Summary(op.at), Absent} : ReadResult(seen)
<1>1. op.pc = "read" /\ op \in Ops /\ op.at \in Instances
  BY DEF Read, OpTypes, Ops
<1>2. Summary(op.at) \in Summaries
  BY <1>1, SummaryType, TypesParts
<1>3. PICK seen \in {Summary(op.at), Absent} :
        op' = [op EXCEPT
                 !.seen[op.at] = seen,
                 !.at = IF op.at < NumInstances THEN op.at + 1
                        ELSE IF op.kind = "manual" THEN op.slot ELSE 1,
                 !.slot = IF op.at < NumInstances THEN op.slot ELSE 1,
                 !.pc = IF op.at < NumInstances THEN "read"
                        ELSE IF op.kind = "manual" THEN "target" ELSE "dedup"]
  BY DEF Read
<1>4. [op.seen EXCEPT ![op.at] = seen] \in [Instances -> {Absent} \cup Summaries]
  BY <1>1, <1>2 DEF Ops
<1>5. CASE op.at < NumInstances
  <2>1. op' = [op EXCEPT !.seen = [op.seen EXCEPT ![op.at] = seen],
                         !.at = op.at + 1, !.slot = op.slot, !.pc = "read"]
    BY <1>1, <1>3, <1>5 DEF Ops
  <2>2. op.at + 1 \in Instances
    BY <1>1, <1>5, RotationAssumption DEF Instances
  <2> QED
    BY <1>1, <1>4, <2>1, <2>2 DEF Ops, ReadResult
<1>6. CASE ~(op.at < NumInstances) /\ op.kind = "manual"
  <2>1. op' = [op EXCEPT !.seen = [op.seen EXCEPT ![op.at] = seen],
                         !.at = op.slot, !.slot = 1, !.pc = "target"]
    BY <1>1, <1>3, <1>6 DEF Ops
  <2>2. op.slot \in Instances
    BY <1>1, <1>6 DEF OpTypes, OpSlots
  <2> QED
    BY <1>1, <1>4, <1>6, <2>1, <2>2 DEF Ops, Steps, ReadResult
<1>7. CASE ~(op.at < NumInstances) /\ op.kind # "manual"
  <2>1. op' = [op EXCEPT !.seen = [op.seen EXCEPT ![op.at] = seen],
                         !.at = 1, !.slot = 1, !.pc = "dedup"]
    BY <1>1, <1>3, <1>7 DEF Ops
  <2> QED
    BY <1>1, <1>4, <1>7, <2>1, IdleType, ZenonT(60) DEF Ops, Steps, ReadResult
<1> QED
  BY <1>5, <1>6, <1>7

LEMMA ReadTypes ==
  ASSUME WorldTypes, OpTypes, Read
  PROVE  OpTypes'
<1>1. PICK seen \in {Summary(op.at), Absent} : ReadResult(seen)
  BY ReadDoes
<1>2. op.pc = "read" /\ op.at \in Instances /\ op.seen \in [Instances -> {Absent} \cup Summaries]
  BY DEF Read, OpTypes, Ops
<1>3. Summary(op.at).slot \in Slots(op.at)
  BY <1>2, SummaryType, TypesParts
<1>4. \A i \in Instances : op'.seen[i] # Absent => op'.seen[i].slot \in Slots(i)
  BY <1>1, <1>2, <1>3 DEF ReadResult, OpTypes, OpSlots, Seen
<1> QED
  BY <1>1, <1>2, <1>4 DEF ReadResult, OpTypes, OpSlots, Seen, InRotation, Trying

\* How the /admin/rotate of a gateway ends: without success, whatever has
\* become of the gateway, or on slot k.
Asking(reason) == [op EXCEPT !.reason = reason]

Refused(o) ==
    /\ GoesOn([o EXCEPT !.failed = TRUE], op')
    /\ gate' = gate \/ \E k \in Slots(op.at) : gate' = [gate EXCEPT ![op.at].active = k]

Moved(o, k) ==
    /\ gate[op.at].enabled[k] /\ gate[op.at].egress[k] \in Egresses
    /\ gate[op.at].egress[k] \notin Forbidden(o, op.at)
    /\ gate' = [gate EXCEPT ![op.at].active = k]
    /\ op' = Rotated(o, gate[op.at].egress[k])

LEMMA CandidateDoes ==
  ASSUME Types, op.pc # "end", NEW reason \in Reasons, Candidate(reason)
  PROVE  /\ Asking(reason) \in Ops
         /\ Refused(Asking(reason)) \/ \E k \in Slots(op.at) : Moved(Asking(reason), k)
<1> DEFINE o == Asking(reason)
<1>1. o \in Ops /\ op.at \in Instances /\ gate[op.at] \in Gates(op.at)
  BY DEF Types, Ops, Asking
<1>2. DOMAIN gate[op.at].enabled = Slots(op.at)
  BY <1>1 DEF Gates
<1>pc. o.pc # "end"
  BY <1>1 DEF Asking, Types, Ops
<1>3. GoesOn([o EXCEPT !.failed = TRUE], Failed(o))
  BY <1>1, <1>pc, FailedGoesOn
<1>4. \/ \E k \in Slots(op.at) \ {gate[op.at].active} :
           /\ gate[op.at].enabled[k] /\ gate[op.at].egress[k] # Unknown
           /\ gate[op.at].egress[k] \notin Forbidden(o, op.at)
           /\ gate' = [gate EXCEPT ![op.at].active = k]
           /\ op' = Rotated(o, gate[op.at].egress[k]) \/ op' = Failed(o)
      \/ op' = Failed(o) /\ gate' = gate
  BY <1>2 DEF Candidate, Asking
<1>e. \A k \in Slots(op.at) : gate[op.at].egress[k] \in Recordable
  BY <1>1 DEF Gates
<1> HIDE DEF o
<1>5. Refused(o) \/ \E k \in Slots(op.at) : Moved(o, k)
  BY <1>3, <1>4, <1>e DEF Refused, Moved, Recordable
<1> QED
  BY <1>1, <1>5 DEF o

LEMMA ActiveTypes ==
  ASSUME WorldTypes, NEW i \in Instances, NEW k \in Slots(i),
         gate' = [gate EXCEPT ![i].active = k]
  PROVE  /\ gate' = [j \in Instances |-> gate'[j]] /\ \A j \in Instances : gate'[j] \in Gates(j)
         /\ \A j \in Instances : /\ gate'[j].egress = gate[j].egress
                                 /\ gate'[j].enabled = gate[j].enabled
                                 /\ j # i => gate'[j] = gate[j]
         /\ gate'[i].active = k
<1>1. gate[i] \in Gates(i) /\ gate = [j \in Instances |-> gate[j]]
      /\ \A j \in Instances : gate[j] \in Gates(j)
  BY DEF WorldTypes
<1> DEFINE g == [gate[i] EXCEPT !.active = k]
<1>2. gate' = [gate EXCEPT ![i] = g]
  OBVIOUS
<1>3. g \in Gates(i) /\ g.egress = gate[i].egress /\ g.enabled = gate[i].enabled /\ g.active = k
  BY <1>1 DEF Gates
<1> HIDE DEF g
<1> QED
  BY <1>1, <1>2, <1>3

LEMMA CandidateTypes ==
  ASSUME WorldTypes, OpTypes, op.pc # "end", NEW reason \in Reasons, Candidate(reason),
         UNCHANGED <<exit, picks>>
  PROVE  WorldTypes' /\ OpTypes'
<1> DEFINE o == Asking(reason)
<1>1. Types /\ op.at \in Instances
  BY TypesParts DEF Types, Ops
<1>2. o \in Ops /\ (Refused(o) \/ \E k \in Slots(op.at) : Moved(o, k))
  BY <1>1, CandidateDoes
<1>3. o.pc # "end" /\ o.seen = op.seen /\ o.reason = reason
  BY DEF Asking, OpTypes, Ops
<1>4. WorldTypes'
  BY <1>1, <1>2, ActiveTypes DEF WorldTypes, Refused, Moved
<1> HIDE DEF o
<1>5. CASE Refused(o)
  <2>1. [o EXCEPT !.failed = TRUE] \in Ops /\ [o EXCEPT !.failed = TRUE].seen = op.seen
    BY <1>2, <1>3 DEF Ops
  <2> QED
    BY <1>4, <1>5, <2>1, GoesOnTypes DEF Refused
<1>6. ASSUME NEW k \in Slots(op.at), Moved(o, k) PROVE OpTypes'
  <2>1. gate[op.at].egress[k] \in Egresses
    BY <1>6 DEF Moved
  <2>2. \E m \in Ops : m.seen = op.seen /\ GoesOn(m, op')
    <3>1. WithNoted(o, gate[op.at].egress[k]) \in Ops /\ WithHit(o) \in Ops
          /\ WithNoted(o, gate[op.at].egress[k]).seen = op.seen /\ WithHit(o).seen = op.seen
      <4>1. (IF o.hits < 2 THEN o.hits + 1 ELSE 2) \in 0 .. 2
        BY <1>2 DEF Ops
      <4> QED
        BY <1>2, <1>3, <2>1, <4>1 DEF WithNoted, WithHit, Ops
    <3> QED
      BY <1>2, <1>3, <1>6, <2>1, <3>1, RotatedGoesOn DEF Moved, Reasons
  <2> QED
    BY <2>2, GoesOnTypes
<1> QED
  BY <1>2, <1>4, <1>5, <1>6

\* A rotation has found address e.
LEMMA RotatedTypes ==
  ASSUME OpTypes, op.pc # "end", NEW e \in Egresses, op' = Rotated(op, e)
  PROVE  OpTypes'
<1>1. op \in Ops
  BY DEF OpTypes
<1>2. WithNoted(op, e) \in Ops /\ WithHit(op) \in Ops
      /\ WithNoted(op, e).seen = op.seen /\ WithHit(op).seen = op.seen
  <2>1. (IF op.hits < 2 THEN op.hits + 1 ELSE 2) \in 0 .. 2
    BY <1>1 DEF Ops
  <2> QED
    BY <1>1, <2>1 DEF WithNoted, WithHit, Ops
<1>3. op.reason \in Reasons
  BY <1>1 DEF Ops
<1> QED
  BY <1>1, <1>2, <1>3, RotatedGoesOn, GoesOnTypes DEF Reasons

LEMMA FailedTypes ==
  ASSUME OpTypes, op.pc # "end", op' = Failed(op)
  PROVE  OpTypes'
<1>1. [op EXCEPT !.failed = TRUE] \in Ops /\ [op EXCEPT !.failed = TRUE].seen = op.seen
  BY DEF OpTypes, Ops
<1> QED
  BY <1>1, FailedGoesOn, GoesOnTypes DEF OpTypes

LEMMA AdvancedTypes ==
  ASSUME OpTypes, op.pc # "end", op' = Advanced(op)
  PROVE  OpTypes'
BY AdvancedGoesOn, GoesOnTypes DEF OpTypes

\* The place of a rotation.
LEMMA RotationPlace ==
  ASSUME OpTypes, op.pc \in InRotation
  PROVE  /\ op.at \in Instances /\ op.slot \in Slots(op.at)
         /\ HerePort \in Ports /\ Here \in AllSlots
         /\ op.reason # "upstream_429" => Slots(op.at) = {1}
<1>1. op.at \in Instances /\ op.slot \in Slots(op.at) /\ Managed(op.at, op.slot)
      /\ (op.reason # "upstream_429" => Single(op.at))
  BY DEF OpTypes, Ops, OpSlots
<1> QED
  BY <1>1, PortTypes, SlotPairs DEF HerePort, Here, Managed

LEMMA NextNodeType ==
  ASSUME OpTypes
  PROVE  NextNode \in Nodes
<1>1. op.now \in Nat /\ op.tries \in Nat /\ NumNodes \in Nat \ {0}
  BY RotationAssumption DEF OpTypes, Ops, Nodes
<1>2. \A x \in Nat, n \in Nat \ {0} : (x % n) + 1 \in 1 .. n
  OBVIOUS
<1>3. op.now + op.tries \in Nat
  BY <1>1
<1> QED
  BY <1>1, <1>2, <1>3 DEF NextNode, Nodes

LEMMA TryTypes ==
  ASSUME WorldTypes, OpTypes, Group \/ Try \/ GiveUp \/ Restore
  PROVE  WorldTypes' /\ OpTypes'
<1>p. op.pc \in InRotation => HerePort \in Ports
  BY RotationPlace
<1>o. op \in Ops
  BY DEF OpTypes
<1>1. CASE Group
  <2>1. UNCHANGED <<exit, picks, gate>> /\ op.pc = "group"
    BY <1>1 DEF Group, world
  <2>2. CASE op' = Failed(op)
    BY <2>1, <2>2, FailedTypes DEF WorldTypes
  <2>3. CASE op' = [op EXCEPT !.now = picks[HerePort], !.tries = 0, !.pc = "try"]
    <3>1. picks[HerePort] \in Nodes
      BY <1>p, <2>1 DEF WorldTypes, InRotation
    <3>2. op' \in Ops /\ op'.pc = "try" /\ op'.at = op.at /\ op'.slot = op.slot /\ op'.seen = op.seen /\ op'.reason = op.reason
      BY <1>o, <2>3, <3>1 DEF Ops, Steps
    <3> QED
      BY <2>1, <3>2, SamePlaceTypes DEF WorldTypes, InRotation, Trying
  <2> QED
    BY <1>1, <2>2, <2>3 DEF Group
<1>2. CASE Try
  <2>1. op.pc = "try" /\ UNCHANGED <<exit, gate>>
    BY <1>2 DEF Try
  <2>2. picks' \in [Ports -> Nodes]
    BY <1>2, <1>p, <2>1, NextNodeType
       DEF Try, SelectFails, SelectNode, WorldTypes, InRotation, Trying
  <2>3. PICK p \in {"try", "probe"} : op' = [op EXCEPT !.tries = op.tries + 1, !.pc = p]
    <3>1. \/ op' = [op EXCEPT !.tries = op.tries + 1]
          \/ op' = [op EXCEPT !.tries = op.tries + 1, !.pc = "probe"]
      BY <1>2 DEF Try
    <3>2. ASSUME op' = [op EXCEPT !.tries = op.tries + 1]
          PROVE  op' = [op EXCEPT !.tries = op.tries + 1, !.pc = "try"]
      BY <1>o, <2>1, <3>2 DEF Ops
    <3> QED
      BY <3>1, <3>2
  <2>4. op' \in Ops /\ op'.pc = p /\ op'.at = op.at /\ op'.slot = op.slot /\ op'.seen = op.seen /\ op'.reason = op.reason
    <3>1. op.tries + 1 \in Nat /\ p \in Steps
      BY <1>o DEF Ops, Steps
    <3> QED
      BY <1>o, <2>3, <3>1 DEF Ops
  <2> QED
    BY <2>1, <2>2, <2>4, SamePlaceTypes DEF WorldTypes, InRotation, Trying
<1>3. CASE GiveUp
  <2>1. UNCHANGED <<exit, picks, gate>> /\ op.pc = "try" /\ op' = [op EXCEPT !.pc = "restore"]
    BY <1>3 DEF GiveUp, Quiet
  <2>2. op' \in Ops /\ op'.pc = "restore" /\ op'.at = op.at /\ op'.slot = op.slot
        /\ op'.seen = op.seen /\ op'.reason = op.reason
    BY <1>o, <2>1 DEF Ops, Steps
  <2> QED
    BY <2>1, <2>2, SamePlaceTypes DEF WorldTypes, InRotation, Trying
<1>4. CASE Restore
  <2>1. UNCHANGED <<exit, gate>> /\ op.pc = "restore" /\ op' = [op EXCEPT !.pc = "reprobe"]
    BY <1>4 DEF Restore
  <2>2. op' \in Ops /\ op'.pc = "reprobe" /\ op'.at = op.at /\ op'.slot = op.slot
        /\ op'.seen = op.seen /\ op'.reason = op.reason
    BY <1>o, <2>1 DEF Ops, Steps
  <2>3. op.now \in Nodes
    BY <1>o DEF Ops
  <2>4. picks' \in [Ports -> Nodes]
    BY <1>4, <1>p, <2>1, <2>3
       DEF Restore, SelectFails, SelectNode, WorldTypes, InRotation, Trying
  <2> QED
    BY <2>1, <2>2, <2>4, SamePlaceTypes DEF WorldTypes, InRotation, Trying
<1> QED
  BY <1>1, <1>2, <1>3, <1>4

LEMMA NextSlotTypes ==
  ASSUME OpTypes, op.pc = "refresh", NextSlot
  PROVE  OpTypes'
<1>t. op \in Ops /\ op.at \in Instances /\ op.slot \in Slots(op.at)
  BY DEF OpTypes, Ops, OpSlots
<1>1. Slots(op.at) = 1 .. Len(SlotsOf[op.at]) /\ Len(SlotsOf[op.at]) \in Nat
  BY <1>t, PortTypes
<1>2. CASE op.slot < Len(SlotsOf[op.at])
  <2>1. op' = [op EXCEPT !.slot = op.slot + 1]
    BY <1>2 DEF NextSlot
  <2>2. op.slot + 1 \in Slots(op.at) /\ op.slot + 1 \in Nat
    BY <1>t, <1>1, <1>2
  <2>3. op' \in Ops /\ op'.pc = "refresh" /\ op'.at = op.at /\ op'.slot = op.slot + 1
        /\ op'.seen = op.seen /\ op'.reason = op.reason /\ op'.kind = op.kind
    BY <1>t, <2>1, <2>2 DEF Ops
  <2> QED
    BY <1>t, <2>2, <2>3 DEF OpTypes, OpSlots, Seen, InRotation, Trying
<1>3. CASE ~(op.slot < Len(SlotsOf[op.at])) /\ op.at < NumInstances
  <2>1. op' = [op EXCEPT !.at = op.at + 1, !.slot = 1]
    BY <1>3 DEF NextSlot
  <2>2. op.at + 1 \in Instances
    BY <1>t, <1>3, RotationAssumption DEF Instances
  <2>3. op' \in Ops /\ op'.pc = "refresh" /\ op'.at = op.at + 1 /\ op'.slot = 1
        /\ op'.seen = op.seen /\ op'.reason = op.reason /\ op'.kind = op.kind
    BY <1>t, <2>1, <2>2 DEF Ops
  <2> QED
    BY <1>t, <2>2, <2>3, PortTypes DEF OpTypes, OpSlots, Seen, InRotation, Trying
<1>4. CASE ~(op.slot < Len(SlotsOf[op.at])) /\ ~(op.at < NumInstances)
  <2>1. op' = [op EXCEPT !.pc = "end"]
    BY <1>4 DEF NextSlot
  <2>2. op' \in Ops /\ op'.pc = "end" /\ op'.seen = op.seen /\ op'.reason = op.reason
    BY <1>t, <2>1 DEF Ops, Steps
  <2> QED
    BY <1>t, <2>2 DEF OpTypes, OpSlots, Seen, InRotation, Trying
<1> QED
  BY <1>2, <1>3, <1>4

LEMMA ProbeTypes ==
  ASSUME WorldTypes, OpTypes, Probe \/ Reprobe \/ Refresh
  PROVE  WorldTypes' /\ OpTypes'
<1>t. Types /\ op \in Ops
  BY TypesParts DEF OpTypes
<1>0. op.at \in Instances /\ op.slot \in Slots(op.at) /\ op.pc \in {"probe", "reprobe", "refresh"}
  BY RotationPlace, <1>t DEF Probe, Reprobe, Refresh, InRotation, Trying, OpTypes, Ops, OpSlots
<1>1. UNCHANGED <<exit, picks>> /\ (ProbeOk(op.at, op.slot) \/ ProbeFails(op.at, op.slot))
  BY DEF Probe, Reprobe, Refresh
<1>2. WorldTypes'
  BY <1>t, <1>0, <1>1, ProbeGate DEF WorldTypes
<1>3. CASE Probe
  <2>1. op.pc = "probe" /\ Address(op.at, op.slot) \in Egresses
    BY <1>t, <1>0, <1>3, AddressType DEF Probe
  <2>2. CASE op' = [op EXCEPT !.pc = "try"]
    <3>1. op' \in Ops /\ op'.pc = "try" /\ op'.at = op.at /\ op'.slot = op.slot
          /\ op'.seen = op.seen /\ op'.reason = op.reason
      BY <1>t, <2>2 DEF Ops, Steps
    <3> QED
      BY <1>2, <2>1, <3>1, SamePlaceTypes DEF InRotation, Trying
  <2>3. CASE op' = Rotated(op, Address(op.at, op.slot))
    BY <1>2, <2>1, <2>3, RotatedTypes
  <2> QED
    BY <1>3, <2>2, <2>3 DEF Probe
<1>4. CASE Reprobe
  BY <1>2, <1>4, FailedTypes DEF Reprobe
<1>5. CASE Refresh
  BY <1>2, <1>5, NextSlotTypes DEF Refresh
<1> QED
  BY <1>3, <1>4, <1>5

LEMMA LookTypes ==
  ASSUME WorldTypes, OpTypes,
         DedupSkip \/ DedupOccupy \/ DedupRefused \/ DedupCandidate \/ DedupRotate
           \/ LimitsSkip \/ Limits \/ TargetGone \/ TargetCandidate \/ TargetRotate
           \/ RefreshSkip
  PROVE  WorldTypes' /\ OpTypes'
<1>t. Types /\ OpSlots /\ op \in Ops /\ op.at \in Instances
  BY TypesParts DEF OpTypes, Ops
<1>1. UNCHANGED <<exit, picks>>
  BY DEF DedupSkip, DedupOccupy, DedupRefused, DedupCandidate, DedupRotate, LimitsSkip,
     Limits, TargetGone, TargetCandidate, TargetRotate, RefreshSkip, Quiet
<1>2. CASE DedupCandidate \/ TargetCandidate
  BY <1>1, <1>2, CandidateTypes DEF DedupCandidate, Duplicate, TargetCandidate, Reasons
<1>3. CASE DedupSkip \/ LimitsSkip \/ DedupRefused \/ TargetGone
  <2>1. op.pc # "end" /\ UNCHANGED gate
    BY <1>3 DEF DedupSkip, LimitsSkip, DedupRefused, Duplicate, TargetGone
  <2>2. OpTypes'
    BY <1>3, <2>1, AdvancedTypes, FailedTypes DEF DedupSkip, LimitsSkip, DedupRefused, TargetGone
  <2> QED
    BY <1>1, <2>1, <2>2 DEF WorldTypes
<1>4. CASE DedupOccupy
  <2> DEFINE o == [op EXCEPT !.occupied = [op.occupied EXCEPT ![op.seen[op.at].egress] = op.at]]
  <2>1. op.pc = "dedup" /\ op' = Advanced(o) /\ UNCHANGED gate
    BY <1>4 DEF DedupOccupy
  <2>2. o \in Ops /\ o.pc = "dedup" /\ o.seen = op.seen
    BY <1>t, <2>1 DEF Ops
  <2> HIDE DEF o
  <2>3. OpTypes'
    BY <2>1, <2>2, AdvancedGoesOn, GoesOnTypes
  <2> QED
    BY <1>1, <2>1, <2>3 DEF WorldTypes
<1>5. CASE DedupRotate \/ TargetRotate
  <2>1. Seen(op.at) /\ Single(op.at) /\ SeenManaged(op.at) /\ UNCHANGED gate
        /\ \E reason \in Reasons : op' = Rotating(op, reason)
    BY <1>5 DEF DedupRotate, TargetRotate, Duplicate, Considered, Reasons
  <2>2. OpTypes'
    BY <1>t, <2>1, RotatingStarts, StartsTypes
  <2> QED
    BY <1>1, <2>1, <2>2 DEF WorldTypes
<1>6. CASE Limits
  <2>1. Seen(op.at) /\ UNCHANGED gate /\ op.pc = "limits"
    BY <1>6 DEF Limits
  <2>2. CASE op' = Advanced(op)
    BY <1>1, <2>1, <2>2, AdvancedTypes DEF WorldTypes
  <2>3. CASE NewlyLimited(op.at) /\ op' = Rotating(op, "upstream_429")
    <3>1. SeenManaged(op.at) /\ "upstream_429" \in Reasons
      BY <2>3 DEF NewlyLimited, Reasons
    <3>2. OpTypes'
      BY <1>t, <2>1, <2>3, <3>1, RotatingStarts, StartsTypes
    <3> QED
      BY <1>1, <2>1, <3>2 DEF WorldTypes
  <2> QED
    BY <1>6, <2>2, <2>3 DEF Limits
<1>7. CASE RefreshSkip
  BY <1>1, <1>7, NextSlotTypes DEF RefreshSkip, WorldTypes
<1> QED
  BY <1>2, <1>3, <1>4, <1>5, <1>6, <1>7

\* What others do while the operation goes on; it only learns that something
\* was done.
LEMMA StirredOp ==
  ASSUME OpTypes, op' = IF op = Idle THEN op ELSE [op EXCEPT !.stirred = TRUE]
  PROVE  /\ OpTypes'
         /\ (op' = op /\ op = Idle) \/ op'.stirred
         /\ op'.kind = op.kind /\ op'.pc = op.pc /\ op'.at = op.at /\ op'.slot = op.slot
         /\ op'.seen = op.seen /\ op'.occupied = op.occupied /\ op'.failed = op.failed
         /\ op'.reason = op.reason /\ op'.forbidden = op.forbidden /\ op'.hits = op.hits
<1>o. op \in Ops
  BY DEF OpTypes
<1>1. CASE op = Idle
  BY <1>1 DEF OpTypes, OpSlots, Seen
<1>2. CASE op # Idle
  <2>1. op' = [op EXCEPT !.stirred = TRUE]
    BY <1>2
  <2>2. /\ op' \in Ops /\ op'.stirred
        /\ op'.kind = op.kind /\ op'.pc = op.pc /\ op'.at = op.at /\ op'.slot = op.slot
        /\ op'.seen = op.seen /\ op'.occupied = op.occupied /\ op'.failed = op.failed
        /\ op'.reason = op.reason /\ op'.forbidden = op.forbidden /\ op'.hits = op.hits
    BY <1>o, <2>1 DEF Ops
  <2>3. OpSlots'
    BY <2>2 DEF OpTypes, OpSlots, Seen, InRotation, Trying
  <2> QED
    BY <2>2, <2>3 DEF OpTypes
<1> QED
  BY <1>1, <1>2

LEMMA EventTypes ==
  ASSUME WorldTypes, OpTypes,
         Resubscribe \/ (\E i \in Instances : GatewaySwitches(i) \/ GatewayLimited(i))
           \/ \E n \in Nodes : NodeMoves(n)
  PROVE  WorldTypes' /\ OpTypes'
<1>1. OpTypes'
  BY StirredOp DEF Resubscribe, GatewaySwitches, GatewayLimited, NodeMoves, Event
<1>2. CASE Resubscribe
  <2>1. Ports \subseteq Nodes
    BY RotationAssumption DEF Ports, Nodes
  <2> QED
    BY <1>1, <1>2, <2>1, RotationAssumption DEF Resubscribe, WorldTypes
<1>3. ASSUME NEW i \in Instances, GatewaySwitches(i) PROVE WorldTypes'
  <2>1. PICK k \in Slots(i) : gate' = [gate EXCEPT ![i].active = k]
    BY <1>3 DEF GatewaySwitches, Slots
  <2> QED
    BY <1>3, <2>1, ActiveTypes DEF WorldTypes, GatewaySwitches
<1>4. ASSUME NEW i \in Instances, GatewayLimited(i) PROVE WorldTypes'
  <2>1. gate' = [gate EXCEPT ![i] = [gate[i] EXCEPT !.limited = gate[i].limited + 1]]
    BY <1>4 DEF GatewayLimited
  <2>2. [gate[i] EXCEPT !.limited = gate[i].limited + 1] \in Gates(i)
    BY DEF WorldTypes, Gates
  <2> QED
    BY <1>4, <2>1, <2>2 DEF WorldTypes, GatewayLimited
<1>5. ASSUME NEW n \in Nodes, NodeMoves(n) PROVE WorldTypes'
  BY <1>5 DEF NodeMoves, WorldTypes
<1> QED
  BY <1>1, <1>2, <1>3, <1>4, <1>5

LEMMA NextTypes ==
  ASSUME Types, OpSlots, [Next]_vars
  PROVE  Types' /\ OpSlots'
<1>t. WorldTypes /\ OpTypes
  BY TypesParts
<1> DEFINE Goal == WorldTypes' /\ OpTypes'
<1>1. ASSUME BeginReconcile \/ BeginRefresh \/ \E i \in Instances : BeginManual(i) PROVE Goal
  <2>1. UNCHANGED world
    BY <1>1 DEF BeginReconcile, BeginRefresh, Begin, BeginManual
  <2>2. OpTypes'
    BY <1>1, BeginTypes DEF BeginReconcile, BeginRefresh
  <2> QED
    BY <1>t, <2>1, <2>2 DEF world, WorldTypes
<1>2. ASSUME Resubscribe \/ (\E i \in Instances : GatewaySwitches(i) \/ GatewayLimited(i))
               \/ \E n \in Nodes : NodeMoves(n)
      PROVE  Goal
  BY <1>t, <1>2, EventTypes
<1>3. ASSUME Read PROVE Goal
  <2>1. UNCHANGED world
    BY <1>3 DEF Read
  <2> QED
    BY <1>t, <1>3, <2>1, ReadTypes DEF world, WorldTypes
<1>4. ASSUME DedupSkip \/ DedupOccupy \/ DedupRefused \/ DedupCandidate \/ DedupRotate
               \/ LimitsSkip \/ Limits \/ TargetGone \/ TargetCandidate \/ TargetRotate
               \/ RefreshSkip
      PROVE  Goal
  BY <1>t, <1>4, LookTypes
<1>5. ASSUME Group \/ Try \/ GiveUp \/ Restore PROVE Goal
  BY <1>t, <1>5, TryTypes
<1>6. ASSUME Probe \/ Reprobe \/ Refresh PROVE Goal
  BY <1>t, <1>6, ProbeTypes
<1>7. ASSUME End PROVE Goal
  BY <1>t, <1>7, IdleType DEF End, world, WorldTypes, OpTypes, OpSlots, Seen, InRotation, Trying
<1>8. ASSUME UNCHANGED vars PROVE Goal
  BY <1>t, <1>8 DEF vars, WorldTypes, OpTypes, OpSlots, Seen
<1>9. Goal
  <2> HIDE DEF Goal
  <2> QED
    BY <1>1, <1>2, <1>3, <1>4, <1>5, <1>6, <1>7, <1>8 DEF Next, Work
<1>10. (Types /\ OpSlots)' <=> (WorldTypes /\ OpTypes)'
  BY DEF Types, WorldTypes, OpTypes
<1> QED
  BY <1>9, <1>10

-----------------------------------------------------------------------------
(* The records of the gateways *)

\* No record, no address and no place changes; more may be excused.
LEMMA RecordsKept ==
  ASSUME RecordsInv, UNCHANGED <<exit, picks>>, excused \subseteq excused',
         \A i \in Instances : gate'[i].egress = gate[i].egress /\ gate'[i].enabled = gate[i].enabled,
         op.pc \in Trying => op'.pc \in Trying /\ op'.at = op.at /\ op'.slot = op.slot
  PROVE  RecordsInv'
<1> SUFFICES ASSUME NEW s \in AllSlots PROVE Recorded(s)'
  BY DEF RecordsInv
<1>1. Recorded(s) /\ s[1] \in Instances
  BY SlotPairs DEF RecordsInv
<1>2. Address(s[1], s[2])' = Address(s[1], s[2])
  BY DEF Address
<1> QED
  BY <1>1, <1>2 DEF Recorded, Here

\* The active slot of a gateway changes.
LEMMA ActiveRecords ==
  ASSUME WorldTypes, NEW i \in Instances, NEW k,
         gate' = gate \/ gate' = [gate EXCEPT ![i].active = k]
  PROVE  \A j \in Instances : /\ gate'[j].egress = gate[j].egress
                              /\ gate'[j].enabled = gate[j].enabled
<1> SUFFICES ASSUME NEW j \in Instances, gate' = [gate EXCEPT ![i].active = k]
             PROVE  gate'[j].egress = gate[j].egress /\ gate'[j].enabled = gate[j].enabled
  OBVIOUS
<1>1. gate' = [gate EXCEPT ![i] = [gate[i] EXCEPT !.active = k]]
  OBVIOUS
<1>2. gate'[i].egress = gate[i].egress /\ gate'[i].enabled = gate[i].enabled
  <2>1. gate'[i] = [gate[i] EXCEPT !.active = k]
    BY <1>1 DEF WorldTypes
  <2> QED
    BY <2>1 DEF WorldTypes, Gates
<1>3. j # i => gate'[j] = gate[j]
  BY <1>1 DEF WorldTypes
<1> QED
  BY <1>2, <1>3

\* A probe records the real address or takes the slot out of service; where it
\* leaves the old record, that one was real or is excused.
LEMMA ProbeRecords ==
  ASSUME Types, RecordsInv, NEW i \in Instances, NEW k \in Slots(i), UNCHANGED <<exit, picks>>,
         \/ ProbeOk(i, k)
         \/ /\ ProbeFails(i, k) /\ excused \subseteq excused'
            /\ \/ op.pc \notin Trying
               \/ op'.pc \in Trying /\ Here' = <<i, k>>
               \/ <<i, k>> \in excused',
         op.pc \in Trying => Here = <<i, k>>
  PROVE  RecordsInv'
<1> SUFFICES ASSUME NEW s \in AllSlots, ~(op'.pc \in Trying /\ s = Here'), s \notin excused',
                    gate'[s[1]].enabled[s[2]]
             PROVE  gate'[s[1]].egress[s[2]] \in {Address(s[1], s[2])', Unknown}
  BY DEF RecordsInv, Recorded
<1>1. Recorded(s) /\ s[1] \in Instances /\ s[2] \in Slots(s[1]) /\ s = <<s[1], s[2]>>
  BY SlotPairs DEF RecordsInv
<1>2. Address(s[1], s[2])' = Address(s[1], s[2])
  BY DEF Address
<1>3. CASE s # <<i, k>>
  <2>1. s \notin excused
    BY <1>3 DEF ProbeOk
  <2>2. s[1] # i \/ s[2] # k
    BY <1>1, <1>3
  <2>3. /\ gate'[s[1]].egress[s[2]] = gate[s[1]].egress[s[2]]
        /\ gate'[s[1]].enabled[s[2]] = gate[s[1]].enabled[s[2]]
    <3>1. ProbeOk(i, k) \/ ProbeFails(i, k)
      OBVIOUS
    <3>2. s[1] # i => gate'[s[1]] = gate[s[1]]
      BY <1>1, <3>1, ProbeGate
    <3>3. s[1] = i => s[2] \in Slots(i) \ {k}
      BY <1>1, <2>2
    <3>4. \A h \in Slots(i) \ {k} : gate'[i].egress[h] = gate[i].egress[h]
                                     /\ gate'[i].enabled[h] = gate[i].enabled[h]
      BY <3>1, ProbeGate
    <3> QED
      BY <3>2, <3>3, <3>4, ZenonT(60)
  <2>4. ~(op.pc \in Trying /\ s = Here)
    BY <1>3
  <2> QED
    BY <1>1, <1>2, <2>1, <2>3, <2>4 DEF Recorded
<1>4. CASE s = <<i, k>>
  <2>0. s[1] = i /\ s[2] = k
    BY <1>4
  <2>1. CASE gate'[i].egress[k] = Address(i, k)
    BY <1>2, <2>0, <2>1
  <2>2. CASE gate'[i].egress[k] # Address(i, k)
    <3>1. gate' = gate /\ ~ProbeOk(i, k)
      BY <2>0, <2>2, ProbeGate, ProbeOkGate
    <3>2. s \notin excused /\ op.pc \notin Trying
      BY <1>4, <3>1 DEF ProbeOk
    <3> QED
      BY <1>1, <1>2, <3>1, <3>2 DEF Recorded
  <2> QED
    BY <2>1, <2>2
<1> QED
  BY <1>3, <1>4

\* The rotation selects a node: the neighbours are excused, its own slot is
\* about to be probed.
LEMMA SelectRecords ==
  ASSUME WorldTypes, OpTypes, RecordsInv, op.pc \in Trying, NEW n, SelectNode(n),
         UNCHANGED <<exit, gate>>, op'.pc \in Trying, op'.at = op.at, op'.slot = op.slot
  PROVE  RecordsInv'
<1> SUFFICES ASSUME NEW s \in AllSlots PROVE Recorded(s)'
  BY DEF RecordsInv
<1>1. Recorded(s) /\ s[1] \in Instances /\ s[2] \in Slots(s[1])
  BY SlotPairs DEF RecordsInv
<1>2. Here' = Here /\ excused \subseteq excused'
  BY DEF Here, SelectNode
<1>3. CASE s = Here \/ s \in Neighbours
  BY <1>2, <1>3 DEF Recorded, SelectNode
<1>4. CASE s # Here /\ s \notin Neighbours
  <2>1. Port(s[1], s[2]) # HerePort
    BY <1>4 DEF Neighbours
  <2>2. Managed(s[1], s[2]) => picks'[Port(s[1], s[2])] = picks[Port(s[1], s[2])]
    BY <2>1 DEF SelectNode, WorldTypes, Managed
  <2>3. Address(s[1], s[2])' = Address(s[1], s[2])
    BY <2>2 DEF Address
  <2> QED
    BY <1>1, <1>2, <1>4, <2>3 DEF Recorded
<1> QED
  BY <1>3, <1>4

\* Steps that neither select nor probe.
LEMMA LookRecords ==
  ASSUME WorldTypes, OpTypes, RecordsInv,
         Begin("reconcile", 1) \/ Begin("refresh", 1) \/ (\E i \in Instances : BeginManual(i))
           \/ Read \/ DedupSkip \/ DedupOccupy \/ DedupRefused \/ DedupCandidate \/ DedupRotate
           \/ LimitsSkip \/ Limits \/ TargetGone \/ TargetCandidate \/ TargetRotate
           \/ Group \/ RefreshSkip \/ End
  PROVE  RecordsInv'
<1>1. UNCHANGED <<exit, picks, excused>>
  BY DEF Begin, BeginManual, Read, DedupSkip, DedupOccupy, DedupRefused, DedupCandidate,
     DedupRotate, LimitsSkip, Limits, TargetGone, TargetCandidate, TargetRotate, Group, End,
     RefreshSkip, world, history, Quiet
<1>2. op.pc \notin Trying
  BY IdleType DEF Begin, BeginManual, Read, DedupSkip, DedupOccupy, DedupRefused, DedupCandidate,
     DedupRotate, LimitsSkip, Limits, TargetGone, TargetCandidate, TargetRotate, Group, End,
     RefreshSkip, Duplicate, Trying
<1>3. \A j \in Instances : gate'[j].egress = gate[j].egress /\ gate'[j].enabled = gate[j].enabled
  <2>1. CASE DedupCandidate \/ TargetCandidate
    <3>1. op.at \in Instances
      BY DEF OpTypes, Ops
    <3>2. \E k : gate' = gate \/ gate' = [gate EXCEPT ![op.at].active = k]
      BY <2>1 DEF DedupCandidate, TargetCandidate, Candidate
    <3> QED
      BY <3>1, <3>2, ActiveRecords
  <2>2. CASE gate' = gate
    BY <2>2
  <2>3. DedupCandidate \/ TargetCandidate \/ gate' = gate
    BY DEF Begin, BeginManual, Read, DedupSkip, DedupOccupy, DedupRefused, DedupRotate,
       LimitsSkip, Limits, TargetGone, TargetRotate, Group, RefreshSkip, End, world
  <2> QED
    BY <2>1, <2>2, <2>3
<1> QED
  BY <1>1, <1>2, <1>3, RecordsKept

LEMMA TryRecords ==
  ASSUME WorldTypes, OpTypes, RecordsInv, Try \/ GiveUp \/ Restore
  PROVE  RecordsInv'
<1>1. op.pc \in Trying /\ UNCHANGED <<exit, gate>>
  BY DEF Try, GiveUp, Restore, Quiet, Trying
<1>2. op'.pc \in Trying /\ op'.at = op.at /\ op'.slot = op.slot
  BY <1>1 DEF Try, GiveUp, Restore, Trying, OpTypes, Ops
<1>3. (\E n : SelectNode(n)) \/ UNCHANGED <<picks, excused>>
  BY DEF Try, GiveUp, Restore, SelectFails, Quiet
<1> QED
  BY <1>1, <1>2, <1>3, SelectRecords, RecordsKept

LEMMA ProbedRecords ==
  ASSUME WorldTypes, OpTypes, RecordsInv, Probe \/ Reprobe \/ Refresh
  PROVE  RecordsInv'
<1>t. Types /\ op \in Ops
  BY TypesParts DEF OpTypes
<1>0. op.at \in Instances /\ op.slot \in Slots(op.at) /\ op.pc \in {"probe", "reprobe", "refresh"}
  BY RotationPlace, <1>t DEF Probe, Reprobe, Refresh, InRotation, Trying, OpTypes, Ops, OpSlots
<1>1. UNCHANGED <<exit, picks>> /\ Here = <<op.at, op.slot>>
  BY DEF Probe, Reprobe, Refresh, Here
<1>2. CASE ProbeOk(op.at, op.slot)
  BY <1>t, <1>0, <1>1, <1>2, ProbeRecords
<1>3. CASE ~ProbeOk(op.at, op.slot)
  <2>1. ProbeFails(op.at, op.slot) /\ excused \subseteq excused'
    BY <1>3 DEF Probe, Reprobe, Refresh
  <2>2. \/ op.pc \notin Trying
        \/ op'.pc \in Trying /\ Here' = <<op.at, op.slot>>
        \/ <<op.at, op.slot>> \in excused'
    <3>1. CASE Probe
      <4>1. op' = [op EXCEPT !.pc = "try"]
        BY <1>3, <3>1 DEF Probe
      <4>2. op'.pc = "try" /\ op'.at = op.at /\ op'.slot = op.slot
        BY <1>t, <4>1 DEF Ops
      <4> QED
        BY <4>2 DEF Here, Trying
    <3>2. CASE Reprobe
      BY <1>1, <1>3, <3>2 DEF Reprobe
    <3>3. CASE Refresh
      BY <3>3 DEF Refresh, Trying
    <3> QED
      BY <3>1, <3>2, <3>3
  <2> QED
    BY <1>t, <1>0, <1>1, <2>1, <2>2, ProbeRecords
<1> QED
  BY <1>2, <1>3

LEMMA EventRecords ==
  ASSUME WorldTypes, OpTypes, RecordsInv,
         Resubscribe \/ (\E i \in Instances : GatewaySwitches(i) \/ GatewayLimited(i))
           \/ (\E n \in Nodes : NodeMoves(n))
  PROVE  RecordsInv'
<1>0. op'.pc = op.pc /\ op'.at = op.at /\ op'.slot = op.slot
  BY StirredOp DEF Resubscribe, GatewaySwitches, GatewayLimited, NodeMoves, Event
<1>1. CASE Resubscribe
  BY <1>1 DEF Resubscribe, RecordsInv, Recorded
<1>2. ASSUME NEW i \in Instances, GatewaySwitches(i) PROVE RecordsInv'
  <2>1. (\E k : gate' = [gate EXCEPT ![i].active = k]) /\ UNCHANGED <<exit, picks, excused>>
    BY <1>2 DEF GatewaySwitches
  <2> QED
    BY <1>0, <2>1, ActiveRecords, RecordsKept
<1>3. ASSUME NEW i \in Instances, GatewayLimited(i) PROVE RecordsInv'
  <2>1. gate' = [gate EXCEPT ![i] = [gate[i] EXCEPT !.limited = gate[i].limited + 1]]
        /\ UNCHANGED <<exit, picks, excused>>
    BY <1>3 DEF GatewayLimited
  <2>2. /\ [gate[i] EXCEPT !.limited = gate[i].limited + 1].egress = gate[i].egress
        /\ [gate[i] EXCEPT !.limited = gate[i].limited + 1].enabled = gate[i].enabled
    BY DEF WorldTypes, Gates
  <2>3. \A j \in Instances : gate'[j].egress = gate[j].egress /\ gate'[j].enabled = gate[j].enabled
    BY <2>1, <2>2 DEF WorldTypes
  <2> QED
    BY <1>0, <2>1, <2>3, RecordsKept
<1>4. ASSUME NEW n \in Nodes, NodeMoves(n) PROVE RecordsInv'
  <2> SUFFICES ASSUME NEW s \in AllSlots, s \notin excused' PROVE Recorded(s)'
    BY DEF RecordsInv, Recorded
  <2>1. /\ Recorded(s) /\ s \notin excused
        /\ Managed(s[1], s[2]) => picks[Port(s[1], s[2])] # n
    BY <1>4 DEF NodeMoves, RecordsInv
  <2>2. UNCHANGED <<picks, gate>> /\ \E e : exit' = [exit EXCEPT ![n] = e]
    BY <1>4 DEF NodeMoves
  <2>3. Managed(s[1], s[2]) => picks[Port(s[1], s[2])] \in Nodes
    BY DEF WorldTypes, Managed
  <2>4. Address(s[1], s[2])' = Address(s[1], s[2])
    BY <2>1, <2>2, <2>3 DEF Address, WorldTypes
  <2> QED
    BY <1>0, <2>1, <2>2, <2>4 DEF Recorded, Here
<1> QED
  BY <1>1, <1>2, <1>3, <1>4

LEMMA InitRecords == Init => RecordsInv
<1> SUFFICES ASSUME Init, NEW s \in AllSlots
             PROVE  gate[s[1]].egress[s[2]] \in {Address(s[1], s[2]), Unknown}
  BY DEF RecordsInv, Recorded
<1>1. s[1] \in Instances /\ s[2] \in Slots(s[1])
  BY SlotPairs
<1>2. PICK dark \in SUBSET AllSlots : gate[s[1]] = Started(s[1], dark)
  BY <1>1 DEF Init
<1> QED
  BY <1>1, <1>2 DEF Started, Slots

LEMMA NextRecords ==
  ASSUME Types, OpSlots, RecordsInv, [Next]_vars
  PROVE  RecordsInv'
<1>t. WorldTypes /\ OpTypes
  BY TypesParts
<1>1. CASE BeginReconcile \/ BeginRefresh \/ (\E i \in Instances : BeginManual(i)) \/ End \/ Group
           \/ RefreshSkip
           \/ Read \/ DedupSkip \/ DedupOccupy \/ DedupRefused \/ DedupCandidate \/ DedupRotate
           \/ LimitsSkip \/ Limits \/ TargetGone \/ TargetCandidate \/ TargetRotate
  BY <1>t, <1>1, LookRecords DEF BeginReconcile, BeginRefresh
<1>2. CASE Resubscribe \/ (\E i \in Instances : GatewaySwitches(i) \/ GatewayLimited(i))
           \/ (\E n \in Nodes : NodeMoves(n))
  BY <1>t, <1>2, EventRecords
<1>3. CASE Try \/ GiveUp \/ Restore
  BY <1>t, <1>3, TryRecords
<1>4. CASE Probe \/ Reprobe \/ Refresh
  BY <1>t, <1>4, ProbedRecords
<1>5. CASE UNCHANGED vars
  BY <1>5, RecordsKept DEF vars
<1> QED
  BY <1>1, <1>2, <1>3, <1>4, <1>5 DEF Next, Work

-----------------------------------------------------------------------------
(* What the gateways show *)

LEMMA ShowsActive ==
  ASSUME WorldTypes, NEW i \in Instances, NEW k \in Slots(i), gate[i].enabled[k],
         gate' = [gate EXCEPT ![i].active = k]
  PROVE  Shown(i)' = gate[i].egress[k] /\ \A j \in Instances \ {i} : gate'[j] = gate[j]
<1> DEFINE g == [gate[i] EXCEPT !.active = k]
<1>1. gate' = [gate EXCEPT ![i] = g]
  OBVIOUS
<1>2. g \in Gates(i) /\ g.active = k /\ g.enabled[k] /\ g.egress = gate[i].egress
  BY DEF WorldTypes, Gates
<1> HIDE DEF g
<1>3. ShownSlot(g) = k
  BY <1>2, ShownSlotExists
<1>4. gate'[i] = g /\ \A j \in Instances \ {i} : gate'[j] = gate[j]
  BY <1>1 DEF WorldTypes
<1> QED
  BY <1>2, <1>3, <1>4 DEF Shown

LEMMA ShowsProbed ==
  ASSUME Types, NEW i \in Instances, NEW k \in Slots(i), ProbeOk(i, k), WouldShow(gate[i], k)
  PROVE  Shown(i)' = Address(i, k)
<1>1. /\ gate'[i] \in Gates(i) /\ gate'[i].egress[k] = Address(i, k) /\ gate'[i].enabled[k]
      /\ WouldShow(gate'[i], k)
  BY ProbeGate, ProbeOkGate, ProbeWouldShow
<1>2. ShownSlot(gate'[i]) = k
  BY <1>1, ShownSlotExists
<1> QED
  BY <1>1, <1>2 DEF Shown

\* The only slot of an instance is shown whatever becomes of it.
LEMMA SingleShows ==
  ASSUME WorldTypes, OpTypes, op.pc \in InRotation, op.reason # "upstream_429"
  PROVE  WouldShow(gate[op.at], op.slot)
<1>1. op.at \in Instances /\ op.slot \in Slots(op.at) /\ Slots(op.at) = {1}
  BY RotationPlace
<1>2. gate[op.at].active \in Slots(op.at)
  BY <1>1 DEF WorldTypes, Gates
<1> QED
  BY <1>1, <1>2 DEF WouldShow

\* What was read is compared as long as it is remembered.
LEMMA ConsideredKept ==
  ASSUME op'.seen = op.seen
  PROVE  \A i : Considered(i)' <=> Considered(i)
BY DEF Considered, Compared, Seen

LEMMA SeenKept ==
  ASSUME NEW i, gate'[i] = gate[i], op'.seen[i] = op.seen[i], AsSeen(i)
  PROVE  AsSeen(i)'
BY DEF AsSeen, Seen, Shown

LEMMA NotedKept ==
  ASSUME NEW i, gate'[i] = gate[i], op'.occupied[Shown(i)] = op.occupied[Shown(i)], Noted(i)
  PROVE  Noted(i)'
BY DEF Noted, Shown

\* Two instances whose addresses are noted as their own are apart.
LEMMA NotedApart ==
  ASSUME NEW i, NEW j, i # j, Noted(i), Noted(j)
  PROVE  Apart(i, j)
BY DEF Noted, Apart

LEMMA ReadShows ==
  ASSUME WorldTypes, OpTypes, Read, \A i \in Instances : AsSeen(i)
  PROVE  \A i \in Instances : AsSeen(i)'
<1> SUFFICES ASSUME NEW i \in Instances PROVE AsSeen(i)'
  OBVIOUS
<1>1. PICK seen \in {Summary(op.at), Absent} : ReadResult(seen)
  BY ReadDoes
<1>2. gate' = gate /\ op.seen \in [Instances -> {Absent} \cup Summaries]
  BY DEF Read, world, OpTypes, Ops
<1>3. op'.seen[i] = IF i = op.at THEN seen ELSE op.seen[i]
  BY <1>1, <1>2 DEF ReadResult
<1>4. CASE i # op.at
  BY <1>2, <1>3, <1>4, SeenKept
<1>5. CASE i = op.at
  <2>1. op'.seen[i] = Absent \/ op'.seen[i] = Summary(i)
    BY <1>1, <1>3, <1>5
  <2>2. ShownSlot(gate'[i]) = Summary(i).slot /\ Shown(i)' = Summary(i).egress
    BY <1>2 DEF Summary, Shown
  <2> QED
    BY <2>1, <2>2 DEF AsSeen, Seen
<1> QED
  BY <1>4, <1>5

-----------------------------------------------------------------------------
(* The steps of a rotation *)

\* The rotation goes on, or has found an address it may end on.
SameRun ==
    /\ op.pc \in InRotation /\ op'.pc \in InRotation
    /\ op'.kind = op.kind /\ op'.at = op.at /\ op'.seen = op.seen
    /\ op'.occupied = op.occupied /\ op'.failed = op.failed /\ op'.reason = op.reason
    /\ op'.forbidden = op.forbidden /\ op'.stirred = op.stirred /\ op'.hits = op.hits
    /\ op'.slot = op.slot /\ op'.rotated = op.rotated

Found(e) ==
    /\ op.pc \in InRotation
    /\ op' = Rotated(op, e)
    /\ WouldShow(gate[op.at], op.slot) => \A i \in Instances : i = op.at => Shown(i)' = e
    /\ e \notin op.forbidden /\ e # op.seen[op.at].egress

LEMMA TryStep ==
  ASSUME WorldTypes, OpTypes, Group \/ Try \/ GiveUp \/ Restore
  PROVE  gate' = gate /\ op.pc \in InRotation /\ (SameRun \/ op' = Failed(op))
<1>o. op \in Ops
  BY DEF OpTypes
<1>1. gate' = gate /\ op.pc \in InRotation
  BY DEF Group, Try, GiveUp, Restore, Quiet, world, InRotation, Trying
<1>2. \/ op' = Failed(op)
      \/ op' = [op EXCEPT !.now = picks[HerePort], !.tries = 0, !.pc = "try"]
      \/ op' = [op EXCEPT !.tries = op.tries + 1, !.pc = "probe"]
      \/ op' = [op EXCEPT !.tries = op.tries + 1]
      \/ op' = [op EXCEPT !.pc = "restore"]
      \/ op' = [op EXCEPT !.pc = "reprobe"]
  BY DEF Group, Try, GiveUp, Restore
<1>3. ASSUME op' # Failed(op) PROVE SameRun
  BY <1>o, <1>1, <1>2, <1>3, ZenonT(60) DEF SameRun, Ops, InRotation, Trying
<1> QED
  BY <1>1, <1>3

LEMMA ProbeStep ==
  ASSUME WorldTypes, OpTypes, Probe
  PROVE  /\ \A j \in Instances \ {op.at} : gate'[j] = gate[j]
         /\ WouldShow(gate[op.at], op.slot) => WouldShow(gate'[op.at], op.slot)
         /\ SameRun \/ \E e \in Egresses : Found(e)
<1>o. op \in Ops /\ Types /\ op.pc \in InRotation
  BY TypesParts DEF OpTypes, Probe, InRotation, Trying
<1>p. op.at \in Instances /\ op.slot \in Slots(op.at)
  BY <1>o, RotationPlace
<1>1. ProbeOk(op.at, op.slot) \/ ProbeFails(op.at, op.slot)
  BY DEF Probe
<1>2. /\ \A j \in Instances \ {op.at} : gate'[j] = gate[j]
      /\ WouldShow(gate[op.at], op.slot) => WouldShow(gate'[op.at], op.slot)
  BY <1>o, <1>p, <1>1, ProbeGate, ProbeWouldShow
<1>3. CASE op' = [op EXCEPT !.pc = "try"]
  BY <1>o, <1>2, <1>3 DEF SameRun, Ops, InRotation, Trying
<1>4. CASE op' # [op EXCEPT !.pc = "try"]
  <2> DEFINE e == Address(op.at, op.slot)
  <2>1. /\ ProbeOk(op.at, op.slot) /\ op' = Rotated(op, e)
        /\ e \notin op.forbidden \cup {op.seen[op.at].egress}
    BY <1>4 DEF Probe
  <2>2. e \in Egresses
    BY <1>o, <1>p, AddressType
  <2>3. ASSUME NEW i \in Instances, i = op.at, WouldShow(gate[op.at], op.slot) PROVE Shown(i)' = e
    BY <1>o, <1>p, <2>1, <2>3, ShowsProbed
  <2> QED
    BY <1>o, <1>2, <2>1, <2>2, <2>3 DEF Found
<1> QED
  BY <1>3, <1>4

-----------------------------------------------------------------------------
(* The administrator's rotation *)

ManualParts == Reading /\ ManualInv

\* It ends without success.
LEMMA ManualFails ==
  ASSUME NEW o \in Ops, o.failed, o.kind = "manual", GoesOn(o, op')
  PROVE  ManualParts'
<1>1. op'.pc = "end" /\ op'.failed
  BY DEF GoesOn, SameRest
<1> QED
  BY <1>1 DEF ManualParts, Reading, ManualInv, InRotation, Trying

LEMMA ManualFailed ==
  ASSUME OpTypes, op.kind = "manual", op.pc # "end", op' = Failed(op)
  PROVE  ManualParts'
<1>1. [op EXCEPT !.failed = TRUE] \in Ops /\ [op EXCEPT !.failed = TRUE].failed
      /\ [op EXCEPT !.failed = TRUE].kind = "manual"
  BY DEF OpTypes, Ops
<1>2. GoesOn([op EXCEPT !.failed = TRUE], op')
  BY FailedGoesOn DEF OpTypes
<1> QED
  BY <1>1, <1>2, ManualFails

\* It ends on an address that none of the others shows.
LEMMA ManualFinds ==
  ASSUME OpTypes, NEW o \in Ops, o.kind = "manual", o.at = op.at, o.seen = op.seen,
         o.stirred = op.stirred, GoesOn(o, op'),
         NEW e, \A i \in Instances : i = op.at => Shown(i)' = e,
         e # op.seen[op.at].egress,
         \A j \in Instances \ {op.at} : Seen(j) /\ ~op.stirred =>
            gate'[j] = gate[j] /\ AsSeen(j) /\ op.seen[j].egress # e
  PROVE  ManualParts'
<1>1. op'.pc = "end" /\ op'.at = op.at /\ op'.seen = op.seen /\ op'.stirred = op.stirred
      /\ op.at \in Instances
  BY DEF GoesOn, SameRest, OpTypes, Ops
<1>2. PICK i \in Instances : i = op.at
  BY <1>1
<1>3. Shown(i)' = e /\ op'.at = i
  BY <1>1, <1>2
<1>4. ASSUME NEW j \in Instances \ {i}, Seen(j), ~op.stirred PROVE Apart(i, j)'
  <2>1. gate'[j] = gate[j] /\ Shown(j) = op.seen[j].egress /\ op.seen[j].egress # e
    BY <1>2, <1>4 DEF AsSeen
  <2> QED
    BY <1>3, <2>1 DEF Apart, Shown
<1>5. \A j \in Instances : Seen(j)' = Seen(j)
  BY <1>1 DEF Seen
<1>6. ~op'.stirred => /\ (Shown(op.at) # op.seen[op.at].egress)'
                      /\ \A j \in Instances \ {op'.at} : Seen(j)' => Apart(op.at, j)'
  <2>1. (Shown(op.at) # op.seen[op.at].egress)'
    BY <1>1, <1>2, <1>3 DEF Shown
  <2>2. ASSUME ~op'.stirred, NEW j \in Instances \ {op'.at}, Seen(j)' PROVE Apart(op.at, j)'
    <3>1. Apart(i, j)'
      BY <1>1, <1>3, <1>4, <1>5, <2>2
    <3> QED
      BY <1>3, <3>1 DEF Apart, Shown
  <2> QED
    BY <2>1, <2>2
<1> QED
  BY <1>1, <1>6 DEF ManualParts, Reading, ManualInv, InRotation, Trying

\* The rotation goes on at the same place.
LEMMA ManualRuns ==
  ASSUME ManualInv, op.kind = "manual", SameRun,
         \A j \in Instances \ {op.at} : gate'[j] = gate[j]
  PROVE  ManualParts'
<1>1. op'.seen = op.seen /\ op'.at = op.at /\ op'.pc \in InRotation /\ op.pc \in InRotation
      /\ op'.stirred = op.stirred /\ op'.reason = op.reason /\ op'.forbidden = op.forbidden
  BY DEF SameRun
<1>2. \A j \in Instances \ {op.at} : AsSeen(j) => AsSeen(j)'
  BY <1>1, SeenKept
<1>3. (op.forbidden = {op.seen[j].egress : j \in {j \in Instances : Seen(j)}} \ {Unknown})'
  BY <1>1 DEF ManualInv, Seen
<1>4. (op.reason = "manual" /\ Seen(op.at))'
  BY <1>1 DEF ManualInv, Seen
<1>5. (~op.stirred => \A i \in Instances \ {op.at} : AsSeen(i))'
  BY <1>1, <1>2 DEF ManualInv
<1>6. op'.pc \notin {"read", "target", "end"}
  BY <1>1 DEF InRotation, Trying
<1> QED
  BY <1>1, <1>3, <1>4, <1>5, <1>6 DEF ManualParts, Reading, ManualInv

LEMMA ManualBegins ==
  ASSUME WorldTypes, op' \in Ops, op'.pc = "read" \/ op'.kind # "manual",
         \A i \in Instances : op'.seen[i] = Absent
  PROVE  ManualParts'
BY DEF ManualParts, Reading, ManualInv, AsSeen, Seen, InRotation, Trying

LEMMA TargetManual ==
  ASSUME WorldTypes, OpTypes, ManualInv, op.kind = "manual",
         TargetGone \/ TargetCandidate \/ TargetRotate
  PROVE  ManualParts'
<1>t. Types /\ OpSlots /\ op \in Ops /\ op.at \in Instances /\ op.pc = "target"
  BY TypesParts DEF OpTypes, Ops, TargetGone, TargetCandidate, TargetRotate
<1>a. ~op.stirred => \A i \in Instances : AsSeen(i)
  BY <1>t DEF ManualInv
<1>1. CASE TargetGone
  BY <1>t, <1>1, ManualFailed DEF TargetGone
<1>2. CASE TargetCandidate
  <2> DEFINE o == Asking("manual")
  <2>1. Seen(op.at) /\ Candidate("manual")
    BY <1>2 DEF TargetCandidate
  <2>2. o \in Ops /\ (Refused(o) \/ \E k \in Slots(op.at) : Moved(o, k))
    BY <1>t, <2>1, CandidateDoes DEF Reasons
  <2>3. o.pc = "target" /\ o.seen = op.seen /\ o.reason = "manual" /\ o.kind = "manual"
        /\ o.at = op.at /\ o.stirred = op.stirred
    BY <1>t DEF Asking, Ops
  <2> HIDE DEF o
  <2>4. CASE Refused(o)
    <3>1. [o EXCEPT !.failed = TRUE] \in Ops /\ [o EXCEPT !.failed = TRUE].failed
          /\ [o EXCEPT !.failed = TRUE].kind = "manual"
      BY <2>2, <2>3 DEF Ops
    <3> QED
      BY <2>4, <3>1, ManualFails DEF Refused
  <2>5. ASSUME NEW k \in Slots(op.at), Moved(o, k) PROVE ManualParts'
    <3>1. PICK e \in Egresses : e = gate[op.at].egress[k]
      BY <2>5 DEF Moved
    <3>2. GoesOn(o, op')
      BY <2>2, <2>3, <2>5, <3>1, RotatedGoesOn DEF Moved
    <3>3. e \notin {op.seen[j].egress : j \in {j \in Instances : op.seen[j] # Absent}}
      BY <2>3, <2>5, <3>1, RotationAssumption DEF Moved, Forbidden
    <3>4. \A j \in Instances : Seen(j) => op.seen[j].egress # e
      BY <3>3 DEF Seen
    <3>5. PICK i \in Instances : i = op.at
      BY <1>t
    <3>6. Shown(i)' = e /\ \A j \in Instances \ {i} : gate'[j] = gate[j]
      BY <2>5, <3>1, <3>5, ShowsActive DEF Moved
    <3> QED
      BY <1>a, <2>1, <2>2, <2>3, <3>2, <3>4, <3>5, <3>6, ManualFinds
  <2> QED
    BY <2>2, <2>4, <2>5
<1>3. CASE TargetRotate
  <2>1. Seen(op.at) /\ op' = Rotating(op, "manual") /\ gate' = gate
    BY <1>3 DEF TargetRotate
  <2>2. StartsRotation("manual", op')
    BY <1>t, <2>1, RotatingStarts DEF Reasons
  <2>3. op'.pc = "group" /\ op'.reason = "manual" /\ op'.seen = op.seen /\ op'.stirred = op.stirred
        /\ op'.forbidden = Forbidden(Asking("manual"), op.at)
    BY <2>2 DEF StartsRotation, Asking
  <2>4. op'.forbidden = {op.seen[j].egress : j \in {j \in Instances : op.seen[j] # Absent}} \ {Unknown}
    BY <1>t, <2>3 DEF Forbidden, Asking, Ops
  <2>5. (op.forbidden = {op.seen[j].egress : j \in {j \in Instances : Seen(j)}} \ {Unknown})'
    BY <2>3, <2>4 DEF Seen
  <2>6. (~op.stirred => \A i \in Instances : AsSeen(i))'
    BY <1>a, <2>1, <2>3, SeenKept
  <2>7. Seen(op.at)'
    BY <2>1, <2>2 DEF Seen, StartsRotation
  <2> QED
    BY <2>3, <2>5, <2>6, <2>7 DEF ManualParts, Reading, ManualInv, InRotation
<1> QED
  BY <1>1, <1>2, <1>3

LEMMA RotationManual ==
  ASSUME WorldTypes, OpTypes, ManualInv, op.kind = "manual",
         Group \/ Try \/ GiveUp \/ Restore \/ Probe \/ Reprobe
  PROVE  ManualParts'
<1>1. CASE Group \/ Try \/ GiveUp \/ Restore
  <2>1. op.pc # "end"
    BY <1>1, TryStep DEF InRotation, Trying
  <2> QED
    BY <1>1, <2>1, TryStep, ManualRuns, ManualFailed
<1>2. CASE Probe
  <2>1. CASE SameRun
    BY <1>2, <2>1, ProbeStep, ManualRuns
  <2>2. ASSUME NEW e \in Egresses, Found(e) PROVE ManualParts'
    <3>1. op.pc # "end" /\ op.reason = "manual" /\ op \in Ops
          /\ op.forbidden = {op.seen[j].egress : j \in {j \in Instances : Seen(j)}} \ {Unknown}
          /\ (~op.stirred => \A i \in Instances \ {op.at} : AsSeen(i))
      BY <2>2 DEF Found, ManualInv, InRotation, Trying, OpTypes
    <3>2. GoesOn(op, op')
      BY <2>2, <3>1, RotatedGoesOn DEF Found
    <3>3. \A j \in Instances : Seen(j) => op.seen[j].egress # e
      BY <2>2, <3>1, RotationAssumption DEF Found
    <3>4. WouldShow(gate[op.at], op.slot)
      BY <2>2, <3>1, SingleShows DEF Found
    <3> QED
      BY <1>2, <2>2, <3>1, <3>2, <3>3, <3>4, ProbeStep, ManualFinds DEF Found
  <2> QED
    BY <1>2, <2>1, <2>2, ProbeStep
<1>3. CASE Reprobe
  BY <1>3, ManualFailed DEF Reprobe
<1> QED
  BY <1>1, <1>2, <1>3

\* No step but the reading of a summary asks for another; the kind stays.
LEMMA LookKind ==
  ASSUME WorldTypes, OpTypes,
         DedupSkip \/ DedupOccupy \/ DedupRefused \/ DedupCandidate \/ DedupRotate
           \/ LimitsSkip \/ Limits \/ TargetGone \/ TargetCandidate \/ TargetRotate
           \/ Group \/ Try \/ GiveUp \/ Restore \/ Probe \/ Reprobe \/ RefreshSkip \/ Refresh
  PROVE  op'.kind = op.kind /\ op'.pc # "read"
<1>t. Types /\ OpSlots /\ op \in Ops /\ op.at \in Instances
  BY TypesParts DEF OpTypes, Ops
<1>g. ASSUME NEW o \in Ops, o.kind = op.kind, GoesOn(o, op')
      PROVE  op'.kind = op.kind /\ op'.pc # "read"
  BY <1>g DEF GoesOn, SameRest
<1>f. ASSUME op.pc # "end", op' = Failed(op)
      PROVE  op'.kind = op.kind /\ op'.pc # "read"
  <2>1. [op EXCEPT !.failed = TRUE] \in Ops /\ [op EXCEPT !.failed = TRUE].kind = op.kind
    BY <1>t DEF Ops
  <2> QED
    BY <1>t, <1>f, <1>g, <2>1, FailedGoesOn
<1>m. ASSUME NEW o \in Ops, o.kind = op.kind, o.pc # "end", NEW e \in Egresses, op' = Rotated(o, e)
      PROVE  op'.kind = op.kind /\ op'.pc # "read"
  <2>1. (IF o.hits < 2 THEN o.hits + 1 ELSE 2) \in 0 .. 2
    BY DEF Ops
  <2>2. WithNoted(o, e) \in Ops /\ WithHit(o) \in Ops
        /\ WithNoted(o, e).kind = op.kind /\ WithHit(o).kind = op.kind
    BY <1>m, <2>1 DEF WithNoted, WithHit, Ops
  <2>3. o.reason \in Reasons
    BY DEF Ops
  <2> QED
    BY <1>m, <1>g, <2>2, <2>3, RotatedGoesOn DEF Reasons
<1>c. ASSUME NEW reason \in Reasons, Candidate(reason), op.pc # "end"
      PROVE  op'.kind = op.kind /\ op'.pc # "read"
  <2>1. PICK o \in Ops : o = Asking(reason)
    BY <1>t, <1>c, CandidateDoes
  <2>2. o.kind = op.kind /\ o.pc # "end"
    BY <1>t, <1>c, <2>1 DEF Asking, Ops
  <2>3. CASE Refused(o)
    <3>1. [o EXCEPT !.failed = TRUE] \in Ops /\ [o EXCEPT !.failed = TRUE].kind = op.kind
      BY <2>2 DEF Ops
    <3> QED
      BY <1>g, <2>3, <3>1 DEF Refused
  <2>4. ASSUME NEW k \in Slots(op.at), Moved(o, k) PROVE op'.kind = op.kind /\ op'.pc # "read"
    BY <1>m, <2>2, <2>4 DEF Moved
  <2> QED
    BY <1>t, <1>c, <2>1, <2>3, <2>4, CandidateDoes
<1>1. CASE DedupCandidate \/ TargetCandidate
  BY <1>1, <1>c DEF DedupCandidate, Duplicate, TargetCandidate, Reasons
<1>2. CASE DedupSkip \/ LimitsSkip \/ DedupRefused \/ TargetGone \/ Reprobe
  BY <1>2, <1>t, <1>f, <1>g, AdvancedGoesOn
     DEF DedupSkip, LimitsSkip, DedupRefused, Duplicate, TargetGone, Reprobe
<1>3. CASE DedupOccupy
  <2>1. PICK o : o = [op EXCEPT !.occupied = [op.occupied EXCEPT ![op.seen[op.at].egress] = op.at]]
    OBVIOUS
  <2>2. op' = Advanced(o) /\ op.pc = "dedup"
    BY <1>3, <2>1 DEF DedupOccupy
  <2>3. o \in Ops /\ o.pc = "dedup" /\ o.kind = op.kind
    BY <1>t, <2>1, <2>2 DEF Ops
  <2> QED
    BY <1>g, <2>2, <2>3, AdvancedGoesOn
<1>4. CASE DedupRotate \/ TargetRotate
  BY <1>4, <1>t, RotatingStarts
     DEF DedupRotate, Duplicate, Considered, TargetRotate, StartsRotation, Reasons
<1>5. CASE Limits
  BY <1>5, <1>t, <1>g, AdvancedGoesOn, RotatingStarts DEF Limits, StartsRotation, Reasons
<1>6. CASE Group \/ Try \/ GiveUp \/ Restore
  BY <1>6, <1>f, TryStep DEF SameRun, InRotation, Trying
<1>7. CASE Probe
  <2>1. ASSUME NEW e \in Egresses, Found(e) PROVE op'.kind = op.kind /\ op'.pc # "read"
    BY <1>t, <1>m, <2>1 DEF Found, InRotation, Trying
  <2> QED
    BY <1>7, <2>1, ProbeStep DEF SameRun, InRotation, Trying
<1>8. CASE RefreshSkip \/ Refresh
  BY <1>8, <1>t DEF RefreshSkip, Refresh, NextSlot, Ops
<1> QED
  BY <1>1, <1>2, <1>3, <1>4, <1>5, <1>6, <1>7, <1>8

LEMMA BeginOp ==
  ASSUME \/ Begin("reconcile", 1) \/ Begin("refresh", 1) \/ End
         \/ \E i \in Instances : BeginManual(i)
  PROVE  /\ op'.pc = "read" \/ op'.kind \in {"refresh", "none"}
         /\ op'.pc = "read" => op'.reason = "none" /\ op'.hits = 0
         /\ \A i \in Instances : op'.seen[i] = Absent
<1>i. Idle \in Ops /\ Idle.kind = "none" /\ Idle.reason = "none" /\ Idle.hits = 0
      /\ \A i \in Instances : Idle.seen[i] = Absent
  BY IdleType
<1>1. CASE Begin("reconcile", 1)
  <2>1. op' = [Idle EXCEPT !.kind = "reconcile", !.at = 1, !.pc = "read"]
    BY <1>1 DEF Begin
  <2> QED
    BY <1>i, <2>1 DEF Ops
<1>2. CASE Begin("refresh", 1)
  <2>1. op' = [Idle EXCEPT !.kind = "refresh", !.at = 1, !.pc = "refresh"]
    BY <1>2 DEF Begin
  <2> QED
    BY <1>i, <2>1 DEF Ops
<1>3. ASSUME NEW i \in Instances, BeginManual(i)
      PROVE  /\ op'.pc = "read" /\ op'.reason = "none" /\ op'.hits = 0
             /\ \A j \in Instances : op'.seen[j] = Absent
  <2>1. op' = [Idle EXCEPT !.kind = "manual", !.pc = "read", !.slot = i]
    BY <1>3 DEF BeginManual
  <2> QED
    BY <1>i, <2>1 DEF Ops
<1>4. CASE End
  BY <1>4, IdleType DEF End
<1> QED
  BY <1>1, <1>2, <1>3, <1>4

LEMMA EventOp ==
  ASSUME OpTypes,
         Resubscribe \/ (\E i \in Instances : GatewaySwitches(i) \/ GatewayLimited(i))
           \/ (\E n \in Nodes : NodeMoves(n))
  PROVE  (op' = op /\ op = Idle) \/ (op'.stirred /\ op'.kind = op.kind /\ op'.pc = op.pc
           /\ op'.at = op.at /\ op'.seen = op.seen /\ op'.reason = op.reason
           /\ op'.forbidden = op.forbidden /\ op'.hits = op.hits)
BY StirredOp DEF Resubscribe, GatewaySwitches, GatewayLimited, NodeMoves, Event

LEMMA NextManual ==
  ASSUME Types, OpSlots, ManualParts, [Next]_vars
  PROVE  ManualParts'
<1>t. WorldTypes /\ OpTypes /\ WorldTypes' /\ OpTypes' /\ Reading /\ ManualInv
  BY TypesParts, NextTypes DEF ManualParts, WorldTypes, OpTypes, Types
<1>1. CASE Begin("reconcile", 1) \/ Begin("refresh", 1) \/ End
           \/ \E i \in Instances : BeginManual(i)
  <2>1. op' \in Ops /\ (op'.pc = "read" \/ op'.kind # "manual")
        /\ \A i \in Instances : op'.seen[i] = Absent
    BY <1>t, <1>1, BeginOp DEF OpTypes
  <2> QED
    BY <1>t, <2>1, ManualBegins
<1>2. CASE Resubscribe \/ (\E i \in Instances : GatewaySwitches(i) \/ GatewayLimited(i))
           \/ (\E n \in Nodes : NodeMoves(n))
  <2>1. CASE op' = op /\ op = Idle
    BY <2>1, IdleType DEF ManualParts, Reading, ManualInv
  <2>2. CASE ~(op' = op /\ op = Idle)
    <3>1. /\ op'.stirred /\ op'.kind = op.kind /\ op'.pc = op.pc /\ op'.at = op.at
          /\ op'.seen = op.seen /\ op'.reason = op.reason /\ op'.forbidden = op.forbidden
      BY <1>t, <1>2, <2>2, EventOp
    <3>2. \A j \in Instances : Seen(j)' = Seen(j)
      BY <3>1 DEF Seen
    <3>3. op.kind = "manual" /\ op.pc \in InRotation =>
            (op.forbidden = {op.seen[j].egress : j \in {j \in Instances : Seen(j)}} \ {Unknown})'
      BY <1>t, <3>1 DEF ManualInv, Seen
    <3>4. op.kind = "manual" /\ op.pc \in InRotation => (op.reason = "manual" /\ Seen(op.at))'
      BY <1>t, <3>1 DEF ManualInv, Seen
    <3> QED
      BY <1>t, <3>1, <3>3, <3>4 DEF ManualParts, Reading, ManualInv
  <2> QED
    BY <2>1, <2>2
<1>3. CASE Read
  <2>1. PICK seen \in {Summary(op.at), Absent} : ReadResult(seen)
    BY <1>t, <1>3, ReadDoes
  <2>2. op'.kind = op.kind /\ op'.stirred = op.stirred /\ op.pc = "read"
        /\ (op'.pc = "read" \/ op'.pc = "target" \/ op'.kind # "manual")
    BY <1>3, <2>1 DEF ReadResult, Read
  <2>3. ~op'.stirred => \A i \in Instances : AsSeen(i)'
    BY <1>t, <1>3, <2>2, ReadShows DEF Reading
  <2> QED
    BY <2>2, <2>3 DEF ManualParts, Reading, ManualInv, InRotation, Trying
<1>4. CASE DedupSkip \/ DedupOccupy \/ DedupRefused \/ DedupCandidate \/ DedupRotate
           \/ LimitsSkip \/ Limits \/ TargetGone \/ TargetCandidate \/ TargetRotate
           \/ Group \/ Try \/ GiveUp \/ Restore \/ Probe \/ Reprobe \/ RefreshSkip \/ Refresh
  <2>1. op'.kind = op.kind /\ op'.pc # "read"
    BY <1>t, <1>4, LookKind
  <2>2. CASE op.kind # "manual"
    BY <2>1, <2>2 DEF ManualParts, Reading, ManualInv
  <2>3. CASE op.kind = "manual"
    <3>1. op.pc \in {"read", "target", "end"} \cup InRotation
      BY <1>t, <2>3 DEF ManualInv
    <3>2. ~(DedupSkip \/ DedupOccupy \/ DedupRefused \/ DedupCandidate \/ DedupRotate
              \/ LimitsSkip \/ Limits \/ RefreshSkip \/ Refresh)
      BY <3>1 DEF DedupSkip, DedupOccupy, DedupRefused, DedupCandidate, DedupRotate, Duplicate,
         LimitsSkip, Limits, RefreshSkip, Refresh, InRotation, Trying
    <3> QED
      BY <1>t, <1>4, <2>3, <3>2, TargetManual, RotationManual
  <2> QED
    BY <2>2, <2>3
<1>5. CASE UNCHANGED vars
  BY <1>t, <1>5 DEF vars, ManualParts, Reading, ManualInv, AsSeen, Seen, Shown, Apart
<1> QED
  BY <1>1, <1>2, <1>3, <1>4, <1>5 DEF Next, Work, BeginReconcile, BeginRefresh

-----------------------------------------------------------------------------
(* The passes of a reconciliation *)

PassParts == PassInv /\ ReconcileInv

\* A pass that no call has failed in and nothing stirred.
Untroubled == ~op.failed /\ Informed

InPass(o) ==
    /\ o \in Ops /\ o.kind = "reconcile"
    /\ o.reason \in {"none", "duplicate_egress", "upstream_429"}
    /\ o.reason # "upstream_429" => o.hits = 0

LEMMA PassGoesOn ==
  ASSUME NEW o, InPass(o), GoesOn(o, op')
  PROVE  PassInv'
BY DEF InPass, GoesOn, SameRest, PassInv, InRotation, Trying

LEMMA PassFails ==
  ASSUME NEW o, InPass(o), o.failed, GoesOn(o, op')
  PROVE  PassParts'
<1>1. op'.failed
  BY DEF GoesOn, SameRest
<1> QED
  BY <1>1, PassGoesOn DEF PassParts, ReconcileInv

LEMMA PassFailed ==
  ASSUME InPass(op), op.pc # "end", op' = Failed(op)
  PROVE  PassParts'
<1>1. InPass([op EXCEPT !.failed = TRUE]) /\ [op EXCEPT !.failed = TRUE].failed
  BY DEF InPass, Ops
<1>2. GoesOn([op EXCEPT !.failed = TRUE], op')
  BY FailedGoesOn DEF InPass
<1> QED
  BY <1>1, <1>2, PassFails

\* The first pass is done with op.at: its address is noted like those before.
LEMMA FirstPassGoesOn ==
  ASSUME NEW o, InPass(o), GoesOn(o, op'), o.reason # "upstream_429",
         Untroubled' => \A i \in Instances : /\ i <= o.at => Done(i)'
                                             /\ i > o.at => AsSeen(i)'
  PROVE  PassParts'
<1>1. PassInv'
  BY PassGoesOn
<1> SUFFICES ASSUME Untroubled' PROVE (IF op.reason = "upstream_429" THEN SecondPassInv ELSE FirstPassInv)'
  BY <1>1 DEF PassParts, ReconcileInv, Untroubled
<1>2. o.at \in Instances /\ o.kind = "reconcile" /\ o.hits = 0 /\ Instances \subseteq Nat
      /\ \A i \in Instances : i <= NumInstances
  BY RotationAssumption DEF InPass, Ops, Instances
<1>3. \A i \in Instances : (i <= o.at => Done(i)') /\ (i > o.at => AsSeen(i)')
  OBVIOUS
<1>4. CASE o.at # NumInstances
  <2>1. op'.at = o.at + 1 /\ op'.reason = o.reason /\ op'.pc = "dedup"
    BY <1>2, <1>4 DEF GoesOn
  <2>2. \A x, y \in Nat : (x < y + 1 => x <= y) /\ (x = y + 1 => x > y) /\ (x > y + 1 => x > y)
    OBVIOUS
  <2>3. FirstPassInv'
    <3>1. \A i \in Instances : (i < op'.at => i <= o.at) /\ (i = op'.at => i > o.at)
                               /\ (i > op'.at => i > o.at)
      <4>1. o.at \in Nat /\ op'.at = o.at + 1
        BY <1>2, <2>1
      <4> QED
        BY ONLY <1>2, <2>2, <4>1
    <3> QED
      BY <1>3, <2>1, <3>1 DEF FirstPassInv, InRotation, Trying
  <2> QED
    BY <2>1, <2>3
<1>5. CASE o.at = NumInstances
  <2>0. o.at + 1 \notin Instances /\ op'.at \in Instances
    BY <1>2, <1>5 DEF GoesOn, Ops, Instances
  <2>1. op'.pc = "limits" /\ op'.reason = "upstream_429" /\ op'.hits = 0
    BY <1>2, <2>0 DEF GoesOn, SameRest
  <2>2. \A i \in Instances : (Considered(i) => Noted(i))' /\ Unmoved(i)'
    BY <1>2, <1>3, <1>5 DEF Done
  <2>3. AllApart'
    BY <2>2 DEF AllApart, Noted, Apart
  <2>4. SecondPassInv'
    BY <2>1, <2>2, <2>3 DEF SecondPassInv, InRotation, Trying
  <2> QED
    BY <2>1, <2>4
<1> QED
  BY <1>4, <1>5

LEMMA SecondPassGoesOn ==
  ASSUME NEW o, InPass(o), GoesOn(o, op'), o.reason = "upstream_429",
         Untroubled' => /\ o.hits = 0 => \A i \in Instances : (Considered(i) => Noted(i))'
                        /\ o.hits <= 1 => AllApart'
                        /\ \A i \in Instances : i > o.at => Unmoved(i)'
  PROVE  PassParts'
<1>1. PassInv'
  BY PassGoesOn
<1>2. op'.reason = "upstream_429" /\ op'.hits = o.hits /\ op'.pc \notin InRotation
  BY DEF GoesOn, SameRest, InRotation, Trying
<1>3. \A i \in Instances : i > op'.at \/ (op'.pc = "limits" /\ i = op'.at) => i > o.at
  <2>1. o.at \in Nat /\ Instances \subseteq Nat
    BY DEF InPass, Ops, Instances
  <2>2. (op'.at = o.at + 1 /\ op'.pc = "limits") \/ (op'.at = o.at /\ op'.pc = "end")
    BY DEF GoesOn, InPass
  <2> QED
    BY <2>1, <2>2
<1>4. Untroubled' => SecondPassInv'
  BY <1>2, <1>3 DEF SecondPassInv
<1> QED
  BY <1>1, <1>2, <1>4 DEF PassParts, ReconcileInv, Untroubled

LEMMA UntroubledBefore ==
  ASSUME op'.seen = op.seen, op'.stirred = op.stirred, ~op'.failed => ~op.failed, Untroubled'
  PROVE  Untroubled
BY DEF Untroubled, Informed, Seen

\* The rotation goes on at the same place.
LEMMA PassRuns ==
  ASSUME PassParts, op.kind = "reconcile", OpTypes, SameRun,
         \A j \in Instances \ {op.at} : gate'[j] = gate[j],
         WouldShow(gate[op.at], op.slot) => WouldShow(gate'[op.at], op.slot)
  PROVE  PassParts'
<1>1. /\ op'.seen = op.seen /\ op'.at = op.at /\ op'.pc \in InRotation /\ op.pc \in InRotation
      /\ op'.stirred = op.stirred /\ op'.reason = op.reason /\ op'.forbidden = op.forbidden
      /\ op'.occupied = op.occupied /\ op'.failed = op.failed /\ op'.hits = op.hits
      /\ op'.kind = op.kind /\ op'.slot = op.slot /\ op'.rotated = op.rotated
  BY DEF SameRun
<1>2. PassInv'
  <2>1. op'.pc \notin {"read", "dedup", "limits", "end"}
    BY <1>1 DEF InRotation, Trying
  <2> QED
    BY <1>1, <2>1 DEF PassParts, PassInv
<1> SUFFICES ASSUME Untroubled' PROVE (IF op.reason = "upstream_429" THEN SecondPassInv ELSE FirstPassInv)'
  BY <1>2 DEF PassParts, ReconcileInv, Untroubled
<1>3. Untroubled /\ op.pc # "read"
  BY <1>1, UntroubledBefore DEF InRotation, Trying
<1>4. IF op.reason = "upstream_429" THEN SecondPassInv ELSE FirstPassInv
  BY <1>3 DEF PassParts, ReconcileInv, Untroubled
<1>5. \A j \in Instances \ {op.at} : /\ Noted(j) => Noted(j)'
                                     /\ AsSeen(j) => AsSeen(j)'
                                     /\ Considered(j)' <=> Considered(j)
                                     /\ Unmoved(j) => Unmoved(j)'
                                     /\ Done(j) => Done(j)'
  BY <1>1, NotedKept, SeenKept, ConsideredKept DEF Unmoved, Done
<1>6. Occupied' = Occupied
  BY <1>1 DEF Occupied
<1>7. CASE op.reason = "upstream_429"
  <2>1. SecondPassInv
    BY <1>4, <1>7
  <2>2. op'.hits = 0 => \A i \in Instances : i = op'.at \/ (Considered(i) => Noted(i))'
    BY <1>1, <1>5, <2>1 DEF SecondPassInv
  <2>3. \A e \in Occupied' : op'.occupied[e] = op'.at \/ e \in op'.forbidden
    BY <1>1, <1>6, <2>1 DEF SecondPassInv
  <2>5. op'.pc # "limits" /\ \A i \in Instances : i > op.at => i # op.at
    BY <1>1 DEF InRotation, Trying, OpTypes, Ops, Instances
  <2>6. \A i \in Instances : i > op'.at => Unmoved(i)'
    BY <1>1, <1>5, <2>1, <2>5 DEF SecondPassInv
  <2>7. WouldShow(gate'[op'.at], op'.slot)
    BY <1>1, <2>1 DEF SecondPassInv
  <2>4. SecondPassInv'
    BY <1>1, <2>2, <2>3, <2>5, <2>6, <2>7 DEF SecondPassInv
  <2> QED
    BY <1>1, <1>7, <2>4
<1>8. CASE op.reason # "upstream_429"
  <2>1. FirstPassInv
    BY <1>4, <1>8
  <2>2. \A i, j \in Instances : (i < j => i # j) /\ (i > j => i # j)
    BY DEF Instances
  <2>3. op.at \in Instances /\ op'.pc # "dedup"
    BY <1>1 DEF OpTypes, Ops, InRotation, Trying
  <2>4. FirstPassInv'
    BY <1>1, <1>5, <1>6, <2>1, <2>2, <2>3 DEF FirstPassInv
  <2> QED
    BY <1>1, <1>8, <2>4
<1> QED
  BY <1>7, <1>8

\* The first pass finds an address for op.at that nobody has been noted for.
LEMMA NotedFinds ==
  ASSUME WorldTypes, OpTypes, PassParts, op.kind = "reconcile", op.reason # "upstream_429",
         op.pc # "read",
         NEW o, InPass(o), GoesOn(o, op'), o.reason # "upstream_429", o.seen = op.seen,
         o.stirred = op.stirred, o.failed = op.failed, o.at = op.at,
         op.rotated \subseteq o.rotated,
         NEW e \in Egresses, e \notin Occupied, o.occupied = [op.occupied EXCEPT ![e] = op.at],
         \A j \in Instances \ {op.at} : gate'[j] = gate[j],
         Untroubled => \A i \in Instances : i = op.at => Shown(i)' = e,
         Untroubled => op.at \in o.rotated \/ (gate' = gate /\ op.pc = "dedup")
  PROVE  PassParts'
<1>1. op'.seen = op.seen /\ op'.stirred = op.stirred /\ op'.failed = op.failed
      /\ op'.occupied = [op.occupied EXCEPT ![e] = op.at] /\ op'.rotated = o.rotated
  BY DEF GoesOn, SameRest
<1>o. op.at \in Instances /\ op.occupied \in [Egresses -> {NoOne} \cup Instances]
  BY DEF OpTypes, Ops
<1>n. Instances \subseteq Nat \ {0} /\ NoOne \notin Instances
  BY DEF Instances, NoOne
<1>2. ASSUME Untroubled', NEW i \in Instances
      PROVE  (i <= o.at => Done(i)') /\ (i > o.at => AsSeen(i)')
  <2>1. Untroubled
    BY <1>1, <1>2, UntroubledBefore
  <2>2. FirstPassInv
    BY <2>1 DEF PassParts, ReconcileInv, Untroubled
  <2>o. i \in Nat /\ op.at \in Nat
    BY <1>o, <1>n
  <2>3. CASE i < op.at
    <3>1. Done(i) /\ gate'[i] = gate[i] /\ Unmoved(i)'
      <4>1. Done(i) /\ gate'[i] = gate[i]
        BY <1>o, <1>n, <2>2, <2>3 DEF FirstPassInv
      <4> QED
        BY <1>1, <4>1, SeenKept DEF Done, Unmoved
    <3>2. Noted(i) => Noted(i)'
      <4>1. Noted(i) => Shown(i) # e
        BY <1>n, <1>o DEF Noted, Occupied
      <4>2. Shown(i) # e => op'.occupied[Shown(i)] = op.occupied[Shown(i)]
        BY <1>1, <1>o
      <4> QED
        BY <3>1, <4>1, <4>2, NotedKept
    <3>5. Done(i)'
      BY <1>1, <3>1, <3>2, ConsideredKept DEF Done
    <3>6. ~ (i > op.at)
      BY ONLY <2>o, <2>3
    <3> QED
      BY <3>5, <3>6
  <2>4. CASE i = op.at
    <3>1. Shown(i)' = e
      BY <2>1, <2>4
    <3>2. op'.occupied[e] = i
      BY <1>1, <1>o, <2>4
    <3>5. Unmoved(i)'
      <4>1. CASE op.at \in o.rotated
        BY <1>1, <2>4, <4>1 DEF Unmoved
      <4>2. CASE gate' = gate /\ op.pc = "dedup"
        BY <1>1, <2>2, <2>4, <4>2, SeenKept DEF FirstPassInv, Unmoved
      <4> QED
        BY <2>1, <4>1, <4>2
    <3>3. Done(i)'
      BY <3>1, <3>2, <3>5 DEF Noted, Done
    <3>4. ~ (i > op.at)
      BY ONLY <2>o, <2>4
    <3> QED
      BY <3>3, <3>4
  <2>5. CASE i > op.at
    <3>1. AsSeen(i) /\ gate'[i] = gate[i]
      BY <1>o, <1>n, <2>2, <2>5 DEF FirstPassInv
    <3>2. AsSeen(i)'
      BY <1>1, <3>1, SeenKept
    <3>3. ~ (i <= op.at)
      BY ONLY <2>o, <2>5
    <3> QED
      BY <3>2, <3>3
  <2>6. i < op.at \/ i = op.at \/ i > op.at
    BY ONLY <2>o
  <2> QED
    BY <2>3, <2>4, <2>5, <2>6
<1> QED
  BY <1>2, FirstPassGoesOn

LEMMA DedupPass ==
  ASSUME WorldTypes, OpTypes, PassParts, op.kind = "reconcile",
         DedupSkip \/ DedupOccupy \/ DedupRefused \/ DedupCandidate \/ DedupRotate
  PROVE  PassParts'
<1>t. Types /\ OpSlots /\ op \in Ops /\ op.at \in Instances /\ op.pc = "dedup"
  BY TypesParts DEF OpTypes, Ops, DedupSkip, DedupOccupy, DedupRefused, DedupCandidate,
     DedupRotate, Duplicate
<1>p. InPass(op) /\ op.reason \in {"none", "duplicate_egress"} /\ op.hits = 0
  BY <1>t DEF PassParts, PassInv, InPass
<1>f. Untroubled => FirstPassInv
  BY <1>t, <1>p DEF PassParts, ReconcileInv, Untroubled
<1>1. CASE DedupSkip
  <2>1. GoesOn(op, op') /\ ~Considered(op.at) /\ gate' = gate
    BY <1>t, <1>1, AdvancedGoesOn DEF DedupSkip
  <2>2. /\ op'.seen = op.seen /\ op'.stirred = op.stirred /\ op'.failed = op.failed
        /\ op'.occupied = op.occupied /\ op'.rotated = op.rotated
    BY <2>1 DEF GoesOn, SameRest
  <2>3. \A i \in Instances : (Done(i) => Done(i)') /\ (AsSeen(i) => AsSeen(i)')
    BY <2>1, <2>2, NotedKept, SeenKept, ConsideredKept DEF Done, Unmoved
  <2>4. ASSUME Untroubled', NEW i \in Instances
        PROVE  (i <= op.at => Done(i)') /\ (i > op.at => AsSeen(i)')
    <3>1. FirstPassInv
      BY <1>f, <2>2, <2>4, UntroubledBefore
    <3>2. i \in Nat /\ op.at \in Nat
      BY <1>t DEF Instances
    <3>3. (i < op.at \/ i = op.at) => Done(i)
      BY <1>t, <2>1, <3>1 DEF FirstPassInv, Done, Unmoved
    <3>4. i > op.at => AsSeen(i)
      BY <3>1 DEF FirstPassInv
    <3> QED
      BY <2>3, <3>2, <3>3, <3>4
  <2> QED
    BY <1>p, <2>1, <2>4, FirstPassGoesOn
<1>2. CASE DedupOccupy
  <2>1. PICK e \in Egresses : e = op.seen[op.at].egress
    BY <1>t, <1>2, SeenType DEF DedupOccupy, Considered
  <2>2. PICK o : o = [op EXCEPT !.occupied = [op.occupied EXCEPT ![e] = op.at]]
    OBVIOUS
  <2>3. /\ o \in Ops /\ o.pc = "dedup" /\ o.kind = "reconcile" /\ o.reason = op.reason
        /\ o.hits = 0 /\ o.seen = op.seen /\ o.stirred = op.stirred /\ o.failed = op.failed
        /\ o.at = op.at /\ o.occupied = [op.occupied EXCEPT ![e] = op.at]
        /\ o.rotated = op.rotated
    BY <1>t, <1>p, <2>2 DEF Ops
  <2>4. op' = Advanced(o) /\ e \notin Occupied /\ gate' = gate /\ Seen(op.at)
    BY <1>2, <2>1, <2>2 DEF DedupOccupy, Considered
  <2>5. GoesOn(o, op')
    BY <2>3, <2>4, AdvancedGoesOn
  <2>6. Untroubled => \A i \in Instances : i = op.at => Shown(i)' = e
    BY <1>t, <1>f, <2>1, <2>4 DEF FirstPassInv, AsSeen, Shown
  <2>7. InPass(o)
    BY <1>p, <2>3 DEF InPass
  <2> QED
    BY <1>t, <1>p, <2>3, <2>4, <2>5, <2>6, <2>7, NotedFinds
<1>3. CASE DedupRefused
  BY <1>t, <1>p, <1>3, PassFailed DEF DedupRefused
<1>4. CASE DedupCandidate
  <2>1. PICK o : o = Asking("duplicate_egress")
    OBVIOUS
  <2>2. o \in Ops /\ (Refused(o) \/ \E k \in Slots(op.at) : Moved(o, k))
    BY <1>t, <1>4, <2>1, CandidateDoes DEF DedupCandidate, Reasons
  <2>3. /\ o.pc = "dedup" /\ o.kind = "reconcile" /\ o.reason = "duplicate_egress"
        /\ o.hits = 0 /\ o.seen = op.seen /\ o.stirred = op.stirred /\ o.failed = op.failed
        /\ o.at = op.at /\ o.occupied = op.occupied /\ o.rotated = op.rotated
    BY <1>t, <1>p, <2>1 DEF Asking, Ops
  <2>4. CASE Refused(o)
    <3>1. InPass([o EXCEPT !.failed = TRUE]) /\ [o EXCEPT !.failed = TRUE].failed
      BY <2>2, <2>3 DEF InPass, Ops
    <3> QED
      BY <2>4, <3>1, PassFails DEF Refused
  <2>5. ASSUME NEW k \in Slots(op.at), Moved(o, k) PROVE PassParts'
    <3>1. PICK e \in Egresses : e = gate[op.at].egress[k]
      BY <2>5 DEF Moved
    <3>2. GoesOn(WithNoted(o, e), op')
      BY <2>2, <2>3, <2>5, <3>1, RotatedGoesOn DEF Moved
    <3>3. /\ InPass(WithNoted(o, e)) /\ WithNoted(o, e).reason = "duplicate_egress"
          /\ WithNoted(o, e).seen = op.seen /\ WithNoted(o, e).stirred = op.stirred
          /\ WithNoted(o, e).failed = op.failed /\ WithNoted(o, e).at = op.at
          /\ WithNoted(o, e).occupied = [op.occupied EXCEPT ![e] = op.at]
          /\ WithNoted(o, e).rotated = op.rotated \cup {op.at}
      BY <2>2, <2>3 DEF WithNoted, InPass, Ops
    <3>4. e \notin Occupied
      BY <2>3, <2>5, <3>1 DEF Moved, Forbidden, Occupied
    <3>5. PICK i \in Instances : i = op.at
      BY <1>t
    <3>6. Shown(i)' = e /\ \A j \in Instances \ {i} : gate'[j] = gate[j]
      BY <2>5, <3>1, <3>5, ShowsActive DEF Moved
    <3> QED
      BY <1>t, <1>p, <3>2, <3>3, <3>4, <3>5, <3>6, NotedFinds
  <2> QED
    BY <2>2, <2>4, <2>5
<1>5. CASE DedupRotate
  <2>1. StartsRotation("duplicate_egress", op') /\ gate' = gate
    BY <1>t, <1>5, RotatingStarts DEF DedupRotate, Duplicate, Considered, Reasons
  <2>2. /\ op'.kind = "reconcile" /\ op'.pc = "group" /\ op'.reason = "duplicate_egress"
        /\ op'.at = op.at /\ op'.seen = op.seen /\ op'.occupied = op.occupied
        /\ op'.failed = op.failed /\ op'.stirred = op.stirred /\ op'.hits = 0
        /\ op'.rotated = op.rotated
        /\ op'.forbidden = Forbidden(Asking("duplicate_egress"), op.at)
    BY <1>p, <2>1 DEF StartsRotation, Asking
  <2>3. op'.forbidden = Occupied
    BY <1>t, <2>2 DEF Forbidden, Asking, Ops, Occupied
  <2>4. Untroubled' => FirstPassInv'
    <3> SUFFICES ASSUME Untroubled' PROVE FirstPassInv'
      OBVIOUS
    <3>1. FirstPassInv
      BY <1>f, <2>2, UntroubledBefore
    <3>2. \A i \in Instances : (Done(i) => Done(i)') /\ (AsSeen(i) => AsSeen(i)')
      BY <2>1, <2>2, NotedKept, SeenKept, ConsideredKept DEF Done, Unmoved
    <3>3. Occupied' = Occupied
      BY <2>2 DEF Occupied
    <3> QED
      BY <2>2, <2>3, <3>1, <3>2, <3>3 DEF FirstPassInv
  <2>5. PassInv'
    BY <2>2 DEF PassInv, InRotation
  <2> QED
    BY <2>2, <2>4, <2>5 DEF PassParts, ReconcileInv, Untroubled
<1> QED
  BY <1>1, <1>2, <1>3, <1>4, <1>5

LEMMA LimitsPass ==
  ASSUME WorldTypes, OpTypes, PassParts, op.kind = "reconcile", LimitsSkip \/ Limits
  PROVE  PassParts'
<1>t. Types /\ OpSlots /\ op \in Ops /\ op.at \in Instances /\ op.pc = "limits" /\ gate' = gate
  BY TypesParts DEF OpTypes, Ops, LimitsSkip, Limits
<1>p. InPass(op) /\ op.reason = "upstream_429"
  BY <1>t DEF PassParts, PassInv, InPass
<1>f. Untroubled => SecondPassInv
  BY <1>t, <1>p DEF PassParts, ReconcileInv, Untroubled
<1>n. op.pc \notin InRotation
  BY <1>t DEF InRotation, Trying
<1>1. CASE op' = Advanced(op)
  <2>1. GoesOn(op, op')
    BY <1>t, <1>1, AdvancedGoesOn
  <2>2. op'.seen = op.seen /\ op'.stirred = op.stirred /\ op'.failed = op.failed
        /\ op'.occupied = op.occupied /\ op'.rotated = op.rotated
    BY <2>1 DEF GoesOn, SameRest
  <2>3. Untroubled' => /\ op.hits = 0 => \A i \in Instances : (Considered(i) => Noted(i))'
                       /\ op.hits <= 1 => AllApart'
                       /\ \A i \in Instances : i > op.at => Unmoved(i)'
    <3> SUFFICES ASSUME Untroubled'
                 PROVE  /\ op.hits = 0 => \A i \in Instances : (Considered(i) => Noted(i))'
                        /\ op.hits <= 1 => AllApart'
                        /\ \A i \in Instances : i > op.at => Unmoved(i)'
      OBVIOUS
    <3>1. SecondPassInv
      BY <1>f, <2>2, UntroubledBefore
    <3>2. \A i \in Instances : /\ Noted(i) => Noted(i)'
                               /\ Considered(i)' <=> Considered(i)
                               /\ Unmoved(i) => Unmoved(i)'
      BY <1>t, <2>2, NotedKept, SeenKept, ConsideredKept DEF Unmoved
    <3>3. AllApart => AllApart'
      BY <1>t, <3>2 DEF AllApart, Apart, Shown
    <3> QED
      BY <1>n, <3>1, <3>2, <3>3 DEF SecondPassInv
  <2> QED
    BY <1>p, <2>1, <2>3, SecondPassGoesOn
<1>2. CASE Seen(op.at) /\ op.at \notin op.rotated /\ op' = Rotating(op, "upstream_429")
  <2>1. StartsRotation("upstream_429", op')
    BY <1>t, <1>2, RotatingStarts DEF Reasons
  <2>2. /\ op'.kind = "reconcile" /\ op'.pc = "group" /\ op'.reason = "upstream_429"
        /\ op'.at = op.at /\ op'.seen = op.seen /\ op'.occupied = op.occupied
        /\ op'.failed = op.failed /\ op'.stirred = op.stirred /\ op'.hits = op.hits
        /\ op'.rotated = op.rotated /\ op'.slot = op.seen[op.at].slot
        /\ op'.forbidden = Forbidden(Asking("upstream_429"), op.at)
    BY <2>1 DEF StartsRotation, Asking
  <2>3. \A e \in Egresses : op.occupied[e] \notin {NoOne, op.at} => e \in op'.forbidden
    BY <1>t, <2>2 DEF Forbidden, Asking, Ops
  <2>4. Untroubled' => SecondPassInv'
    <3> SUFFICES ASSUME Untroubled' PROVE SecondPassInv'
      OBVIOUS
    <3>1. SecondPassInv
      BY <1>f, <2>2, UntroubledBefore
    <3>2. \A i \in Instances : /\ Noted(i) => Noted(i)'
                               /\ Considered(i)' <=> Considered(i)
                               /\ Unmoved(i) => Unmoved(i)'
      BY <1>t, <2>2, NotedKept, SeenKept, ConsideredKept DEF Unmoved
    <3>3. \A e \in Occupied' : op'.occupied[e] = op'.at \/ e \in op'.forbidden
      BY <2>2, <2>3 DEF Occupied
    <3>4. op'.pc \in InRotation /\ op'.pc # "limits"
      BY <2>2 DEF InRotation
    <3>5. WouldShow(gate'[op'.at], op'.slot)
      <4>1. AsSeen(op.at)
        BY <1>t, <1>2, <3>1 DEF SecondPassInv, Unmoved
      <4>2. gate[op.at] \in Gates(op.at)
        BY <1>t DEF Types
      <4> QED
        BY <1>t, <1>2, <2>2, <4>1, <4>2, ShownSlotExists DEF AsSeen
    <3>6. \A i \in Instances : i > op.at => Unmoved(i)'
      BY <3>1, <3>2 DEF SecondPassInv
    <3> QED
      BY <1>n, <2>2, <3>1, <3>2, <3>3, <3>4, <3>5, <3>6 DEF SecondPassInv
  <2>5. PassInv'
    BY <2>2 DEF PassInv, InRotation
  <2> QED
    BY <2>2, <2>4, <2>5 DEF PassParts, ReconcileInv, Untroubled
<1> QED
  BY <1>1, <1>2 DEF LimitsSkip, Limits, NewlyLimited

\* A rotation for a 429 has found an address: it is apart from those of the
\* first pass, as long as no other rotation of this kind came before it.
LEMMA HitFinds ==
  ASSUME WorldTypes, OpTypes, PassParts, op.kind = "reconcile", op.reason = "upstream_429",
         NEW e \in Egresses, Found(e), \A j \in Instances \ {op.at} : gate'[j] = gate[j]
  PROVE  PassParts'
<1>t. op \in Ops /\ op.at \in Instances /\ op.pc \in InRotation /\ op.pc # "end" /\ op.pc # "read"
      /\ op.hits \in 0 .. 2 /\ op.occupied \in [Egresses -> {NoOne} \cup Instances]
  BY DEF OpTypes, Ops, Found, InRotation, Trying
<1>1. GoesOn(WithHit(op), op')
  BY <1>t, RotatedGoesOn DEF Found
<1>2. (IF op.hits < 2 THEN op.hits + 1 ELSE 2) \in 0 .. 2
  BY <1>t
<1>3. /\ InPass(WithHit(op)) /\ WithHit(op).reason = "upstream_429"
      /\ WithHit(op).hits = (IF op.hits < 2 THEN op.hits + 1 ELSE 2)
      /\ WithHit(op).seen = op.seen /\ WithHit(op).stirred = op.stirred
      /\ WithHit(op).failed = op.failed /\ WithHit(op).at = op.at
  BY <1>t, <1>2 DEF WithHit, InPass, Ops
<1>4. WithHit(op).hits # 0 /\ (WithHit(op).hits <= 1 => op.hits = 0)
  BY <1>t, <1>3
<1>5. op'.seen = op.seen /\ op'.stirred = op.stirred /\ op'.failed = op.failed
      /\ op'.rotated = op.rotated
  <2>1. WithHit(op).rotated = op.rotated
    BY <1>t, <1>2 DEF WithHit, Ops
  <2> QED
    BY <1>1, <1>3, <2>1 DEF GoesOn, SameRest
<1>7. ASSUME Untroubled', NEW i \in Instances, i > op.at PROVE Unmoved(i)'
  <2>1. SecondPassInv
    BY <1>t, <1>5, <1>7, UntroubledBefore DEF PassParts, ReconcileInv, Untroubled
  <2>2. i # op.at
    BY <1>t, <1>7 DEF Instances
  <2> QED
    BY <1>5, <1>7, <2>1, <2>2, SeenKept DEF SecondPassInv, Unmoved
<1>6. ASSUME Untroubled', op.hits = 0 PROVE AllApart'
  <2>1. SecondPassInv
    BY <1>t, <1>5, <1>6, UntroubledBefore DEF PassParts, ReconcileInv, Untroubled
  <2>2. ASSUME NEW j \in Instances \ {op.at}, Considered(j)
        PROVE  Noted(j) /\ Shown(j)' = Shown(j) /\ Shown(j) # e
    <3>1. Noted(j)
      BY <1>6, <2>1, <2>2 DEF SecondPassInv
    <3>4. Shown(j)' = Shown(j)
      BY <2>2 DEF Shown
    <3>2. CASE Shown(j) \notin Egresses
      BY <3>1, <3>2, <3>4
    <3>3. CASE Shown(j) \in Egresses
      <4>1. Shown(j) \in Occupied /\ op.occupied[Shown(j)] # op.at
        BY <3>1, <3>3 DEF Noted, Occupied, NoOne, Instances
      <4>2. Shown(j) \in op.forbidden
        BY <1>t, <2>1, <4>1 DEF SecondPassInv
      <4> QED
        BY <3>1, <3>4, <4>2 DEF Found
    <3> QED
      BY <3>2, <3>3
  <2>3. \A j \in Instances : j = op.at => Shown(j)' = e
    BY <1>t, <2>1 DEF Found, SecondPassInv
  <2>4. ASSUME NEW i \in Instances, NEW j \in Instances, i # j, Considered(i), Considered(j)
        PROVE  Apart(i, j)'
    <3>1. CASE i # op.at /\ j # op.at
      <4>1. Apart(i, j)
        BY <2>2, <2>4, <3>1, NotedApart
      <4>2. Shown(i)' = Shown(i) /\ Shown(j)' = Shown(j)
        <5>1. i \in Instances \ {op.at} /\ j \in Instances \ {op.at}
          BY <3>1
        <5> QED
          BY <2>2, <2>4, <5>1
      <4> QED
        BY <4>1, <4>2 DEF Apart
    <3>2. CASE i = op.at
      BY <2>2, <2>3, <2>4, <3>2 DEF Apart
    <3>3. CASE j = op.at
      BY <2>2, <2>3, <2>4, <3>3 DEF Apart
    <3> QED
      BY <3>1, <3>2, <3>3
  <2> QED
    BY <1>5, <2>4, ConsideredKept DEF AllApart
<1> QED
  BY <1>1, <1>3, <1>4, <1>6, <1>7, SecondPassGoesOn

LEMMA RotationPass ==
  ASSUME WorldTypes, OpTypes, PassParts, op.kind = "reconcile",
         Group \/ Try \/ GiveUp \/ Restore \/ Probe \/ Reprobe
  PROVE  PassParts'
<1>t. op.pc \in InRotation /\ op.pc # "end" /\ op.pc # "read" /\ op.pc # "dedup"
  BY DEF Group, Try, GiveUp, Restore, Probe, Reprobe, InRotation, Trying
<1>p. InPass(op) /\ op.reason \in {"duplicate_egress", "upstream_429"}
  BY <1>t DEF PassParts, PassInv, InPass, OpTypes
<1>1. CASE Group \/ Try \/ GiveUp \/ Restore
  BY <1>t, <1>p, <1>1, TryStep, PassRuns, PassFailed
<1>2. CASE Probe
  <2>1. CASE SameRun
    BY <1>2, <2>1, ProbeStep, PassRuns
  <2>2. ASSUME NEW e \in Egresses, Found(e) PROVE PassParts'
    <3>1. CASE op.reason = "upstream_429"
      BY <1>2, <2>2, <3>1, ProbeStep, HitFinds
    <3>2. CASE op.reason = "duplicate_egress"
      <4>1. GoesOn(WithNoted(op, e), op')
        BY <1>t, <2>2, <3>2, RotatedGoesOn DEF Found, OpTypes
      <4>2. /\ InPass(WithNoted(op, e)) /\ WithNoted(op, e).reason = "duplicate_egress"
            /\ WithNoted(op, e).seen = op.seen /\ WithNoted(op, e).stirred = op.stirred
            /\ WithNoted(op, e).failed = op.failed /\ WithNoted(op, e).at = op.at
            /\ WithNoted(op, e).occupied = [op.occupied EXCEPT ![e] = op.at]
            /\ WithNoted(op, e).rotated = op.rotated \cup {op.at}
        BY <1>p, <3>2 DEF WithNoted, InPass, OpTypes, Ops
      <4>3. op.at \in Instances
        BY DEF OpTypes, Ops
      <4>6. \A i \in Instances : i = op.at => Shown(i)' = e
        BY <1>t, <2>2, <3>2, SingleShows DEF Found
      <4>4. CASE e \notin Occupied
        BY <1>2, <1>t, <3>2, <4>1, <4>2, <4>4, <4>6, ProbeStep, NotedFinds
      <4>5. CASE e \in Occupied
        <5>1. ~Untroubled
          <6>1. Untroubled => Occupied \subseteq op.forbidden
            BY <1>t, <3>2, <4>3 DEF PassParts, ReconcileInv, Untroubled, FirstPassInv
          <6> QED
            BY <2>2, <4>5, <6>1 DEF Found
        <5>2. ~Untroubled'
          <6>1. op'.seen = op.seen /\ op'.stirred = op.stirred /\ op'.failed = op.failed
            BY <4>1, <4>2 DEF GoesOn, SameRest
          <6> QED
            BY <5>1, <6>1, UntroubledBefore
        <5> QED
          BY <3>2, <4>1, <4>2, <5>2, FirstPassGoesOn
      <4> QED
        BY <4>4, <4>5
    <3> QED
      BY <1>p, <3>1, <3>2
  <2> QED
    BY <1>2, <2>1, <2>2, ProbeStep
<1>3. CASE Reprobe
  BY <1>t, <1>p, <1>3, PassFailed DEF Reprobe
<1> QED
  BY <1>1, <1>2, <1>3

LEMMA NextPass ==
  ASSUME Types, OpSlots, Reading, PassParts, [Next]_vars
  PROVE  PassParts'
<1>t. WorldTypes /\ OpTypes /\ OpTypes'
  BY TypesParts, NextTypes DEF OpTypes, Types
<1>1. CASE Begin("reconcile", 1) \/ Begin("refresh", 1) \/ End
           \/ \E i \in Instances : BeginManual(i)
  <2>1. (op'.pc = "read" /\ op'.reason = "none" /\ op'.hits = 0) \/ op'.kind \in {"refresh", "none"}
    BY <1>1, BeginOp
  <2> QED
    BY <2>1 DEF PassParts, PassInv, ReconcileInv, InRotation, Trying
<1>2. CASE Resubscribe \/ (\E i \in Instances : GatewaySwitches(i) \/ GatewayLimited(i))
           \/ (\E n \in Nodes : NodeMoves(n))
  <2>1. CASE op' = op /\ op = Idle
    BY <2>1, IdleType DEF PassParts, PassInv, ReconcileInv
  <2>2. CASE ~(op' = op /\ op = Idle)
    BY <1>t, <1>2, <2>2, EventOp DEF PassParts, PassInv, ReconcileInv, Informed
  <2> QED
    BY <2>1, <2>2
<1>3. CASE Read
  <2>1. PICK seen \in {Summary(op.at), Absent} : ReadResult(seen)
    BY <1>t, <1>3, ReadDoes
  <2>2. /\ op'.kind = op.kind /\ op'.stirred = op.stirred /\ op.pc = "read"
        /\ op'.reason = op.reason /\ op'.hits = op.hits
        /\ op'.pc = "read" \/ op.kind = "manual" \/ (op'.pc = "dedup" /\ op'.at = 1)
    BY <1>3, <2>1 DEF ReadResult, Read
  <2>3. PassInv'
    BY <2>2 DEF PassParts, PassInv, InRotation, Trying
  <2>4. ASSUME op.kind = "reconcile", op'.pc # "read", Untroubled' PROVE FirstPassInv'
    <3>1. \A i \in Instances : AsSeen(i)'
      BY <1>t, <1>3, <2>2, <2>4, ReadShows DEF Reading, Untroubled, Informed
    <3>2. \A i \in Instances : ~(i < 1)
      BY DEF Instances
    <3> QED
      BY <2>2, <2>4, <3>1, <3>2 DEF FirstPassInv, InRotation, Trying
  <2>5. op.kind = "reconcile" => op'.reason # "upstream_429"
    BY <2>2 DEF PassParts, PassInv
  <2> QED
    BY <2>2, <2>3, <2>4, <2>5 DEF PassParts, ReconcileInv, Untroubled
<1>4. CASE DedupSkip \/ DedupOccupy \/ DedupRefused \/ DedupCandidate \/ DedupRotate
           \/ LimitsSkip \/ Limits \/ TargetGone \/ TargetCandidate \/ TargetRotate
           \/ Group \/ Try \/ GiveUp \/ Restore \/ Probe \/ Reprobe \/ RefreshSkip \/ Refresh
  <2>1. op'.kind = op.kind /\ op'.pc # "read"
    BY <1>t, <1>4, LookKind
  <2>2. CASE op.kind # "reconcile"
    BY <2>1, <2>2 DEF PassParts, PassInv, ReconcileInv
  <2>3. CASE op.kind = "reconcile"
    <3>1. op.pc \in {"read", "dedup", "limits", "end"} \cup InRotation
      BY <2>3 DEF PassParts, PassInv
    <3>2. ~(TargetGone \/ TargetCandidate \/ TargetRotate \/ RefreshSkip \/ Refresh)
      BY <3>1 DEF TargetGone, TargetCandidate, TargetRotate, RefreshSkip, Refresh, InRotation, Trying
    <3> QED
      BY <1>t, <1>4, <2>3, <3>2, DedupPass, LimitsPass, RotationPass
  <2> QED
    BY <2>2, <2>3
<1>5. CASE UNCHANGED vars
  BY <1>5 DEF vars, PassParts, PassInv, ReconcileInv, Informed, FirstPassInv, SecondPassInv,
     AllApart, Noted, Done, Unmoved, Considered, Compared, AsSeen, Seen, Shown, Apart, Occupied
<1> QED
  BY <1>1, <1>2, <1>3, <1>4, <1>5 DEF Next, Work, BeginReconcile, BeginRefresh

-----------------------------------------------------------------------------
(* Every step keeps the invariant *)

LEMMA InitInv == Init => RotationInv
<1> SUFFICES ASSUME Init PROVE RotationInv
  OBVIOUS
<1>1. Types /\ OpSlots /\ RecordsInv
  BY InitTypes, InitRecords
<1>2. op.kind = "none" /\ op.pc = "end"
  BY IdleType DEF Init
<1> QED
  BY <1>1, <1>2 DEF RotationInv, Reading, ManualInv, PassInv, ReconcileInv

LEMMA NextInv == RotationInv /\ [Next]_vars => RotationInv'
<1> SUFFICES ASSUME RotationInv, [Next]_vars PROVE RotationInv'
  OBVIOUS
<1>1. Types' /\ OpSlots'
  BY NextTypes DEF RotationInv
<1>2. RecordsInv'
  BY NextRecords DEF RotationInv
<1>3. ManualParts'
  BY NextManual DEF RotationInv, ManualParts
<1>4. PassParts'
  BY NextPass DEF RotationInv, PassParts
<1> QED
  BY <1>1, <1>2, <1>3, <1>4 DEF RotationInv, ManualParts, PassParts

\* Types, places, records and passes, in every reachable state, for any number
\* of instances, places and addresses (rotation.go:60-469).
THEOREM RotationInvariant == Spec => []RotationInv
BY InitInv, NextInv, PTL DEF Spec

\* Between operations the address on record for a slot in service is the one
\* it has, save where the code gives up on it or somebody else changed it
\* (rotation.go:97-130).
THEOREM RecordsReal == Spec => []RecordsAreReal
<1>1. RotationInv => RecordsAreReal
  <2>1. Idle.pc \notin Trying
    BY IdleType DEF Trying
  <2> QED
    BY <2>1 DEF RotationInv, RecordsInv, Recorded, RecordsAreReal
<1> QED
  BY <1>1, RotationInvariant, PTL

\* The administrator's rotation ends on an address that is new to the instance
\* and shown by no other one (rotation.go:413-469).
THEOREM RotatesApart == Spec => []RotatedApart
<1>1. RotationInv => RotatedApart
  BY DEF RotationInv, ManualInv, RotatedApart, Informed
<1> QED
  BY <1>1, RotationInvariant, PTL

\* A reconciliation without failure leaves every two instances that it could
\* compare, those that showed a proxy with a known address, on different
\* addresses, unless it rotated twice for 429s (rotation.go:264-382).
THEOREM ReconcilesDistinct == Spec => []ReconciledDistinct
<1>1. RotationInv => ReconciledDistinct
  BY DEF RotationInv, PassInv, ReconcileInv, SecondPassInv, ReconciledDistinct, AllApart,
     InRotation, Trying
<1> QED
  BY <1>1, RotationInvariant, PTL
=============================================================================
