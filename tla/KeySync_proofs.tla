--------------------------- MODULE KeySync_proofs ---------------------------
(***************************************************************************)
(* Which gateways have the keys of the control plane, for any number of    *)
(* keys and instances, whatever parts the keys have, and any of the faults. *)
(***************************************************************************)
EXTENDS KeySync, TLAPS

Keys == SUBSET ClientKeys

\* What a gateway may know: keys, and parts of keys.
Known == SUBSET Words

Containers == [state : {"absent", "running", "stopped"}, env : Keys, mem : Known]

Ops == {Idle}
       \cup [pc : {"create", "replace", "wait", "swap", "push"}, name : Instances, keys : Keys]
       \cup [pc : {"read"}, name : Instances]

Types ==
  /\ keys \in Keys /\ file \in Keys
  /\ box \in [Boxes -> Containers]
  /\ disk \in [Instances -> Known]
  /\ op \in Ops

Own(b) == <<b[1], "own">>
Beside(b) == <<b[1], "next">>

\* A key change has yet to push to the container, or to the one that it has
\* replaced since: that push fails and is reported.
Pending(b) ==
  ~Unlocked /\ (b \in todo \/ (Beside(b) \in todo /\ ~Running(Beside(b))))

\* A lifecycle operation has started the container and will push to it.
Awaited(b) == op.pc \in {"read", "push"} /\ b = <<op.name, "own">>

Settled(b) == Running(b) /\ b \notin told \cup late /\ ~Pending(b) /\ ~Awaited(b)

\* The loop of a key change is about containers.
Central == Unlocked \/ todo \subseteq Boxes

\* There is no replacement yet, so no key change has listed it.
NoneBeside ==
  op.pc = "replace" => LET b == <<op.name, "next">> IN
                       box[b] = Absent /\ (Unlocked \/ b \notin todo)

\* It has the keys, or those without a comma, and will load these if Docker
\* restarts it.
HasKeys(b) ==
  /\ (IF b \in loaded THEN Plain(keys) ELSE keys) \subseteq box[b].mem
  /\ b[1] \notin worn => Plain(keys) \subseteq Loaded(box[b].env, disk[b[1]])

\* The operation is about to replace it.
Replacing(b) == op.pc = "swap" /\ op.name = b[1]

\* It has no others but parts of them, nor has the volume from which its
\* replacement starts.
HasNoOthers(b) ==
  b \notin alone =>
    /\ box[b].mem \subseteq keys \cup (IF b \in loaded THEN Parts(keys) ELSE {})
    /\ (b[2] = "own" \/ Replacing(b)) /\ b[1] \notin worn => disk[b[1]] \subseteq keys

Fine(b) == Settled(b) => HasKeys(b) /\ HasNoOthers(b)

KeysInv ==
  /\ Types /\ Central /\ NoneBeside
  /\ \A b \in Boxes : Fine(b)

-----------------------------------------------------------------------------
(* Types *)

LEMMA OpKinds ==
  ASSUME op \in Ops
  PROVE  /\ op.pc = "idle" <=> op = Idle
         /\ op.pc # "idle" => op.name \in Instances
         /\ op.pc \in {"create", "replace", "wait", "swap", "push"} => op.keys \in Keys
BY DEF Ops, Idle

LEMMA BoxNames ==
  /\ NoPush \notin Boxes
  /\ \A i \in Instances : <<i, "own">> \in Boxes /\ <<i, "next">> \in Boxes
  /\ \A b \in Boxes : b[1] \in Instances /\ (b = <<b[1], "own">> \/ b = <<b[1], "next">>)
BY DEF NoPush, Boxes

\* Keys that are joined and split again: their parts, and at least the keys
\* that have no comma.
LEMMA PartsOfKeys ==
  ASSUME NEW e \in Keys
  PROVE  Parts(e) \in Known /\ e \in Known /\ Plain(e) \subseteq Parts(e) /\ Plain(e) \subseteq e
BY KeySyncAssumption DEF Parts, Plain, Known, Keys

LEMMA ProcessType ==
  ASSUME NEW e \in Keys, NEW v \in Known
  PROVE  Process(e, v) \in Containers
<1>1. Parts(e) \cup v \in Known
  BY PartsOfKeys DEF Known
<1> QED
  BY <1>1 DEF Process, Loaded, Containers

LEMMA AbsentType == Absent \in Containers
BY DEF Absent, Containers, Keys, Known

LEMMA SavedTypes ==
  ASSUME Types, NEW b \in Boxes, NEW set \in Keys, PutKeys(b, set)
  PROVE  box' \in [Boxes -> Containers] /\ disk' \in [Instances -> Known]
<1>1. [box[b] EXCEPT !.mem = set] \in Containers
  BY PartsOfKeys DEF Types, Containers
<1>2. ASSUME Accepted(b, set)
      PROVE  box' \in [Boxes -> Containers] /\ disk' \in [Instances -> Known]
  <2>1. PICK v \in Known : disk' = [disk EXCEPT ![b[1]] = v]
    <3>1. set \in Known /\ disk[b[1]] \in Known /\ {} \in Known
      BY PartsOfKeys, BoxNames DEF Types, Known
    <3> QED
      BY <1>2, <3>1 DEF Accepted, Kept
  <2> QED
    BY <1>1, <1>2, <2>1 DEF Accepted, Types
<1> QED
  BY <1>2 DEF PutKeys, Types

\* What the volume of another instance has.
LEMMA KeptElsewhere ==
  ASSUME Types, NEW b \in Boxes, NEW set, Kept(b, set), NEW i \in Instances, i # b[1]
  PROVE  disk'[i] = disk[i] /\ (i \in worn' <=> i \in worn)
BY DEF Kept, Types

\* What the volume has after the push of a set.
LEMMA KeptHere ==
  ASSUME Types, NEW b \in Boxes, Kept(b, keys)
  PROVE  b[1] \in worn' \/ disk'[b[1]] = keys
BY BoxNames DEF Kept, Types

LEMMA InitTypes == Init => Types
BY AbsentType DEF Init, Types, Keys, Known, Ops

LEMMA NextTypes == ASSUME Types, [Next]_vars PROVE Types'
<1>own. \A i \in Instances : <<i, "own">> \in Boxes /\ <<i, "next">> \in Boxes
  BY DEF Boxes
<1> USE DEF Types, central, history
<1>1. ASSUME NEW k \in ClientKeys, CreateKey(k) \/ DeleteKey(k) PROVE Types'
  BY <1>1 DEF CreateKey, DeleteKey, Change, Keys
<1>2. ASSUME NEW b \in Boxes, Push(b) PROVE Types'
  BY <1>2, SavedTypes DEF Push
<1>3. ASSUME NEW b \in Boxes, DockerRestart(b) PROVE Types'
  <2>1. box[b].env \in Keys /\ disk[b[1]] \in Known
    BY BoxNames DEF Containers
  <2> QED
    BY <1>3, <2>1, ProcessType DEF DockerRestart
<1>4. ASSUME NEW i \in Instances, Create(i) \/ Update(i) PROVE Types'
  BY <1>4 DEF Create, Update, Begin, Ops
<1>5. ASSUME NEW i \in Instances, Stop(i) PROVE Types'
  <2> DEFINE b == <<i, "own">>
  <2>1. [[box[b] EXCEPT !.state = "stopped"] EXCEPT !.mem = {}] \in Containers
    BY <1>own DEF Containers, Keys, Known
  <2>2. box' = [box EXCEPT ![b] = [[box[b] EXCEPT !.state = "stopped"] EXCEPT !.mem = {}]]
    BY <1>5, <1>own DEF Stop
  <2> HIDE DEF b
  <2> QED
    BY <1>5, <2>1, <2>2 DEF Stop
<1>6. ASSUME NEW i \in Instances, Start(i) PROVE Types'
  <2>1. box[<<i, "own">>].env \in Keys /\ disk[i] \in Known
    BY <1>own DEF Containers
  <2> QED
    BY <1>6, <2>1, ProcessType DEF Start, Ops
<1>7. ASSUME NEW i \in Instances, Delete(i) PROVE Types'
  BY <1>7, AbsentType DEF Delete, Known
<1>8. CASE Persist
  BY <1>8 DEF Persist, Keys
<1>9. CASE Launch
  BY <1>9, <1>own, OpKinds, ProcessType DEF Launch, Ops
<1>10. CASE LaunchNext
  <2>1. op.name \in Instances /\ op.keys \in Keys /\ disk[op.name] \in Known
    BY <1>10, OpKinds DEF LaunchNext
  <2>2. [state |-> "stopped", env |-> op.keys, mem |-> {}] \in Containers
    BY <2>1 DEF Containers, Known
  <2>3. box' \in [Boxes -> Containers]
    <3>1. PICK e \in Containers : box' = [box EXCEPT ![<<op.name, "next">>] = e]
      <4>1. CASE Running(<<op.name, "own">>)
        BY <1>10, <2>1, <4>1, ProcessType DEF LaunchNext
      <4>2. CASE ~Running(<<op.name, "own">>)
        BY <1>10, <2>2, <4>2 DEF LaunchNext
      <4> QED
        BY <4>1, <4>2
    <3> QED
      BY <3>1
  <2>4. op.pc = "replace" /\ op' = [op EXCEPT !.pc = "swap"]
    BY <1>10 DEF LaunchNext
  <2>6. op' \in Ops
    BY <2>4 DEF Ops, Idle
  <2>5. UNCHANGED <<keys, file, disk>>
    BY <1>10 DEF LaunchNext
  <2> QED
    BY <2>3, <2>5, <2>6
<1>11. CASE Withdraw
  BY <1>11, AbsentType DEF Withdraw, Ops
<1>12. CASE Announce
  BY <1>12 DEF Announce, Ops
<1>13. CASE Swap
  BY <1>13, <1>own, OpKinds, AbsentType DEF Swap, Ops
<1>14. CASE ReadKeys
  BY <1>14, OpKinds DEF ReadKeys, Ops
<1>15. CASE PushRead
  BY <1>15, <1>own, OpKinds, SavedTypes DEF PushRead, Ops
<1>16. CASE Crash
  BY <1>16 DEF Crash, Ops
<1>17. CASE UNCHANGED vars
  BY <1>17 DEF vars
<1> QED
  BY <1>1, <1>2, <1>3, <1>4, <1>5, <1>6, <1>7, <1>8, <1>9, <1>10, <1>11, <1>12, <1>13,
     <1>14, <1>15, <1>16, <1>17 DEF Next, Begins, Proceeds

-----------------------------------------------------------------------------
(* One container *)

LEMMA InitFine == Init => Central /\ NoneBeside /\ \A b \in Boxes : Fine(b)
BY DEF Init, Central, NoneBeside, Fine, Settled, Running, Absent, Unlocked, Idle

\* A step that leaves a container alone, and settles nothing.
LEMMA Stays ==
  ASSUME NEW c \in Boxes, Fine(c), Settled(c)' => Settled(c), keys' = keys,
         box'[c] = box[c], disk'[c[1]] = disk[c[1]],
         c[1] \notin worn' => c[1] \notin worn,
         c \notin alone' => c \notin alone,
         c \in loaded' <=> c \in loaded,
         Replacing(c)' => Replacing(c)
  PROVE  Fine(c)'
BY DEF Fine, HasKeys, HasNoOthers, Plain, Parts, Loaded

\* Nobody but a settled container needs to be looked at.
LEMMA NotRunning ==
  ASSUME NEW c \in Boxes, ~Running(c)'
  PROVE  Fine(c)'
BY DEF Fine, Settled

LEMMA Excused ==
  ASSUME NEW c \in Boxes, c \in told' \/ c \in late'
  PROVE  Fine(c)'
BY DEF Fine, Settled

\* A container that got the keys, on the volume too if they could be written.
LEMMA Served ==
  ASSUME NEW c \in Boxes, box'[c].mem = keys', c \notin loaded',
         c[1] \in worn' \/ disk'[c[1]] = keys'
  PROVE  Fine(c)'
BY DEF Fine, HasKeys, HasNoOthers, Plain, Loaded

LEMMA LockHeld ==
  ASSUME Central, NEW b \in todo \cap Boxes
  PROVE  ~Unlocked /\ todo \subseteq Boxes /\ ~(todo \ {b} = {NoPush})
BY BoxNames DEF Central, Unlocked

-----------------------------------------------------------------------------
(* Changes of the set, and pushes *)

LEMMA ChangeKeeps ==
  ASSUME KeysInv, NEW set \in Keys, Change(set)
  PROVE  Central' /\ NoneBeside' /\ \A b \in Boxes : Fine(b)'
<1>1. PICK listed \in SUBSET {b \in Boxes : Running(b)} :
        /\ todo' = listed
        /\ late' = late \cup ({b \in Boxes : Running(b)} \ listed)
  BY DEF Change
<1>2. ~Unlocked' /\ todo' \subseteq Boxes
  BY <1>1, BoxNames DEF Unlocked
<1>3. NoneBeside'
  BY <1>1 DEF Change, NoneBeside, KeysInv, Running, Absent
<1>4. ASSUME NEW b \in Boxes, Settled(b)' PROVE FALSE
  <2>1. Running(b)
    BY <1>4 DEF Settled, Change, Running
  <2>2. b \in todo'
    BY <1>1, <1>4, <2>1 DEF Settled
  <2> QED
    BY <1>2, <1>4, <2>2 DEF Settled, Pending
<1> QED
  BY <1>2, <1>3, <1>4 DEF Central, Fine

\* The sets that are pushed: to the container that is served, to the other
\* container of the instance, and to containers of other instances.
LEMMA PutServes ==
  ASSUME KeysInv, NEW b \in Boxes, NEW set \in Keys, PutKeys(b, set), keys' = keys
  PROVE  Fine(b)'
<1>1. CASE b \in told'
  BY <1>1, Excused
<1>2. CASE b \notin told'
  <2>1. Accepted(b, set) /\ late' = LateIf(b, set # keys) /\ b \notin loaded'
    <3>1. b \in {<<b[1], "own">>, <<b[1], "next">>}
      BY BoxNames
    <3> QED
      BY <1>2, <3>1 DEF PutKeys
  <2>2. CASE set # keys
    BY <2>1, <2>2, Excused DEF LateIf
  <2>3. CASE set = keys
    <3>1. box'[b] = [box[b] EXCEPT !.mem = keys] /\ Kept(b, keys)
      BY <2>1, <2>3 DEF Accepted, KeysInv, Types
    <3>2. box'[b].mem = keys
      BY <3>1 DEF KeysInv, Types, Containers
    <3>3. b[1] \in worn' \/ disk'[b[1]] = keys
      BY <3>1, KeptHere DEF KeysInv
    <3> QED
      BY <2>1, <3>2, <3>3, Served
  <2> QED
    BY <2>2, <2>3
<1> QED
  BY <1>1, <1>2

LEMMA PutElsewhere ==
  ASSUME KeysInv, NEW b \in Boxes, NEW set \in Keys, PutKeys(b, set), keys' = keys,
         NEW c \in Boxes, c # b,
         \/ c \in told'
         \/ Settled(c)' => Settled(c),
         Replacing(c)' => Replacing(c)
  PROVE  Fine(c)'
<1>fine. Fine(c)
  BY DEF KeysInv
<1>1. CASE c \in told'
  BY <1>1, Excused
<1>2. CASE UNCHANGED <<box, disk, worn>>
  <2>1. (c \notin alone' => c \notin alone) /\ (c \in loaded' <=> c \in loaded)
    BY DEF PutKeys
  <2> QED
    BY <1>1, <1>2, <1>fine, <2>1, Stays
<1>3. CASE Accepted(b, set) /\ c \notin told'
  <2>1. box'[c] = box[c] /\ (c \notin alone' => c \notin alone)
        /\ (c \in loaded' <=> c \in loaded)
    BY <1>3 DEF PutKeys, Accepted, KeysInv, Types
  <2>2. CASE c[1] # b[1]
    <3>1. disk'[c[1]] = disk[c[1]] /\ (c[1] \notin worn' => c[1] \notin worn)
      BY <1>3, <2>2, BoxNames, KeptElsewhere DEF Accepted, KeysInv
    <3> QED
      BY <1>3, <1>fine, <2>1, <3>1, Stays
  <2>3. CASE c[1] = b[1] /\ set = keys
    <3>1. c[1] \in worn' \/ disk'[c[1]] = keys
      BY <1>3, <2>3, KeptHere DEF Accepted, KeysInv
    <3>2. Settled(c)' => Settled(c)
      BY <1>3
    <3> QED
      BY <1>fine, <2>1, <3>1, <3>2 DEF Fine, HasKeys, HasNoOthers, Plain, Parts, Loaded
  <2>4. CASE c[1] = b[1] /\ set # keys
    <3>1. c[1] \in worn'
      BY <1>3, <2>4 DEF Accepted, Kept
    <3>2. Settled(c)' => Settled(c)
      BY <1>3
    <3> QED
      BY <1>fine, <2>1, <3>1, <3>2 DEF Fine, HasKeys, HasNoOthers, Plain, Parts
  <2> QED
    BY <2>2, <2>3, <2>4
<1> QED
  BY <1>1, <1>2, <1>3 DEF PutKeys

LEMMA PutOthersRun ==
  ASSUME KeysInv, NEW b \in Boxes, NEW set \in Keys, PutKeys(b, set)
  PROVE  \A c \in Boxes : Running(c)' <=> Running(c)
BY BoxNames DEF PutKeys, Accepted, Running, KeysInv, Types, Containers

LEMMA PushKeeps ==
  ASSUME KeysInv, NEW b \in Boxes, Push(b)
  PROVE  Central' /\ NoneBeside' /\ \A c \in Boxes : Fine(c)'
<1>1. b \in todo /\ PutKeys(b, keys) /\ todo' = todo \ {b} /\ UNCHANGED <<keys, file, op>>
  BY DEF Push
<1>2. ~Unlocked /\ ~Unlocked' /\ todo \subseteq Boxes
  BY <1>1, LockHeld DEF KeysInv, Unlocked
<1>3. NoneBeside'
  <2> SUFFICES ASSUME op.pc = "replace"
               PROVE  box'[<<op.name, "next">>] = Absent /\ <<op.name, "next">> \notin todo'
    BY <1>1 DEF NoneBeside
  <2>1. box[<<op.name, "next">>] = Absent /\ <<op.name, "next">> \notin todo
    BY <1>2 DEF NoneBeside, KeysInv
  <2>2. <<op.name, "next">> # b
    BY <1>1, <2>1
  <2>3. <<op.name, "next">> \in Boxes
    BY OpKinds, BoxNames DEF KeysInv, Types
  <2> QED
    BY <1>1, <2>1, <2>2, <2>3 DEF PutKeys, Accepted, KeysInv, Types
<1>4. ASSUME NEW c \in Boxes, c # b PROVE Fine(c)'
  <2>1. c \in told' \/ (Settled(c)' => Settled(c))
    <3> SUFFICES ASSUME c \notin told', Settled(c)' PROVE Settled(c)
      OBVIOUS
    <3>1. Running(c) /\ c \notin told /\ c \notin late
      BY <1>1, <1>4, PutOthersRun DEF Settled, PutKeys, LateIf, KeysInv, Types
    <3>2. ~Awaited(c)
      BY <1>1 DEF Settled, Awaited
    <3>3. c \notin todo
      BY <1>1, <1>2, <1>4 DEF Settled, Pending
    <3>4. Beside(c) \in todo => Running(Beside(c))
      <4>1. CASE Beside(c) # b
        <5>1. Beside(c) \in Boxes
          BY BoxNames DEF Beside
        <5>2. Running(Beside(c))' <=> Running(Beside(c))
          BY <1>1, <5>1, PutOthersRun DEF KeysInv, Types
        <5>3. Beside(c)' = Beside(c)
          BY DEF Beside
        <5>4. Beside(c) \in todo' => Running(Beside(c))'
          BY <1>2, <5>3 DEF Settled, Pending
        <5> QED
          BY <1>1, <4>1, <5>2, <5>4
      <4>2. CASE Beside(c) = b
        <5>1. c \in {<<b[1], "own">>, <<b[1], "next">>}
          BY <4>2, BoxNames DEF Beside
        <5> QED
          BY <1>1, <4>2, <5>1 DEF PutKeys, Accepted
      <4> QED
        BY <4>1, <4>2
    <3> QED
      BY <3>1, <3>2, <3>3, <3>4 DEF Settled, Pending
  <2>2. keys \in Keys
    BY DEF KeysInv, Types
  <2>3. Replacing(c)' => Replacing(c)
    BY <1>1 DEF Replacing
  <2>4. PutKeys(b, keys) /\ keys' = keys
    BY <1>1
  <2> QED
    BY <1>4, <2>1, <2>2, <2>3, <2>4, PutElsewhere, Zenon
<1>5. Fine(b)'
  BY <1>1, PutServes DEF KeysInv, Types
<1> QED
  BY <1>1, <1>2, <1>3, <1>4, <1>5 DEF Central

LEMMA PersistKeeps ==
  ASSUME KeysInv, Persist
  PROVE  Central' /\ NoneBeside' /\ \A c \in Boxes : Fine(c)'
<1>1. Central' /\ NoneBeside'
  BY DEF Persist, Central, NoneBeside, Unlocked, KeysInv, history
<1>2. ASSUME NEW c \in Boxes PROVE Settled(c)' => Settled(c)
  BY DEF Persist, history, Settled, Running, Pending, Awaited
<1> QED
  BY <1>1, <1>2, Stays DEF Persist, history, KeysInv, Replacing

-----------------------------------------------------------------------------
(* Lifecycle operations; they change neither the set nor todo *)

\* A container that the step does not touch, and whose standing it does not
\* improve.
LEMMA Untouched ==
  ASSUME NEW c \in Boxes, Fine(c), UNCHANGED <<keys, todo>>,
         box'[c] = box[c], disk'[c[1]] = disk[c[1]],
         c[1] \notin worn' => c[1] \notin worn,
         c \notin told' => c \notin told,
         c \notin late' => c \notin late,
         c \notin alone' => c \notin alone,
         c \in loaded' <=> c \in loaded,
         Awaited(c) => Awaited(c)',
         Replacing(c)' => Replacing(c),
         \/ Unlocked
         \/ Beside(c) \notin todo
         \/ Running(Beside(c))' => Running(Beside(c))
  PROVE  Fine(c)'
<1>1. Settled(c)' => Settled(c)
  BY DEF Settled, Pending, Unlocked, Running, Beside
<1> QED
  BY <1>1, Stays

LEMMA SameCentral ==
  ASSUME KeysInv, UNCHANGED central
  PROVE  Central'
BY DEF KeysInv, Central, central, Unlocked

LEMMA NoReplace ==
  ASSUME op'.pc # "replace"
  PROVE  NoneBeside'
BY DEF NoneBeside

Pair(i) == {<<i, "own">>, <<i, "next">>}

LEMMA Pairs ==
  ASSUME NEW c \in Boxes
  PROVE  /\ Own(c) \in Boxes /\ Beside(c) \in Boxes
         /\ Own(c) # Beside(c)
         /\ c \in Pair(c[1])
         /\ \A i \in Instances : c \notin Pair(i) => c[1] # i /\ Own(c) \notin Pair(i)
                                                   /\ Beside(c) \notin Pair(i)
         /\ \A i \in Instances : c \in Pair(i) => c[1] = i
BY BoxNames DEF Own, Beside, Pair

LEMMA BeginKeeps ==
  ASSUME KeysInv, NEW i \in Instances, Create(i) \/ Update(i)
  PROVE  Central' /\ NoneBeside' /\ \A c \in Boxes : Fine(c)'
<1>1. op = Idle /\ Unlocked
      /\ UNCHANGED <<keys, file, todo, box, disk, told, alone, loaded, late, worn>>
  BY DEF Create, Update, Begin, central, history
<1>2. op'.pc \in {"create", "replace"} /\ op'.name = i
  BY DEF Create, Update, Begin
<1>3. NoneBeside'
  <2>1. CASE Create(i)
    BY <2>1, NoReplace DEF Create, Begin
  <2>2. CASE Update(i)
    BY <1>1, <1>2, <2>2 DEF Update, NoneBeside, Unlocked
  <2> QED
    BY <2>1, <2>2
<1>4. ASSUME NEW c \in Boxes PROVE Fine(c)'
  <2>1. ~Awaited(c) /\ ~Replacing(c)'
    BY <1>1, <1>2 DEF Awaited, Replacing, Idle
  <2>2. Fine(c)
    BY DEF KeysInv
  <2> QED
    BY <1>1, <2>1, <2>2, Untouched
<1> QED
  BY <1>1, <1>3, <1>4, SameCentral DEF central

LEMMA LaunchKeeps ==
  ASSUME KeysInv, Launch
  PROVE  Central' /\ NoneBeside' /\ \A c \in Boxes : Fine(c)'
<1> DEFINE b == <<op.name, "own">>
<1>1. /\ op.pc = "create" /\ op' = [op EXCEPT !.pc = "wait"]
      /\ box' = [box EXCEPT ![b] = Process(op.keys, disk[op.name])]
      /\ alone' = (IF disk[op.name] = {} THEN alone ELSE alone \cup {b})
      /\ loaded' = loaded \cup {b}
      /\ late' = LateIf(b, Outrun)
      /\ UNCHANGED <<keys, file, todo, disk, told, worn>>
  BY DEF Launch, central
<1>2. op.name \in Instances /\ b \in Boxes /\ op'.pc = "wait"
  BY <1>1, OpKinds, BoxNames DEF KeysInv, Types, Ops, Idle
<1>3. Fine(b)'
  <2>1. CASE Outrun
    BY <1>1, <1>2, <2>1, Excused DEF LateIf
  <2>2. CASE ~Outrun
    <3>1. box'[b].mem = Loaded(keys, disk[op.name]) /\ box'[b].env = keys /\ b \in loaded'
      BY <1>1, <1>2, <2>2 DEF Outrun, Process, KeysInv, Types
    <3>p. Plain(keys) \subseteq Parts(keys)
      BY PartsOfKeys DEF KeysInv, Types
    <3>2. HasKeys(b)'
      BY <1>1, <3>1, <3>p DEF HasKeys, Plain, Parts, Loaded
    <3>3. b \notin alone' => disk[op.name] = {}
      BY <1>1
    <3>4. HasNoOthers(b)'
      BY <1>1, <3>1, <3>3 DEF HasNoOthers, Parts, Loaded
    <3> QED
      BY <3>2, <3>4 DEF Fine
  <2> QED
    BY <2>1, <2>2
<1>4. ASSUME NEW c \in Boxes, c # b PROVE Fine(c)'
  <2>1. Fine(c) /\ box'[c] = box[c]
    BY <1>1, <1>4 DEF KeysInv, Types
  <2>2. /\ c \notin alone' => c \notin alone
        /\ c \notin late' => c \notin late
        /\ c \in loaded' <=> c \in loaded
    BY <1>1, <1>4 DEF LateIf
  <2>3. ~Awaited(c) /\ ~Replacing(c)'
    BY <1>1, <1>2 DEF Awaited, Replacing
  <2>4. Running(Beside(c))' => Running(Beside(c))
    BY <1>1, BoxNames DEF Running, Beside, KeysInv, Types
  <2> HIDE DEF b
  <2> QED
    BY <1>1, <2>1, <2>2, <2>3, <2>4, Untouched
<1> QED
  BY <1>1, <1>2, <1>3, <1>4, SameCentral, NoReplace DEF central

LEMMA LaunchNextKeeps ==
  ASSUME KeysInv, LaunchNext
  PROVE  Central' /\ NoneBeside' /\ \A c \in Boxes : Fine(c)'
<1>0. PICK i, old, b : i = op.name /\ old = <<i, "own">> /\ b = <<i, "next">>
  OBVIOUS
<1>1. op.pc = "replace" /\ op' = [op EXCEPT !.pc = "swap"] /\ UNCHANGED <<keys, file, todo, disk>>
  BY DEF LaunchNext, central
<1>2. i \in Instances /\ b \in Boxes /\ old \in Boxes /\ old # b
      /\ op'.pc = "swap" /\ op'.name = i
  BY <1>0, <1>1, OpKinds, BoxNames DEF KeysInv, Types, Ops, Idle
<1>3. box[b] = Absent /\ (Unlocked \/ b \notin todo)
  BY <1>0, <1>1 DEF KeysInv, NoneBeside
<1>4. worn' = worn
  BY DEF LaunchNext, history
<1>others. ASSUME NEW c \in Boxes, c # b PROVE Fine(c)'
  <2>1. Fine(c) /\ box'[c] = box[c]
    BY <1>0, <1>others DEF KeysInv, Types, LaunchNext
  <2>2. /\ c \notin alone' => c \notin alone
        /\ c \notin told' => c \notin told
        /\ c \notin late' => c \notin late
        /\ c \in loaded' <=> c \in loaded
    BY <1>0, <1>others DEF LaunchNext, LateIf, history
  <2>3. ~Awaited(c)
    BY <1>1 DEF Awaited
  <2>4. \/ Unlocked \/ Beside(c) \notin todo \/ (Running(Beside(c))' => Running(Beside(c)))
    <3>1. CASE Beside(c) = b
      BY <1>3, <3>1
    <3>2. CASE Beside(c) # b
      BY <1>0, <3>2, Pairs DEF LaunchNext, Running, KeysInv, Types
    <3> QED
      BY <3>1, <3>2
  <2>5. CASE c[1] # i
    <3>1. ~Replacing(c)'
      BY <1>2, <2>5 DEF Replacing
    <3> QED
      BY <1>1, <1>4, <2>1, <2>2, <2>3, <2>4, <3>1, Untouched
  <2>6. CASE c[1] = i
    <3>1. c[2] = "own"
      BY <1>0, <1>others, <2>6, BoxNames
    <3>2. Settled(c)' => Settled(c)
      BY <1>0, <1>1, <2>1, <2>2, <2>3, <2>4 DEF Settled, Pending, Unlocked, Running, Beside
    <3> QED
      BY <1>1, <1>4, <2>1, <2>2, <3>1, <3>2
         DEF Fine, HasKeys, HasNoOthers, Plain, Parts, Loaded
  <2> QED
    BY <2>5, <2>6
<1>5. CASE Running(old)
  <2>1. /\ box' = [box EXCEPT ![b] = Process(op.keys, disk[i])]
        /\ b \notin alone' => old \notin alone /\ i \notin worn
        /\ b \notin told' => old \notin told
        /\ b \in loaded'
        /\ late' = LateIf(b, old \in late \/ Outrun)
    BY <1>0, <1>5 DEF LaunchNext
  <2>2. CASE b \in told' \/ b \in late'
    <3> SUFFICES Fine(b)'
      BY <1>1, <1>2, <1>others, SameCentral, NoReplace DEF central
    <3> QED
      BY <1>2, <2>2, Excused
  <2>3. CASE b \notin told' /\ b \notin late'
    <3> SUFFICES Fine(b)'
      BY <1>1, <1>2, <1>others, SameCentral, NoReplace DEF central
    <3>1. old \notin late /\ ~Outrun /\ old \notin told
      BY <2>1, <2>3 DEF LateIf
    <3>2. Settled(old)
      BY <1>0, <1>1, <1>5, <3>1 DEF Settled, Pending, Outrun, Awaited
    <3>3. HasKeys(old) /\ HasNoOthers(old)
      BY <1>2, <3>2 DEF KeysInv, Fine
    <3>4. box'[b].mem = Loaded(keys, disk[i]) /\ box'[b].env = keys
      BY <1>0, <1>2, <2>1, <3>1 DEF Outrun, Process, KeysInv, Types
    <3>p. Plain(keys) \subseteq Parts(keys)
      BY PartsOfKeys DEF KeysInv, Types
    <3>5. HasKeys(b)'
      BY <1>0, <1>1, <2>1, <3>4, <3>p DEF HasKeys, Plain, Parts, Loaded
    <3>6. old \notin alone /\ i \notin worn => disk[i] \subseteq keys
      BY <1>0, <3>3 DEF HasNoOthers
    <3>7. HasNoOthers(b)'
      BY <1>0, <1>1, <2>1, <3>4, <3>6 DEF HasNoOthers, Parts, Loaded
    <3> QED
      BY <3>5, <3>7 DEF Fine
  <2> QED
    BY <2>2, <2>3
<1>6. CASE ~Running(old)
  <2>1. box'[b].state = "stopped"
    BY <1>0, <1>2, <1>6 DEF LaunchNext, KeysInv, Types
  <2>2. Fine(b)'
    BY <1>2, <2>1, NotRunning DEF Running
  <2> QED
    BY <1>1, <1>2, <1>others, <2>2, SameCentral, NoReplace DEF central
<1> QED
  BY <1>5, <1>6

\* A container that is removed, or ends.
LEMMA Gone ==
  ASSUME KeysInv, NEW b \in Boxes, UNCHANGED <<keys, todo, worn, disk>>,
         ~Running(b)', \A c \in Boxes : c # b => box'[c] = box[c],
         told \subseteq told' \cup {b}, late \subseteq late' \cup {b},
         alone \subseteq alone' \cup {b},
         \A c \in Boxes : c # b => /\ Awaited(c) => Awaited(c)'
                                   /\ Replacing(c)' => Replacing(c)
                                   /\ c \in loaded' <=> c \in loaded
  PROVE  \A c \in Boxes : Fine(c)'
<1>1. ASSUME NEW c \in Boxes, c # b PROVE Fine(c)'
  <2>1. Running(Beside(c))' => Running(Beside(c))
    BY Pairs DEF Running
  <2>2. Fine(c)
    BY DEF KeysInv
  <2> QED
    BY <1>1, <2>1, <2>2, Untouched
<1> QED
  BY <1>1, NotRunning

LEMMA WithdrawKeeps ==
  ASSUME KeysInv, Withdraw
  PROVE  Central' /\ NoneBeside' /\ \A c \in Boxes : Fine(c)'
<1>0. PICK b : b = <<op.name, IF op.pc = "wait" THEN "own" ELSE "next">>
  OBVIOUS
<1>1. /\ op.pc \in {"wait", "swap"} /\ op' = Idle
      /\ box' = [box EXCEPT ![b] = Absent]
      /\ told' = told \ {b} /\ alone' = alone \ {b} /\ late' = late \ {b}
      /\ loaded' = loaded \ {b}
      /\ UNCHANGED <<keys, file, todo, disk, worn>>
  BY <1>0 DEF Withdraw, central
<1>2. b \in Boxes
  BY <1>0, <1>1, OpKinds, BoxNames DEF KeysInv, Types, Idle
<1>3. ~Running(b)' /\ \A c \in Boxes : c # b => box'[c] = box[c]
  BY <1>1, <1>2 DEF Running, Absent, KeysInv, Types
<1>4. \A c \in Boxes : ~Awaited(c) /\ ~Replacing(c)'
  BY <1>1 DEF Awaited, Replacing, Idle
<1>5. NoneBeside'
  BY <1>1, NoReplace DEF Idle
<1>6. Central'
  BY <1>1, SameCentral DEF central
<1> QED
  BY <1>1, <1>2, <1>3, <1>4, <1>5, <1>6, Gone

LEMMA StopKeeps ==
  ASSUME KeysInv, NEW i \in Instances, Stop(i)
  PROVE  Central' /\ NoneBeside' /\ \A c \in Boxes : Fine(c)'
<1> DEFINE b == <<i, "own">>
<1>1. op = Idle /\ UNCHANGED <<keys, file, todo, disk, op, told, alone, loaded, late, worn>>
  BY DEF Stop, central, history
<1>2. b \in Boxes
  BY BoxNames
<1>3. ~Running(b)' /\ \A c \in Boxes : c # b => box'[c] = box[c]
  BY <1>2 DEF Stop, Running, KeysInv, Types, Containers
<1>4. \A c \in Boxes : ~Awaited(c) /\ ~Replacing(c)'
  BY <1>1 DEF Awaited, Replacing, Idle
<1>5. NoneBeside' /\ Central'
  BY <1>1, NoReplace, SameCentral DEF Idle, central
<1> HIDE DEF b
<1> QED
  BY <1>1, <1>2, <1>3, <1>4, <1>5, Gone

LEMMA AnnounceKeeps ==
  ASSUME KeysInv, Announce
  PROVE  Central' /\ NoneBeside' /\ \A c \in Boxes : Fine(c)'
<1>1. op.pc = "wait" /\ op' = Idle
      /\ UNCHANGED <<keys, file, todo, box, disk, told, alone, loaded, late, worn>>
  BY DEF Announce, central, history
<1>2. NoneBeside' /\ Central'
  BY <1>1, NoReplace, SameCentral DEF Idle, central
<1>3. ASSUME NEW c \in Boxes PROVE Fine(c)'
  <2>1. ~Awaited(c) /\ ~Replacing(c)' /\ Fine(c)
    BY <1>1 DEF Awaited, Replacing, Idle, KeysInv
  <2>2. Running(Beside(c))' => Running(Beside(c))
    BY <1>1 DEF Running, Beside
  <2> QED
    BY <1>1, <2>1, <2>2, Untouched
<1> QED
  BY <1>2, <1>3

\* The replacement takes the place of the old container, with its flags.
LEMMA SwapKeeps ==
  ASSUME KeysInv, Swap
  PROVE  Central' /\ NoneBeside' /\ \A c \in Boxes : Fine(c)'
<1>0. PICK i, own, b : i = op.name /\ own = <<i, "own">> /\ b = <<i, "next">>
  OBVIOUS
<1>1. /\ op.pc = "swap" /\ op' = Idle
      /\ box' = [box EXCEPT ![own] = box[b], ![b] = Absent]
      /\ told' = Renamed(told, i) /\ alone' = Renamed(alone, i) /\ late' = Renamed(late, i)
      /\ loaded' = Renamed(loaded, i)
      /\ UNCHANGED <<keys, file, todo, disk, worn>>
  BY <1>0 DEF Swap, central
<1>2. i \in Instances /\ b \in Boxes /\ own \in Boxes /\ own # b
  BY <1>0, <1>1, OpKinds, BoxNames DEF KeysInv, Types, Idle
<1>3. box'[own] = box[b] /\ box'[b] = Absent
      /\ \A c \in Boxes : c # own /\ c # b => box'[c] = box[c]
  BY <1>1, <1>2 DEF KeysInv, Types
<1>4. \A S : (own \in Renamed(S, i) <=> b \in S)
             /\ \A c \in Boxes : c # own /\ c # b => (c \in Renamed(S, i) <=> c \in S)
  BY <1>0, <1>2 DEF Renamed
<1>5. NoneBeside' /\ Central'
  BY <1>1, NoReplace, SameCentral DEF Idle, central
<1>6. Fine(b)'
  BY <1>2, <1>3, NotRunning DEF Running, Absent
<1>7. Fine(own)'
  <2> SUFFICES ASSUME Settled(own)' PROVE (HasKeys(own) /\ HasNoOthers(own))'
    BY DEF Fine
  <2>1. Running(b) /\ b \notin told /\ b \notin late
    BY <1>1, <1>3, <1>4 DEF Settled, Running
  <2>2. ~Running(b)'
    BY <1>3 DEF Running, Absent
  <2>3. Beside(own) = b /\ Beside(b) = b
    BY <1>0 DEF Beside
  <2>4. Unlocked \/ b \notin todo
    BY <1>1, <2>2, <2>3 DEF Settled, Pending, Unlocked, Running, Beside
  <2>5. Settled(b)
    BY <1>1, <2>1, <2>3, <2>4 DEF Settled, Pending, Awaited
  <2>6. HasKeys(b) /\ HasNoOthers(b) /\ Replacing(b)
    BY <1>0, <1>1, <1>2, <2>5 DEF KeysInv, Fine, Replacing
  <2>7. own[1] = i /\ b[1] = i
    BY <1>0
  <2>l. own \in loaded' <=> b \in loaded
    BY <1>1, <1>4
  <2>8. HasKeys(own)'
    BY <1>1, <1>3, <2>6, <2>7, <2>l DEF HasKeys, Plain, Parts, Loaded
  <2>9. HasNoOthers(own)'
    BY <1>1, <1>3, <1>4, <2>6, <2>7, <2>l DEF HasNoOthers, Parts
  <2> QED
    BY <2>8, <2>9
<1>8. ASSUME NEW c \in Boxes, c # own, c # b PROVE Fine(c)'
  <2>1. Fine(c) /\ box'[c] = box[c]
    BY <1>3, <1>8 DEF KeysInv
  <2>2. /\ c \notin alone' => c \notin alone
        /\ c \notin told' => c \notin told
        /\ c \notin late' => c \notin late
        /\ c \in loaded' <=> c \in loaded
    BY <1>1, <1>4, <1>8
  <2>3. ~Awaited(c) /\ ~Replacing(c)'
    BY <1>1 DEF Awaited, Replacing, Idle
  <2>4. Running(Beside(c))' => Running(Beside(c))
    <3>1. Beside(c) # own /\ Beside(c) # b /\ Beside(c) \in Boxes
      BY <1>0, <1>8, BoxNames DEF Beside
    <3> QED
      BY <1>3, <3>1 DEF Running, Beside
  <2> QED
    BY <1>1, <2>1, <2>2, <2>3, <2>4, Untouched
<1> QED
  BY <1>5, <1>6, <1>7, <1>8

LEMMA StartKeeps ==
  ASSUME KeysInv, NEW i \in Instances, Start(i)
  PROVE  Central' /\ NoneBeside' /\ \A c \in Boxes : Fine(c)'
<1>0. PICK b \in Boxes : b = <<i, "own">>
  BY BoxNames
<1>1. op = Idle /\ op' = [pc |-> "read", name |-> i]
      /\ loaded' = loaded \cup {b}
      /\ UNCHANGED <<keys, file, todo, disk, told, alone, late, worn>>
  BY <1>0 DEF Start, central
<1>2. \A c \in Boxes : c # b => box'[c] = box[c]
  BY <1>0 DEF Start, KeysInv, Types
<1>3. Fine(b)'
  BY <1>0, <1>1 DEF Fine, Settled, Awaited
<1>4. ASSUME NEW c \in Boxes, c # b PROVE Fine(c)'
  <2>1. Fine(c) /\ ~Awaited(c) /\ ~Replacing(c)'
    BY <1>1 DEF KeysInv, Awaited, Replacing, Idle
  <2>2. Running(Beside(c))' => Running(Beside(c))
    <3>1. Beside(c) # b /\ Beside(c) \in Boxes
      BY <1>0, Pairs DEF Beside
    <3> QED
      BY <1>2, <3>1 DEF Running, Beside
  <2> QED
    BY <1>1, <1>2, <1>4, <2>1, <2>2, Untouched
<1>5. NoneBeside' /\ Central'
  BY <1>1, NoReplace, SameCentral DEF central
<1> QED
  BY <1>3, <1>4, <1>5

LEMMA ReadKeysKeeps ==
  ASSUME KeysInv, ReadKeys
  PROVE  Central' /\ NoneBeside' /\ \A c \in Boxes : Fine(c)'
<1>1. /\ op.pc = "read" /\ op'.pc = "push" /\ op'.name = op.name
      /\ UNCHANGED <<keys, file, todo, box, disk, told, alone, loaded, late, worn>>
  BY DEF ReadKeys, central, history
<1>2. NoneBeside' /\ Central'
  BY <1>1, NoReplace, SameCentral DEF central
<1>3. ASSUME NEW c \in Boxes PROVE Fine(c)'
  <2>1. Fine(c) /\ (Awaited(c) => Awaited(c)') /\ ~Replacing(c)'
    BY <1>1 DEF Awaited, Replacing, KeysInv
  <2>2. Running(Beside(c))' => Running(Beside(c))
    BY <1>1 DEF Running, Beside
  <2> QED
    BY <1>1, <2>1, <2>2, Untouched
<1> QED
  BY <1>2, <1>3

LEMMA PushReadKeeps ==
  ASSUME KeysInv, PushRead
  PROVE  Central' /\ NoneBeside' /\ \A c \in Boxes : Fine(c)'
<1>0. PICK b, set : b = <<op.name, "own">> /\ set = op.keys
  OBVIOUS
<1>1. op.pc = "push" /\ op' = Idle /\ PutKeys(b, set) /\ UNCHANGED <<keys, file, todo>>
  BY <1>0 DEF PushRead, central
<1>2. b \in Boxes /\ set \in Keys /\ b[2] = "own"
  BY <1>0, <1>1, OpKinds, BoxNames DEF KeysInv, Types, Idle
<1>3. NoneBeside' /\ Central'
  BY <1>1, NoReplace, SameCentral DEF central, Idle
<1>4. Fine(b)'
  BY <1>1, <1>2, PutServes
<1>5. ASSUME NEW c \in Boxes, c # b PROVE Fine(c)'
  <2>1. c \in told' \/ (Settled(c)' => Settled(c))
    <3> SUFFICES ASSUME c \notin told', Settled(c)' PROVE Settled(c)
      OBVIOUS
    <3>1. c \notin told /\ c \notin late
      BY <1>1, <1>5 DEF Settled, PutKeys, LateIf
    <3>2. ~Awaited(c)
      BY <1>0, <1>5 DEF Awaited
    <3>3. /\ Running(c) <=> Running(c)'
          /\ Running(Beside(c)) <=> Running(Beside(c))'
      <4>1. Beside(c) \in Boxes
        BY Pairs
      <4>2. \A d \in Boxes : Running(d)' <=> Running(d)
        BY <1>1, <1>2, PutOthersRun
      <4>3. Running(Beside(c))' <=> Running(Beside(c))
        BY <4>1, <4>2 DEF Running, Beside
      <4> QED
        BY <4>2, <4>3
    <3>4. ~Pending(c)
      BY <1>1, <3>3 DEF Settled, Pending, Unlocked, Running, Beside
    <3> QED
      BY <3>1, <3>2, <3>3, <3>4 DEF Settled
  <2>2. ~Replacing(c)'
    BY <1>1 DEF Replacing, Idle
  <2> QED
    BY <1>1, <1>2, <1>5, <2>1, <2>2, PutElsewhere
<1> QED
  BY <1>3, <1>4, <1>5

LEMMA DeleteKeeps ==
  ASSUME KeysInv, NEW i \in Instances, Delete(i)
  PROVE  Central' /\ NoneBeside' /\ \A c \in Boxes : Fine(c)'
<1>0. PICK b \in Boxes : b = <<i, "own">>
  BY BoxNames
<1>1. /\ op = Idle /\ op' = op /\ box' = [box EXCEPT ![b] = Absent]
      /\ told' = told \ {b} /\ alone' = alone \ {b} /\ late' = late \ {b}
      /\ loaded' = loaded \ {b}
      /\ UNCHANGED <<keys, file, todo>>
  BY <1>0 DEF Delete, central
<1>2. ~Running(b)' /\ \A c \in Boxes : c # b => box'[c] = box[c]
  BY <1>1 DEF Running, Absent, KeysInv, Types
<1>3. NoneBeside' /\ Central'
  BY <1>1, NoReplace, SameCentral DEF central, Idle
<1>4. \A c \in Boxes : ~Awaited(c) /\ ~Replacing(c)'
  BY <1>1 DEF Awaited, Replacing, Idle
<1>5. CASE UNCHANGED <<disk, worn>>
  BY <1>1, <1>2, <1>3, <1>4, <1>5, Gone
<1>6. CASE /\ box[<<i, "next">>] = Absent
           /\ disk' = [disk EXCEPT ![i] = {}] /\ worn' = worn \ {i}
  <2>1. ASSUME NEW c \in Boxes, c[1] = i PROVE Fine(c)'
    <3>1. CASE c = b
      BY <1>2, <3>1, NotRunning
    <3>2. CASE c # b
      <4>1. box'[c] = Absent
        BY <1>0, <1>2, <1>6, <2>1, <3>2, BoxNames
      <4> QED
        BY <4>1, NotRunning DEF Running, Absent
    <3> QED
      BY <3>1, <3>2
  <2>2. ASSUME NEW c \in Boxes, c[1] # i PROVE Fine(c)'
    <3>1. c # b /\ disk'[c[1]] = disk[c[1]] /\ (c[1] \notin worn' => c[1] \notin worn)
      BY <1>0, <1>6, <2>2, BoxNames DEF KeysInv, Types
    <3>2. Running(Beside(c))' => Running(Beside(c))
      BY <1>2, Pairs DEF Running
    <3>3. Fine(c)
      BY DEF KeysInv
    <3> QED
      BY <1>1, <1>2, <1>4, <3>1, <3>2, <3>3, Untouched
  <2> QED
    BY <1>3, <2>1, <2>2
<1> QED
  BY <1>5, <1>6 DEF Delete

-----------------------------------------------------------------------------
(* Restarts *)

\* What Docker starts again loads its environment and the volume.
LEMMA DockerRestartKeeps ==
  ASSUME KeysInv, NEW b \in Boxes, DockerRestart(b)
  PROVE  Central' /\ NoneBeside' /\ \A c \in Boxes : Fine(c)'
<1>1. /\ Running(b)
      /\ box' = [box EXCEPT ![b] = Process(box[b].env, disk[b[1]])]
      /\ alone' = alone \cup {b} /\ loaded' = loaded \cup {b}
      /\ late' = LateIf(b, b \in late \/ b[1] \in worn)
      /\ UNCHANGED <<keys, file, todo, disk, op, told, worn>>
  BY DEF DockerRestart, central
<1>2. \A c \in Boxes : c # b => box'[c] = box[c]
  BY <1>1 DEF KeysInv, Types
<1>3. box'[b].mem = Loaded(box[b].env, disk[b[1]]) /\ box'[b].env = box[b].env
  BY <1>1 DEF Process, KeysInv, Types
<1>4. \A c \in Boxes : Running(c)' => Running(c)
  BY <1>1, <1>2 DEF Running
<1>5. \A c \in Boxes : Running(Beside(c))' => Running(Beside(c))
  <2>1. \A c \in Boxes : Beside(c) \in Boxes
    BY Pairs
  <2> QED
    BY <1>4, <2>1 DEF Running, Beside
<1>6. Central'
  BY <1>1, SameCentral DEF central
<1>7. NoneBeside'
  <2> SUFFICES ASSUME op.pc = "replace"
               PROVE  box'[<<op.name, "next">>] = Absent
    BY <1>1 DEF NoneBeside, Unlocked, KeysInv
  <2>1. box[<<op.name, "next">>] = Absent /\ <<op.name, "next">> \in Boxes
    BY OpKinds, BoxNames DEF KeysInv, Types, NoneBeside
  <2> QED
    BY <1>1, <1>2, <2>1 DEF Running, Absent
<1>8. Fine(b)'
  <2>1. CASE b \in late \/ b[1] \in worn
    BY <1>1, <2>1, Excused DEF LateIf
  <2>2. CASE b \notin late /\ b[1] \notin worn
    <3> SUFFICES ASSUME Settled(b)' PROVE (HasKeys(b) /\ HasNoOthers(b))'
      BY DEF Fine
    <3>1. ~Pending(b) /\ ~Awaited(b) /\ b \notin told
      <4>1. Running(Beside(b)) => Running(Beside(b))'
        BY <1>1, <1>2, <1>3, Pairs DEF Running, Beside, Process
      <4>2. Unlocked' <=> Unlocked
        BY <1>1 DEF Unlocked
      <4>3. Beside(b)' = Beside(b)
        BY DEF Beside
      <4>4. Running(Beside(b))' => Running(Beside(b))
        BY <1>5
      <4> QED
        BY <1>1, <4>2, <4>3, <4>4 DEF Settled, Pending, Awaited
    <3>2. Settled(b)
      BY <1>1, <2>2, <3>1 DEF Settled
    <3>3. Plain(keys) \subseteq Loaded(box[b].env, disk[b[1]])
      BY <2>2, <3>2 DEF KeysInv, Fine, HasKeys
    <3>4. HasKeys(b)'
      BY <1>1, <1>3, <3>3 DEF HasKeys, Plain, Parts, Loaded
    <3>5. HasNoOthers(b)'
      BY <1>1 DEF HasNoOthers
    <3> QED
      BY <3>4, <3>5
  <2> QED
    BY <2>1, <2>2
<1>9. ASSUME NEW c \in Boxes, c # b PROVE Fine(c)'
  <2>1. Fine(c) /\ (Awaited(c) => Awaited(c)') /\ (Replacing(c)' => Replacing(c))
    BY <1>1 DEF KeysInv, Awaited, Replacing
  <2>2. /\ c \notin alone' => c \notin alone
        /\ c \notin late' => c \notin late
        /\ c \in loaded' <=> c \in loaded
    BY <1>1, <1>9 DEF LateIf
  <2>3. Running(Beside(c))' => Running(Beside(c))
    BY <1>5
  <2> QED
    BY <1>1, <1>2, <1>9, <2>1, <2>2, <2>3, Untouched
<1> QED
  BY <1>6, <1>7, <1>8, <1>9

\* A crash of the control plane goes back to the set on disk: the set in
\* memory, unless a change was being pushed or could not be written.
LEMMA CrashKeeps ==
  ASSUME KeysInv, Crash
  PROVE  Central' /\ NoneBeside' /\ \A c \in Boxes : Fine(c)'
<1>1. /\ keys' = file /\ todo' = {NoPush} /\ op' = Idle
      /\ told \subseteq told' /\ late \subseteq late'
      /\ UNCHANGED <<file, box, disk, alone, loaded, worn>>
  BY DEF Crash
<1>2. Central' /\ NoneBeside'
  BY <1>1, NoReplace DEF Central, Unlocked, Idle
<1>3. CASE ~Unlocked
  <2>1. \A c \in Boxes : c \in told'
    BY <1>3 DEF Crash
  <2> QED
    BY <1>2, <2>1, Excused
<1>5. CASE file # keys
  <2>1. ASSUME NEW c \in Boxes PROVE Fine(c)'
    <3>1. CASE Running(c)
      <4>1. c \in late'
        BY <1>5, <3>1 DEF Crash
      <4> QED
        BY <4>1, Excused
    <3>2. CASE ~Running(c)
      BY <1>1, <3>2, NotRunning DEF Running
    <3> QED
      BY <3>1, <3>2
  <2> QED
    BY <1>2, <2>1
<1>4. CASE Unlocked /\ file = keys
  <2>1. keys' = keys /\ todo' = todo
    BY <1>1, <1>4 DEF Unlocked
  <2>2. ASSUME NEW c \in Boxes PROVE Fine(c)'
    <3>1. CASE Awaited(c)
      <4>1. op # Idle /\ c \in {op.name} \X {"own", "next"}
        BY <3>1 DEF Awaited, Idle
      <4>2. c \in told'
        BY <4>1 DEF Crash
      <4> QED
        BY <4>2, Excused
    <3>2. CASE ~Awaited(c)
      <4>1. Fine(c) /\ ~Replacing(c)'
        BY <1>1 DEF KeysInv, Replacing, Idle
      <4>2. (c \notin told' => c \notin told) /\ (c \notin late' => c \notin late)
        BY <1>1
      <4> QED
        BY <1>1, <1>4, <2>1, <3>2, <4>1, <4>2, Untouched
    <3> QED
      BY <3>1, <3>2
  <2> QED
    BY <1>2, <2>2
<1> QED
  BY <1>3, <1>4, <1>5

-----------------------------------------------------------------------------
LEMMA NextKeeps ==
  ASSUME KeysInv, [Next]_vars
  PROVE  KeysInv'
<1> DEFINE Goal == Central' /\ NoneBeside' /\ \A c \in Boxes : Fine(c)'
<1>types. Types'
  BY NextTypes DEF KeysInv
<1>keys. keys \in Keys
  BY DEF KeysInv, Types
<1>1. ASSUME NEW k \in ClientKeys, CreateKey(k) \/ DeleteKey(k) PROVE Goal
  <2>1. keys \cup {k} \in Keys /\ keys \ {k} \in Keys
    BY <1>keys DEF Keys
  <2> QED
    BY <1>1, <2>1, ChangeKeeps DEF CreateKey, DeleteKey
<1>2. ASSUME NEW b \in Boxes, Push(b) \/ DockerRestart(b) PROVE Goal
  BY <1>2, PushKeeps, DockerRestartKeeps
<1>3. ASSUME NEW i \in Instances, Create(i) \/ Update(i) \/ Stop(i) \/ Start(i) \/ Delete(i)
      PROVE  Goal
  BY <1>3, BeginKeeps, StopKeeps, StartKeeps, DeleteKeeps
<1>4. ASSUME Persist \/ Launch \/ LaunchNext \/ Withdraw \/ Announce \/ Swap PROVE Goal
  BY <1>4, PersistKeeps, LaunchKeeps, LaunchNextKeeps, WithdrawKeeps, AnnounceKeeps, SwapKeeps
<1>5. ASSUME ReadKeys \/ PushRead \/ Crash PROVE Goal
  BY <1>5, ReadKeysKeeps, PushReadKeeps, CrashKeeps
<1>6. ASSUME UNCHANGED vars PROVE Goal
  BY <1>6 DEF vars, KeysInv, Central, NoneBeside, Fine, Settled, Pending, Awaited, HasKeys,
     HasNoOthers, Replacing, Running, Unlocked, Beside, Plain, Parts, Loaded
<1>7. Goal
  <2> HIDE DEF Goal
  <2> QED
    BY <1>1, <1>2, <1>3, <1>4, <1>5, <1>6 DEF Next, Begins, Proceeds
<1> QED
  BY <1>types, <1>7 DEF KeysInv

LEMMA QuietTells ==
  ASSUME KeysInv
  PROVE  OneSetOpensAll /\ DeletedKeysRefused
<1>1. ASSUME Quiet, NEW b \in Boxes, Running(b), b \notin told \cup late
      PROVE  HasKeys(b) /\ HasNoOthers(b)
  BY <1>1 DEF KeysInv, Fine, Settled, Pending, Awaited, Quiet, Idle
<1> QED
  BY <1>1 DEF OneSetOpensAll, DeletedKeysRefused, HasKeys, HasNoOthers

LEMMA KeysInvariant == Spec => []KeysInv
<1>1. Init => KeysInv
  BY InitTypes, InitFine DEF KeysInv
<1> QED
  BY <1>1, NextKeeps, PTL DEF Spec

\* The types of the variables of KeySync.
THEOREM KeyTypes == Spec => []Types
BY KeysInvariant, PTL DEF KeysInv

\* Once nothing is under way, a running gateway has the keys of the control
\* plane: all after a push to it, those without a comma before the first one
\* (server.go, syncKeysLocked; docker.go, create; gateway.go, loadKeys).  The
\* exceptions are a push reported as failed, a change of the keys that passed
\* it by, a volume that could not be written, and a control plane that started
\* with keys other than it had.
THEOREM KeysOpenAll == Spec => []OneSetOpensAll
BY KeysInvariant, QuietTells, PTL

\* And, with those exceptions and gateways that loaded old keys at a start
\* without a push, it accepts no others, but for the parts of its keys before
\* the first push.
THEOREM KeysRefuseDeleted == Spec => []DeletedKeysRefused
BY KeysInvariant, QuietTells, PTL
=============================================================================
