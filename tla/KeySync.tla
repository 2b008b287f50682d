------------------------------- MODULE KeySync -------------------------------
(***************************************************************************)
(* The client keys: one set in the control plane, a copy in every gateway  *)
(* (internal/controlplane/server.go, internal/gateway/gateway.go).  A      *)
(* request needs its key in both.  The control plane pushes its set to     *)
(* every running container when it changes, and to a container it starts   *)
(* or restarts; it puts the set it knows into the environment of a         *)
(* container it creates, joined with commas.  A gateway that starts takes  *)
(* the keys of its environment, split on commas, and those on its data     *)
(* volume together: of a key that has a comma it knows the parts, until    *)
(* somebody pushes the key.                                                *)
(*                                                                         *)
(* Both programs ignore that they could not write their keys.json: what    *)
(* they answer is the same, and a later start reads what is there.         *)
(*                                                                         *)
(* createKey and deleteKey hold s.mu until their set is on disk; lifecycle *)
(* operations read the set under s.mu and use it after they released it.   *)
(* A container is <<i, "own">>, or <<i, "next">> while it is to replace    *)
(* the former; the two share the data volume of the instance.              *)
(***************************************************************************)
EXTENDS FiniteSets

CONSTANTS
    ClientKeys,  \* keys an administrator may create
    Words,       \* what may stand between two commas, and the keys
    Pieces,      \* what is left of a key that is split on commas
    Instances,
    Faults       \* what may go wrong: see KeySyncAssumption

ASSUME KeySyncAssumption ==
    /\ ClientKeys \subseteq Words
    /\ Pieces \in [ClientKeys -> SUBSET Words]
    /\ \A k \in ClientKeys : Pieces[k] = {k} \/ k \notin Pieces[k]
    /\ Faults \subseteq {"calls", "volume", "restart", "crash", "save"}

VARIABLES
    keys,     \* s.keys
    file,     \* keys.json of the control plane
    todo,     \* containers a key change has yet to push to; {NoPush}: none
    box,      \* the containers
    disk,     \* keys.json on the data volume of each instance
    op,       \* the lifecycle operation
    told,     \* HISTORY: containers whose last push was reported as failed
    alone,    \* HISTORY: containers that loaded old keys from a volume, and
              \* were not pushed to since
    loaded,   \* HISTORY: containers that were not pushed to since they started
    late,     \* HISTORY: containers launched, passed over or given older keys
              \* while the keys changed, and not pushed to since
    worn      \* HISTORY: instances whose volume lacks the keys of the last push:
              \* they could not be written, or older ones were after them

vars == <<keys, file, todo, box, disk, op, told, alone, loaded, late, worn>>
central == <<keys, file, todo>>
history == <<told, alone, loaded, late, worn>>

Boxes == Instances \X {"own", "next"}

NoPush == <<"none", "none">>

Absent == [state |-> "absent", env |-> {}, mem |-> {}]

Idle == [pc |-> "idle"]

Running(b) == box[b].state = "running"

Unlocked == todo = {NoPush}

Quiet == Unlocked /\ op = Idle

\* What becomes of keys that are joined with commas and split again.
Parts(set) == UNION {Pieces[k] : k \in set}

\* The keys that survive it.
Plain(set) == {k \in set : k \in Pieces[k]}

\* Faulty variant: the environment of the container is preferred.
LoadedFromEnvironment(environment, volume) ==
    IF environment # {} THEN Parts(environment) ELSE volume

\* The keys of a gateway process that starts: cfg.GatewayKeys and loadKeys.
Loaded(environment, volume) == Parts(environment) \cup volume

Process(environment, volume) ==
    [state |-> "running", env |-> environment, mem |-> Loaded(environment, volume)]

Init ==
    /\ keys = {} /\ file = {}
    /\ todo = {NoPush}
    /\ box = [b \in Boxes |-> Absent]
    /\ disk = [i \in Instances |-> {}]
    /\ op = Idle
    /\ told = {} /\ alone = {} /\ loaded = {} /\ late = {} /\ worn = {}

\* A write that fails may have truncated the file, which then has no keys.
Kept(b, set) ==
    \/ /\ disk' = [disk EXCEPT ![b[1]] = set]
       /\ worn' = IF set # keys THEN worn \cup {b[1]} ELSE worn \ {b[1]}
    \/ /\ "save" \in Faults
       /\ \E left \in {disk[b[1]], {}} : disk' = [disk EXCEPT ![b[1]] = left]
       /\ worn' = worn \cup {b[1]}

\* Faulty variant: the pushed keys are added.
AcceptedInAddition(b, set) ==
    /\ Running(b)
    /\ box' = [box EXCEPT ![b].mem = @ \cup set]
    /\ Kept(b, box[b].mem \cup set)

\* PUT /admin/keys: the gateway replaces its keys and saves them.
Accepted(b, set) ==
    /\ Running(b)
    /\ box' = [box EXCEPT ![b].mem = set]
    /\ Kept(b, set)

LateIf(b, condition) == IF condition THEN late \cup {b} ELSE late \ {b}

\* A call that fails may have been carried out; the answer to the
\* administrator names the instance.
PutKeys(b, set) ==
    \/ /\ Accepted(b, set)
       /\ told' = told \ {b} /\ alone' = alone \ {b} /\ loaded' = loaded \ {b}
       /\ late' = LateIf(b, set # keys)
    \/ /\ "calls" \in Faults \/ ~Running(b)
       /\ Accepted(b, set) \/ UNCHANGED <<box, disk, worn>>
       /\ told' = told \cup {<<b[1], "own">>, <<b[1], "next">>}
       /\ UNCHANGED <<alone, loaded, late>>

-----------------------------------------------------------------------------
(* createKey, deleteKey *)

\* If Docker does not answer, the containers that the routing table lists as
\* running stand for those that do run.
Change(set) ==
    /\ Unlocked
    /\ keys' = set
    /\ LET up == {b \in Boxes : Running(b)} IN
       \E listed \in SUBSET up :
         /\ listed = up \/ "calls" \in Faults
         /\ todo' = listed
         /\ late' = late \cup (up \ listed)
    /\ UNCHANGED <<file, box, disk, op, told, alone, loaded, worn>>

CreateKey(k) == k \notin keys /\ Change(keys \cup {k})

\* Deleting a key that does not exist pushes all the same.
DeleteKey(k) == Change(keys \ {k})

Push(b) ==
    /\ b \in todo \cap Boxes
    /\ PutKeys(b, keys)
    /\ todo' = todo \ {b}
    /\ UNCHANGED <<keys, file, op>>

\* The error of the write is not looked at.
Persist ==
    /\ todo = {}
    /\ file' = keys \/ ("save" \in Faults /\ file' \in {file, {}})
    /\ todo' = {NoPush}
    /\ UNCHANGED <<keys, box, disk, op, history>>

-----------------------------------------------------------------------------
(* instanceCreate, instanceUpdate: the keys are read first *)

Begin(i, kind) ==
    /\ op = Idle
    /\ Unlocked
    /\ op' = [pc |-> kind, name |-> i, keys |-> keys]
    /\ UNCHANGED <<central, box, disk, history>>

Create(i) == box[<<i, "own">>] = Absent /\ Begin(i, "create")

\* One replacement of an instance at a time (a crash may leave one behind).
Update(i) ==
    /\ box[<<i, "own">>] # Absent
    /\ box[<<i, "next">>] = Absent
    /\ Begin(i, "replace")

\* A container launched now starts with keys of the past.
Outrun == op.keys # keys \/ ~Unlocked

\* A volume that a deleted instance left behind is used again.
Launch ==
    LET b == <<op.name, "own">> IN
    /\ op.pc = "create"
    /\ box' = [box EXCEPT ![b] = Process(op.keys, disk[op.name])]
    /\ op' = [op EXCEPT !.pc = "wait"]
    /\ alone' = IF disk[op.name] = {} THEN alone ELSE alone \cup {b}
    /\ loaded' = loaded \cup {b}
    /\ late' = LateIf(b, Outrun)
    /\ UNCHANGED <<central, disk, told, worn>>

\* The replacement shares the volume of the old container, and what became of
\* the pushes to it.
LaunchNext ==
    LET old == <<op.name, "own">>
        b   == <<op.name, "next">>
        LikeOld(S) == IF old \in S THEN S \cup {b} ELSE S \ {b}
    IN
    /\ op.pc = "replace"
    /\ IF Running(old)
       THEN /\ box' = [box EXCEPT ![b] = Process(op.keys, disk[op.name])]
            /\ alone' = LikeOld(alone) \cup (IF op.name \in worn THEN {b} ELSE {})
            /\ told' = LikeOld(told)
            /\ loaded' = loaded \cup {b}
            /\ late' = LateIf(b, old \in late \/ Outrun)
            /\ UNCHANGED worn
       ELSE /\ box' = [box EXCEPT ![b] = [state |-> "stopped", env |-> op.keys,
                                          mem |-> {}]]
            /\ UNCHANGED history
    /\ op' = [op EXCEPT !.pc = "swap"]
    /\ UNCHANGED <<central, disk>>

\* The health check of a new or of a replacing container may fail.
Withdraw ==
    LET b == <<op.name, IF op.pc = "wait" THEN "own" ELSE "next">> IN
    /\ op.pc \in {"wait", "swap"}
    /\ box' = [box EXCEPT ![b] = Absent]
    /\ told' = told \ {b} /\ late' = late \ {b}
    /\ alone' = alone \ {b} /\ loaded' = loaded \ {b}
    /\ op' = Idle
    /\ UNCHANGED <<central, disk, worn>>

Announce ==
    /\ op.pc = "wait"
    /\ op' = Idle
    /\ UNCHANGED <<central, box, disk, history>>

Renamed(S, i) ==
    (S \ {<<i, "own">>, <<i, "next">>})
        \cup (IF <<i, "next">> \in S THEN {<<i, "own">>} ELSE {})

\* A push reaches the container that has the name by then.
Swap ==
    LET i == op.name IN
    /\ op.pc = "swap"
    /\ box' = [box EXCEPT ![<<i, "own">>] = box[<<i, "next">>],
                          ![<<i, "next">>] = Absent]
    /\ told' = Renamed(told, i) /\ late' = Renamed(late, i)
    /\ alone' = Renamed(alone, i) /\ loaded' = Renamed(loaded, i)
    /\ op' = Idle
    /\ UNCHANGED <<central, disk, worn>>

-----------------------------------------------------------------------------
(* instanceAction, instanceDelete *)

Stop(i) ==
    LET b == <<i, "own">> IN
    /\ op = Idle
    /\ Running(b)
    /\ box' = [box EXCEPT ![b].state = "stopped", ![b].mem = {}]
    /\ UNCHANGED <<central, disk, op, history>>

\* start of a stopped container, restart of any.
Start(i) ==
    LET b == <<i, "own">> IN
    /\ op = Idle
    /\ box[b] # Absent
    /\ box' = [box EXCEPT ![b] = Process(box[b].env, disk[i])]
    /\ op' = [pc |-> "read", name |-> i]
    /\ loaded' = loaded \cup {b}
    /\ UNCHANGED <<central, disk, told, alone, late, worn>>

ReadKeys ==
    /\ op.pc = "read"
    /\ Unlocked
    /\ op' = [pc |-> "push", name |-> op.name, keys |-> keys]
    /\ UNCHANGED <<central, box, disk, history>>

PushRead ==
    /\ op.pc = "push"
    /\ PutKeys(<<op.name, "own">>, op.keys)
    /\ op' = Idle
    /\ UNCHANGED central

\* The failure to remove the data volume is ignored; Docker keeps a volume
\* that another container uses.
Delete(i) ==
    LET b == <<i, "own">> IN
    /\ op = Idle
    /\ box[b] # Absent
    /\ box' = [box EXCEPT ![b] = Absent]
    /\ \/ box[<<i, "next">>] = Absent /\ disk' = [disk EXCEPT ![i] = {}] /\ worn' = worn \ {i}
       \/ /\ "volume" \in Faults \/ box[<<i, "next">>] # Absent
          /\ UNCHANGED <<disk, worn>>
    /\ told' = told \ {b} /\ late' = late \ {b}
    /\ alone' = alone \ {b} /\ loaded' = loaded \ {b}
    /\ UNCHANGED <<central, op>>

-----------------------------------------------------------------------------
(* Restarts *)

\* Docker restarts a gateway that ends ("unless-stopped").  What it loads may
\* have been saved by the other container of the instance.
DockerRestart(b) ==
    /\ "restart" \in Faults
    /\ Running(b)
    /\ box' = [box EXCEPT ![b] = Process(box[b].env, disk[b[1]])]
    /\ alone' = alone \cup {b} /\ loaded' = loaded \cup {b}
    /\ late' = LateIf(b, b \in late \/ b[1] \in worn)
    /\ UNCHANGED <<central, disk, op, told, worn>>

\* The control plane stops and starts again with the keys on its disk; the
\* administrator gets no answer to what was under way.  If these are others
\* than before, because they could not be written, nobody pushes them.
Crash ==
    /\ "crash" \in Faults
    /\ ~Quiet \/ file # keys
    /\ keys' = file
    /\ todo' = {NoPush}
    /\ op' = Idle
    /\ told' = told \cup (IF Unlocked THEN {} ELSE Boxes)
                    \cup (IF op = Idle THEN {} ELSE {op.name} \X {"own", "next"})
    /\ late' = late \cup (IF file = keys THEN {} ELSE {b \in Boxes : Running(b)})
    /\ UNCHANGED <<file, box, disk, alone, loaded, worn>>

-----------------------------------------------------------------------------
\* What may happen at any time, and what follows from it.
Begins ==
    \/ \E k \in ClientKeys : CreateKey(k) \/ DeleteKey(k)
    \/ \E i \in Instances : Create(i) \/ Update(i) \/ Stop(i) \/ Start(i) \/ Delete(i)
    \/ \E b \in Boxes : DockerRestart(b)
    \/ Crash

Proceeds ==
    \/ \E b \in Boxes : Push(b)
    \/ Persist \/ Launch \/ LaunchNext \/ Withdraw \/ Announce \/ Swap
    \/ ReadKeys \/ PushRead

Next == Begins \/ Proceeds

Spec == Init /\ [][Next]_vars

-----------------------------------------------------------------------------
(* Properties *)

\* A running gateway that lacks a key of the control plane, and so refuses
\* requests the control plane sends it, is one whose last push was reported to
\* the administrator as failed; or one that was being launched or was not
\* listed when the keys changed, that started again from a volume which could
\* not be written, or that ran when the control plane started with other keys
\* than it had; or the key has a comma, and nobody has pushed to the gateway
\* since it started (README: one set of keys opens all upstreams).
OneSetOpensAll ==
    Quiet => \A b \in Boxes :
        Running(b) /\ b \notin told \cup late =>
            (IF b \in loaded THEN Plain(keys) ELSE keys) \subseteq box[b].mem

\* A running gateway that still accepts a deleted key is such a one, or has
\* loaded the key from an old volume, or when Docker restarted it, without a
\* push; what else it accepts and the control plane does not know are the parts
\* of a key with a comma, until the first push.
DeletedKeysRefused ==
    Quiet => \A b \in Boxes :
        Running(b) /\ b \notin told \cup late \cup alone =>
            box[b].mem \subseteq keys \cup (IF b \in loaded THEN Parts(keys) ELSE {})
=============================================================================
