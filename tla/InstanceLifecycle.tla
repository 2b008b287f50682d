-------------------------- MODULE InstanceLifecycle --------------------------
(***************************************************************************)
(* How the control plane creates, replaces, starts, stops and deletes the  *)
(* containers of the gateway instances through Docker, and the routing     *)
(* table it keeps of them (internal/controlplane/server.go, docker.go).    *)
(* lifecycleMu lets one operation run at a time; each step below is one    *)
(* call to Docker, or one critical section, of that operation.  A call may *)
(* fail, or fail to be confirmed after it took effect; the control plane   *)
(* may stop between any two steps, and its state on disk remains.          *)
(*                                                                         *)
(* A container is named after its instance ("own") or, while an update is  *)
(* under way, name-next-... or name-previous-...; its label names the      *)
(* instance in any case.  `running' has passed a health probe, `starting'  *)
(* has not: Docker calls both running.                                     *)
(***************************************************************************)
EXTENDS Naturals, FiniteSets

CONSTANTS
    Names,         \* instance names
    UpstreamKeys,  \* upstream API keys an administrator may enter
    NoKey,         \* no key on record
    MaxInstances,  \* MAX_INSTANCES
    MaxOps,        \* BOUND: lifecycle operations in a behaviour
    Faults         \* "calls", "lost", "cleanup", "crash": what may go wrong

ASSUME LifecycleAssumption ==
    /\ NoKey \notin UpstreamKeys
    /\ MaxInstances \in Nat
    /\ MaxOps \in Nat
    /\ Faults \subseteq {"calls", "lost", "cleanup", "crash"}

VARIABLES
    containers,  \* the managed containers Docker has
    list,        \* s.instances, and instances.json: where requests are routed
    zenKeys,     \* s.zenKeys, and zen-keys.json
    op,          \* the operation that holds lifecycleMu
    ops,         \* operations so far
    poll,        \* the snapshot, if any, that GET /instances has yet to store
    reported,    \* HISTORY: instances whose last creation or update was not
                 \* reported as done
    messy        \* HISTORY: instances of which a call took effect unconfirmed,
                 \* a clean-up failed, or an operation was interrupted

vars == <<containers, list, zenKeys, op, ops, poll, reported, messy>>

Idle == [kind |-> "none", pc |-> "idle"]

Up(c) == c.state \in {"running", "starting"}

Owners(n) == {c \in containers : c.label = n /\ c.role = "own"}

\* Docker's id of a container is the number of the operation that made it.
The(id) == CHOOSE c \in containers : c.id = id

\* What discoverInstances makes of a container: its instance, and its URL,
\* which follows the container's name.
Route(c) == [id |-> c.id, name |-> c.label, url |-> c.role, up |-> Up(c)]

Routes(S) == {Route(c) : c \in S}

Without(id) == {c \in containers : c.id # id}

With(id, field, value) ==
    Without(id) \cup {[The(id) EXCEPT ![field] = value]}

Init ==
    /\ containers = {}
    /\ list = {}
    /\ zenKeys = [n \in Names |-> NoKey]
    /\ op = Idle
    /\ ops = 0
    /\ poll = {}
    /\ reported = {} /\ messy = {}

\* A call to Docker about n whose effect is `after': it reports success, or
\* failure, and in the second case it may have taken effect nevertheless.
Call(n, after, success, failure) ==
    \/ containers' = after /\ success /\ UNCHANGED messy
    \/ "calls" \in Faults /\ UNCHANGED <<containers, messy>> /\ failure
    \/ "lost" \in Faults /\ containers' = after /\ failure /\ messy' = messy \cup {n}

\* A call whose error is ignored.
Attempted(after) ==
    \/ containers' = after /\ UNCHANGED messy
    \/ /\ "cleanup" \in Faults
       /\ messy' = messy \cup {op.name}
       /\ UNCHANGED containers

Goto(pc) == op' = [op EXCEPT !.pc = pc] /\ UNCHANGED reported

End == op' = Idle /\ UNCHANGED reported

Succeed == op' = Idle /\ reported' = reported \ {op.name}

Fail == op' = Idle /\ reported' = reported \cup {op.name}

Started(operation) ==
    /\ op = Idle
    /\ ops < MaxOps
    /\ ops' = ops + 1
    /\ op' = operation
    /\ UNCHANGED reported

Refused(n) ==
    /\ op = Idle
    /\ ops < MaxOps
    /\ ops' = ops + 1
    /\ reported' = reported \cup {n}
    /\ UNCHANGED op

\* refreshInstances, which changes nothing if Docker does not answer.
Refresh(success, failure) ==
    \/ list' = Routes(containers) /\ success
    \/ "calls" \in Faults /\ UNCHANGED list /\ failure

-----------------------------------------------------------------------------
(* instanceCreate *)

\* The name is free among the discovered instances and there is room.
Create(n) ==
    /\ \A c \in containers : c.label # n
    /\ Cardinality(containers) < MaxInstances
    /\ \E key \in UpstreamKeys :
         LET made  == [ id |-> ops + 1, label |-> n, role |-> "own",
                        state |-> "created", key |-> key ]
             begun == [ kind |-> "create", pc |-> "start", name |-> n,
                        id |-> ops + 1, key |-> key ]
         IN  Call(n, containers \cup {made}, Started(begun), Refused(n))
    /\ UNCHANGED <<list, zenKeys, poll>>

StartCreated ==
    /\ op.kind = "create" /\ op.pc = "start"
    /\ Call(op.name, With(op.id, "state", "starting"), Goto("probe"), Goto("remove"))
    /\ UNCHANGED <<list, zenKeys, ops, poll>>

ProbeCreated ==
    /\ op.kind = "create" /\ op.pc = "probe"
    /\ \/ containers' = With(op.id, "state", "running") /\ Goto("refresh") /\ UNCHANGED messy
       \/ UNCHANGED <<containers, messy>> /\ Goto("remove")
    /\ UNCHANGED <<list, zenKeys, ops, poll>>

RefreshCreated ==
    /\ op.kind = "create" /\ op.pc = "refresh"
    /\ Refresh(Goto("verify"), Goto("remove_listed"))
    /\ UNCHANGED <<containers, zenKeys, ops, poll, messy>>

\* Docker is asked once more; the container must still run.
VerifyCreated ==
    /\ op.kind = "create" /\ op.pc = "verify"
    /\ \/ /\ list' = Routes(containers)
          /\ zenKeys' = [zenKeys EXCEPT ![op.name] = op.key]
          /\ Succeed
       \/ Goto("remove_listed") /\ UNCHANGED <<list, zenKeys>>
    /\ UNCHANGED <<containers, ops, poll, messy>>

RemoveCreated ==
    /\ op.kind = "create" /\ op.pc \in {"remove", "remove_listed"}
    /\ Attempted(Without(op.id))
    /\ IF op.pc = "remove" THEN Fail ELSE Goto("forget")
    /\ UNCHANGED <<list, zenKeys, ops, poll>>

ForgetCreated ==
    /\ op.kind = "create" /\ op.pc = "forget"
    /\ Refresh(Fail, Fail)
    /\ UNCHANGED <<containers, zenKeys, ops, poll, messy>>

-----------------------------------------------------------------------------
(* instanceUpdate and docker.replace *)

\* A request without a key keeps the one on record.
Update(n) ==
    /\ \E c \in Owners(n), key \in UpstreamKeys \cup ({zenKeys[n]} \ {NoKey}) :
         LET next  == [ id |-> ops + 1, label |-> n, role |-> "next",
                        state |-> "created", key |-> key ]
             begun == [ kind |-> "update", name |-> n, id |-> ops + 1,
                        old |-> c.id, key |-> key, wasRunning |-> Up(c),
                        pc |-> IF Up(c) THEN "start" ELSE "set_aside" ]
         IN  Call(n, containers \cup {next}, Started(begun), Refused(n))
    /\ UNCHANGED <<list, zenKeys, poll>>

StartNext ==
    /\ op.kind = "update" /\ op.pc = "start"
    /\ Call(op.name, With(op.id, "state", "starting"), Goto("probe"), Goto("remove"))
    /\ UNCHANGED <<list, zenKeys, ops, poll>>

ProbeNext ==
    /\ op.kind = "update" /\ op.pc = "probe"
    /\ \/ containers' = With(op.id, "state", "running") /\ Goto("set_aside") /\ UNCHANGED messy
       \/ UNCHANGED <<containers, messy>> /\ Goto("remove")
    /\ UNCHANGED <<list, zenKeys, ops, poll>>

\* Faulty variant: the old container is stopped as soon as its name is free.
SetAsideAndStop ==
    LET aside == [The(op.old) EXCEPT !.role = "previous", !.state = "exited"] IN
    /\ op.kind = "update" /\ op.pc = "set_aside"
    /\ Call(op.name, Without(op.old) \cup {aside}, Goto("promote"), Goto("remove"))
    /\ UNCHANGED <<list, zenKeys, ops, poll>>

SetAside ==
    /\ op.kind = "update" /\ op.pc = "set_aside"
    /\ Call(op.name, With(op.old, "role", "previous"), Goto("promote"), Goto("remove"))
    /\ UNCHANGED <<list, zenKeys, ops, poll>>

Promote ==
    /\ op.kind = "update" /\ op.pc = "promote"
    /\ Call(op.name, With(op.id, "role", "own"), Goto("retire"), Goto("roll_back"))
    /\ UNCHANGED <<list, zenKeys, ops, poll>>

\* Faulty variant: the replacement is left to itself.
RollBackNameOnly ==
    /\ op.kind = "update" /\ op.pc = "roll_back"
    /\ IF Owners(op.name) = {} THEN Attempted(With(op.old, "role", "own"))
       ELSE UNCHANGED <<containers, messy>>
    /\ Fail
    /\ UNCHANGED <<list, zenKeys, ops, poll>>

\* Docker refuses a name that is taken.
RollBack ==
    /\ op.kind = "update" /\ op.pc = "roll_back"
    /\ IF Owners(op.name) = {} THEN Attempted(With(op.old, "role", "own"))
       ELSE UNCHANGED <<containers, messy>>
    /\ Goto("remove")
    /\ UNCHANGED <<list, zenKeys, ops, poll>>

\* The replacement is looked up under its temporary name.
RemoveNext ==
    /\ op.kind = "update" /\ op.pc = "remove"
    /\ IF The(op.id).role = "next" THEN Attempted(Without(op.id))
       ELSE UNCHANGED <<containers, messy>>
    /\ Fail
    /\ UNCHANGED <<list, zenKeys, ops, poll>>

\* The old container is stopped and then removed; both errors are ignored.
Retire ==
    /\ op.kind = "update" /\ op.pc = "retire"
    /\ \/ Attempted(Without(op.old))
       \/ /\ "cleanup" \in Faults
          /\ messy' = messy \cup {op.name}
          /\ containers' = With(op.old, "state", "exited")
    /\ Goto("refresh")
    /\ UNCHANGED <<list, zenKeys, ops, poll>>

\* An update whose refresh fails is reported as failed.
RefreshUpdated ==
    /\ op.kind = "update" /\ op.pc = "refresh"
    /\ Refresh(Goto("record"), Fail)
    /\ UNCHANGED <<containers, zenKeys, ops, poll, messy>>

\* Faulty variant: the record is left as it is.
RecordNothing ==
    /\ op.kind = "update" /\ op.pc = "record"
    /\ Succeed
    /\ UNCHANGED <<containers, list, zenKeys, ops, poll, messy>>

RecordUpdated ==
    /\ op.kind = "update" /\ op.pc = "record"
    /\ zenKeys' = [zenKeys EXCEPT ![op.name] = op.key]
    /\ Succeed
    /\ UNCHANGED <<containers, list, ops, poll, messy>>

-----------------------------------------------------------------------------
(* instanceDelete, instanceAction *)

Delete(n) ==
    /\ \E c \in Owners(n) :
         Call(n, Without(c.id),
              Started([kind |-> "delete", pc |-> "record", name |-> n]),
              Started(Idle))
    /\ UNCHANGED <<list, zenKeys, poll>>

RecordDeleted ==
    /\ op.kind = "delete" /\ op.pc = "record"
    /\ zenKeys' = [zenKeys EXCEPT ![op.name] = NoKey]
    /\ op' = [op EXCEPT !.pc = "refresh"]
    /\ reported' = reported \ {op.name}
    /\ UNCHANGED <<containers, list, ops, poll, messy>>

Stop(n) ==
    /\ \E c \in Owners(n) :
         /\ Up(c)
         /\ Call(n, With(c.id, "state", "exited"),
                 Started([kind |-> "stop", pc |-> "refresh", name |-> n]),
                 Started(Idle))
    /\ UNCHANGED <<list, zenKeys, poll>>

\* start of a stopped container, restart of any.
Start(n) ==
    /\ \E c \in Owners(n) :
         Call(n, With(c.id, "state", "starting"),
              Started([kind |-> "start", pc |-> "keys", name |-> n, id |-> c.id]),
              Started(Idle))
    /\ UNCHANGED <<list, zenKeys, poll>>

\* A gateway that accepts the client keys is up; one that does not within 20
\* attempts ends the operation.
PushKeys ==
    /\ op.kind = "start" /\ op.pc = "keys"
    /\ \/ containers' = With(op.id, "state", "running") /\ Goto("refresh") /\ UNCHANGED messy
       \/ "calls" \in Faults /\ UNCHANGED <<containers, messy>> /\ End
    /\ UNCHANGED <<list, zenKeys, ops, poll>>

RefreshChanged ==
    /\ op.kind \in {"delete", "stop", "start"} /\ op.pc = "refresh"
    /\ Refresh(End, End)
    /\ UNCHANGED <<containers, zenKeys, ops, poll, messy>>

-----------------------------------------------------------------------------
(* The reconciliation, the console and crashes *)

\* Faulty variant: the table is only ever extended.
ReconcileNewOnly ==
    /\ op = Idle
    /\ list' = list \cup Routes(containers)
    /\ UNCHANGED <<containers, zenKeys, op, ops, poll, reported, messy>>

\* Every ten seconds, under lifecycleMu.
Reconcile ==
    /\ op = Idle
    /\ list' = Routes(containers)
    /\ UNCHANGED <<containers, zenKeys, op, ops, poll, reported, messy>>

\* GET /instances stores what it saw, without lifecycleMu.
PollRead ==
    /\ poll = {}
    /\ poll' = {Routes(containers)}
    /\ UNCHANGED <<containers, list, zenKeys, op, ops, reported, messy>>

PollStore ==
    /\ list' \in poll
    /\ poll' = {}
    /\ UNCHANGED <<containers, zenKeys, op, ops, reported, messy>>

\* The control plane stops and is started again.
Crash ==
    /\ "crash" \in Faults
    /\ op # Idle
    /\ Fail
    /\ messy' = messy \cup {op.name}
    /\ poll' = {}
    /\ UNCHANGED <<containers, list, zenKeys, ops>>

-----------------------------------------------------------------------------
Begin == \E n \in Names : Create(n) \/ Update(n) \/ Delete(n) \/ Stop(n) \/ Start(n)

Proceed ==
    \/ StartCreated \/ ProbeCreated \/ RefreshCreated \/ VerifyCreated
    \/ RemoveCreated \/ ForgetCreated
    \/ StartNext \/ ProbeNext \/ SetAside \/ Promote \/ RollBack
    \/ RemoveNext \/ Retire \/ RefreshUpdated \/ RecordUpdated
    \/ RecordDeleted \/ PushKeys \/ RefreshChanged

Next == Begin \/ Proceed \/ Reconcile \/ PollRead \/ PollStore \/ Crash

Spec == Init /\ [][Next]_vars

\* Every call to Docker has a timeout, so an operation ends; the ticker and
\* the handler of the console run on.  Docker answers the ticker again.
Fairness ==
    /\ WF_vars(Proceed)
    /\ WF_vars(Reconcile)
    /\ WF_vars(PollStore)

LiveSpec == Spec /\ Fairness

-----------------------------------------------------------------------------
(* Properties *)

\* A container of n under one of these names has passed its health probe.
Healthy(n, roles) ==
    \E c \in containers : c.label = n /\ c.role \in roles /\ c.state = "running"

\* Requests are routed to n by its own name only; the container that is being
\* replaced waits under another one.
Reached(n) == Healthy(n, {"own"})
Alive(n) == Healthy(n, {"own", "previous"})

\* Whatever goes wrong while an instance is being updated, a healthy container of
\* it remains, and it is out of reach only from the first of the two renames on;
\* otherwise the administrator stops, restarts or deletes it, or it is a new one,
\* withdrawn before it is announced.
UpdateKeepsServing ==
    [][\A n \in Names :
          LET meant == \/ Stop(n) \/ Start(n) \/ Delete(n)
                       \/ op.kind = "create" /\ op.name = n
          IN  /\ Alive(n) /\ ~Alive(n)' => meant
              /\ Reached(n) /\ ~Reached(n)' => meant \/ (SetAside /\ op.name = n)]_vars

\* An operation that fails leaves no second container of its instance and none
\* under a temporary name, at whichever call it fails; only a call that took
\* effect without being confirmed, a clean-up that Docker refused or the end of
\* the control plane may leave one behind.
NoStrayContainers ==
    op = Idle =>
        \A n \in Names \ messy :
            /\ \A c \in containers : c.label = n => c.role = "own"
            /\ Cardinality(Owners(n)) <= 1

\* Once the administrator is done, requests are routed to the containers that
\* exist, under the names they have, although the console and the operations
\* write the table in any order.
RoutesConverge == <>[](list = Routes(containers))

\* The upstream key on record for an instance is the one its container uses,
\* unless the administrator got an error, or no answer, for its last creation
\* or update (README: the upstream key saved with each instance).
SavedKeyIsUsed ==
    op = Idle =>
        \A n \in Names \ reported : \A c \in Owners(n) : c.key = zenKeys[n]
=============================================================================
