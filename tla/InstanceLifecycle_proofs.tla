---------------------- MODULE InstanceLifecycle_proofs ----------------------
(***************************************************************************)
(* What the lifecycle operations leave behind, for any number of           *)
(* instances, operations, keys and containers, and any of the faults.      *)
(*                                                                         *)
(* The invariant says, for each step of an operation, under which name the *)
(* containers it works on are, and what is known of the containers of the  *)
(* instances that nobody works on.  A change of one container is described *)
(* by how containers before and after correspond (Restated, Reassigned).   *)
(***************************************************************************)
EXTENDS InstanceLifecycle, FiniteSetTheorems, TLAPS

Roles == {"own", "next", "previous"}
States == {"created", "starting", "running", "exited"}
Keys == UpstreamKeys \cup {NoKey}

Containers == [id : Nat, label : Names, role : Roles, state : States, key : Keys]

CreateSteps == {"start", "probe", "refresh", "verify", "remove", "remove_listed", "forget"}
UpdateSteps == {"start", "probe", "set_aside", "promote", "roll_back", "remove",
                "retire", "refresh", "record"}

CreateOps == [kind : {"create"}, pc : CreateSteps, name : Names, id : Nat,
              key : UpstreamKeys]
UpdateOps == [kind : {"update"}, name : Names, id : Nat, old : Nat,
              key : UpstreamKeys, wasRunning : BOOLEAN, pc : UpdateSteps]
DeleteOps == [kind : {"delete"}, pc : {"record", "refresh"}, name : Names]
StopOps == [kind : {"stop"}, pc : {"refresh"}, name : Names]
StartOps == [kind : {"start"}, pc : {"keys", "refresh"}, name : Names, id : Nat]

Types ==
  /\ containers \subseteq Containers
  /\ zenKeys \in [Names -> Keys]
  /\ ops \in Nat
  /\ op \in {Idle} \cup CreateOps \cup UpdateOps \cup DeleteOps \cup StopOps \cup StartOps

\* Docker's ids and names are unique.
Unique ==
  /\ \A c \in containers : c.id <= ops
  /\ \A c, d \in containers :
       c.id = d.id \/ (c.label = d.label /\ c.role = "own" /\ d.role = "own") => c = d

-----------------------------------------------------------------------------
(* One container changes *)

LEMMA TheContainer ==
  ASSUME Unique, NEW c \in containers
  PROVE  The(c.id) = c
BY DEF The, Unique

Kept(c, e) == e.id = c.id /\ e.label = c.label /\ e.key = c.key

\* The container with this id gets a new state; nothing else changes.
Restated(id, s) ==
  \E c \in containers, e \in Containers :
    /\ c.id = id /\ Kept(c, e) /\ e.role = c.role /\ e.state = s
    /\ containers' = (containers \ {c}) \cup {e}

\* The container with this id gets a new name; nothing else changes.
Reassigned(id, r) ==
  \E c \in containers, e \in Containers :
    /\ c.id = id /\ Kept(c, e) /\ e.role = r /\ e.state = c.state
    /\ containers' = (containers \ {c}) \cup {e}

LEMMA StateChange ==
  ASSUME Types, Unique, NEW c \in containers, NEW s \in States,
         containers' = With(c.id, "state", s)
  PROVE  Restated(c.id, s)
<1> DEFINE e == [c EXCEPT !.state = s]
<1>1. Without(c.id) = containers \ {c} /\ The(c.id) = c
  BY TheContainer DEF Without, Unique
<1>2. containers' = (containers \ {c}) \cup {e}
  BY <1>1 DEF With
<1>3. c \in Containers
  BY DEF Types
<1>4. e \in Containers /\ Kept(c, e) /\ e.role = c.role /\ e.state = s
  BY <1>3 DEF Containers, Kept
<1> QED
  BY <1>2, <1>4 DEF Restated

LEMMA RoleChange ==
  ASSUME Types, Unique, NEW c \in containers, NEW r \in Roles,
         containers' = With(c.id, "role", r)
  PROVE  Reassigned(c.id, r)
<1> DEFINE e == [c EXCEPT !.role = r]
<1>1. Without(c.id) = containers \ {c} /\ The(c.id) = c
  BY TheContainer DEF Without, Unique
<1>2. containers' = (containers \ {c}) \cup {e}
  BY <1>1 DEF With
<1>3. c \in Containers
  BY DEF Types
<1>4. e \in Containers /\ Kept(c, e) /\ e.role = r /\ e.state = c.state
  BY <1>3 DEF Containers, Kept
<1> QED
  BY <1>2, <1>4 DEF Reassigned

\* How the containers before and after a change of state correspond.
LEMMA RestatedContainers ==
  ASSUME Types, Unique, NEW id, NEW s, Restated(id, s)
  PROVE  /\ containers' \subseteq Containers
         /\ \A e \in containers' : \E c \in containers :
              Kept(c, e) /\ e.role = c.role /\ e.state = IF c.id = id THEN s ELSE c.state
         /\ \A c \in containers : \E e \in containers' :
              Kept(c, e) /\ e.role = c.role /\ e.state = IF c.id = id THEN s ELSE c.state
         /\ ops' \in Nat /\ ops' >= ops => Unique'
<1>1. PICK a \in containers, b \in Containers :
        /\ a.id = id /\ Kept(a, b) /\ b.role = a.role /\ b.state = s
        /\ containers' = (containers \ {a}) \cup {b}
  BY DEF Restated
<1>2. \A c \in containers : c.id = id => c = a
  BY <1>1 DEF Unique
<1>3. \A c \in containers : c \in Containers /\ c.id \in Nat /\ ops \in Nat
  BY DEF Types, Containers
<1> USE DEF Kept
<1>4. containers' \subseteq Containers
  BY <1>1, <1>3
<1>5. \A e \in containers' : \E c \in containers :
        Kept(c, e) /\ e.role = c.role /\ e.state = IF c.id = id THEN s ELSE c.state
  BY <1>1, <1>2
<1>6. \A c \in containers : \E e \in containers' :
        Kept(c, e) /\ e.role = c.role /\ e.state = IF c.id = id THEN s ELSE c.state
  BY <1>1, <1>2
<1>7. ASSUME ops' \in Nat, ops' >= ops PROVE Unique'
  <2>1. \A e \in containers' : e.id <= ops'
    BY <1>1, <1>3, <1>7 DEF Unique
  <2>2. \A c, d \in containers' :
          c.id = d.id \/ (c.label = d.label /\ c.role = "own" /\ d.role = "own") => c = d
    BY <1>1, <1>2 DEF Unique
  <2> QED
    BY <2>1, <2>2 DEF Unique
<1> QED
  BY <1>4, <1>5, <1>6, <1>7

\* The same for a change of name, which must not make a second owner.
LEMMA ReassignedContainers ==
  ASSUME Types, Unique, NEW id, NEW r, Reassigned(id, r)
  PROVE  /\ containers' \subseteq Containers
         /\ \A e \in containers' : \E c \in containers :
              Kept(c, e) /\ e.state = c.state /\ e.role = IF c.id = id THEN r ELSE c.role
         /\ \A c \in containers : \E e \in containers' :
              Kept(c, e) /\ e.state = c.state /\ e.role = IF c.id = id THEN r ELSE c.role
         /\ /\ ops' \in Nat /\ ops' >= ops
            /\ r = "own" => \A c, d \in containers :
                               c.id = id /\ d.label = c.label => d.role # "own"
            => Unique'
<1>1. PICK a \in containers, b \in Containers :
        /\ a.id = id /\ Kept(a, b) /\ b.role = r /\ b.state = a.state
        /\ containers' = (containers \ {a}) \cup {b}
  BY DEF Reassigned
<1>2. \A c \in containers : c.id = id => c = a
  BY <1>1 DEF Unique
<1>3. \A c \in containers : c \in Containers /\ c.id \in Nat /\ ops \in Nat
  BY DEF Types, Containers
<1> USE DEF Kept
<1>4. containers' \subseteq Containers
  BY <1>1, <1>3
<1>5. \A e \in containers' : \E c \in containers :
        Kept(c, e) /\ e.state = c.state /\ e.role = IF c.id = id THEN r ELSE c.role
  BY <1>1, <1>2
<1>6. \A c \in containers : \E e \in containers' :
        Kept(c, e) /\ e.state = c.state /\ e.role = IF c.id = id THEN r ELSE c.role
  BY <1>1, <1>2
<1>7. ASSUME ops' \in Nat, ops' >= ops,
             r = "own" => \A c, d \in containers :
                             c.id = id /\ d.label = c.label => d.role # "own"
      PROVE  Unique'
  <2>1. \A e \in containers' : e.id <= ops'
    BY <1>1, <1>3, <1>7 DEF Unique
  <2>2. \A c, d \in containers' :
          c.id = d.id \/ (c.label = d.label /\ c.role = "own" /\ d.role = "own") => c = d
    BY <1>1, <1>2, <1>7 DEF Unique
  <2> QED
    BY <2>1, <2>2 DEF Unique
<1> QED
  BY <1>4, <1>5, <1>6, <1>7

-----------------------------------------------------------------------------
(* The invariant *)

\* A creation has made the only container of its instance.
CreateInv ==
  op.kind = "create" =>
    /\ \A d \in containers : d.label = op.name =>
         d.role = "own" /\ d.id = op.id /\ d.key = op.key
    /\ op.pc # "forget" =>
         \E c \in containers : c.id = op.id /\ c.label = op.name

\* What an update has done with the replacement ...
NextInv ==
  op.kind = "update" =>
    \E c \in containers :
      /\ c.id = op.id /\ c.label = op.name /\ c.key = op.key
      /\ op.pc \in {"start", "probe", "set_aside", "promote"} => c.role = "next"
      /\ op.pc \in {"retire", "refresh", "record"} => c.role = "own"
      /\ op.pc \in {"roll_back", "remove"} =>
           c.role = "next" \/ (c.role = "own" /\ op.name \in messy)
      /\ op.pc \in {"set_aside", "promote", "retire"} /\ op.wasRunning
           => c.state = "running"

\* ... with the container it replaces ...
OldInv ==
  op.kind = "update" =>
    /\ op.id # op.old
    /\ op.pc \notin {"refresh", "record"} =>
         \E c \in containers :
           /\ c.id = op.old /\ c.label = op.name
           /\ c.state = "running" => op.wasRunning
           /\ op.pc \in {"start", "probe", "set_aside"} => c.role = "own"
           /\ op.pc \in {"promote", "roll_back", "retire"} => c.role = "previous"
           /\ op.pc = "remove" =>
                c.role = "own" \/ (c.role = "previous" /\ op.name \in messy)

\* ... and that there are no others.
PairInv ==
  op.kind = "update" =>
    /\ op.name \notin messy => \A d \in containers : d.label = op.name =>
         d.id = op.id \/ (d.id = op.old /\ op.pc \notin {"refresh", "record"})
    /\ op.pc = "promote" => \A d \in containers : d.label = op.name => d.role # "own"

StartInv ==
  op.kind = "start" => \E c \in containers : c.id = op.id /\ c.label = op.name

\* A deletion that Docker has confirmed left no container under that name.
DeleteInv ==
  op.kind = "delete" => \A d \in containers : d.label = op.name => d.role # "own"

\* Nobody is creating or updating the instance.
AtRest(n) == op.kind \notin {"create", "update"} \/ op.name # n

Tidy ==
  \A d \in containers :
    AtRest(d.label) /\ d.label \notin messy => d.role = "own"

Recorded ==
  \A d \in containers :
    AtRest(d.label) /\ d.label \notin reported /\ d.role = "own"
      => d.key = zenKeys[d.label]

OpInv == CreateInv /\ NextInv /\ OldInv /\ PairInv /\ StartInv /\ DeleteInv

LifecycleInv == Types /\ Unique /\ OpInv /\ Tidy /\ Recorded

\* What the actions do to the operation: it goes to another step, or ends.
Moves(pc) ==
  /\ op' \in {Idle} \cup CreateOps \cup UpdateOps \cup DeleteOps \cup StopOps \cup StartOps
  /\ op'.pc = pc /\ op'.kind = op.kind /\ op'.name = op.name
  /\ op.kind \in {"create", "update", "start"} => op'.id = op.id
  /\ op.kind \in {"create", "update"} => op'.key = op.key
  /\ op.kind = "update" => op'.old = op.old /\ op'.wasRunning = op.wasRunning

LEMMA GotoMoves ==
  ASSUME Types, NEW pc, op' = [op EXCEPT !.pc = pc],
         \/ op.kind = "create" /\ pc \in CreateSteps
         \/ op.kind = "update" /\ pc \in UpdateSteps
         \/ op.kind = "delete" /\ pc \in {"record", "refresh"}
         \/ op.kind = "start" /\ pc \in {"keys", "refresh"}
  PROVE  Moves(pc)
<1>1. CASE op \in CreateOps
  BY <1>1 DEF CreateOps, Moves
<1>2. CASE op \in UpdateOps
  BY <1>2 DEF UpdateOps, Moves
<1>3. CASE op \in DeleteOps
  BY <1>3 DEF DeleteOps, Moves
<1>4. CASE op \in StartOps
  BY <1>4 DEF StartOps, Moves
<1>5. op \notin StopOps /\ op # Idle
  BY DEF StopOps, Idle
<1> QED
  BY <1>1, <1>2, <1>3, <1>4, <1>5 DEF Types

LEMMA IdleOp == Idle.kind = "none" /\ Idle.pc = "idle"
BY DEF Idle

LEMMA OpOfKind ==
  ASSUME Types
  PROVE  /\ op.kind = "create" => op \in CreateOps
         /\ op.kind = "update" => op \in UpdateOps
         /\ op.kind = "delete" => op \in DeleteOps
         /\ op.kind = "stop" => op \in StopOps
         /\ op.kind = "start" => op \in StartOps
         /\ op.kind = "none" => op = Idle
BY DEF Types, Idle, CreateOps, UpdateOps, DeleteOps, StopOps, StartOps

-----------------------------------------------------------------------------
(* The operations of each kind *)

Ops == {Idle} \cup CreateOps \cup UpdateOps \cup DeleteOps \cup StopOps \cup StartOps

\* Every container after the step was there before it under the same name.
Back(e) == \E c \in containers : Kept(c, e) /\ e.role = c.role

LEMMA CreateProceeds ==
  ASSUME LifecycleInv, op.kind = "create",
         containers' \subseteq Containers, Unique', \A e \in containers' : Back(e),
         UNCHANGED <<zenKeys, ops>>, messy \subseteq messy', reported \subseteq reported',
         \/ op' = Idle /\ op.name \in reported'
         \/ \E pc \in CreateSteps :
              /\ Moves(pc)
              /\ pc # "forget" => \E e \in containers' : e.id = op.id /\ e.label = op.name
  PROVE  LifecycleInv'
<1> USE DEF Kept, Back
<1>1. Types /\ Tidy /\ Recorded /\ CreateInv /\ op \in CreateOps
  BY OpOfKind DEF LifecycleInv, OpInv
<1>2. CASE op' = Idle /\ op.name \in reported'
  <2>1. Types'
    BY <1>1, <1>2 DEF Types
  <2>2. Tidy' /\ Recorded'
    BY <1>1, <1>2, IdleOp DEF Tidy, Recorded, AtRest, CreateInv
  <2>3. OpInv'
    BY <1>2, IdleOp DEF OpInv, CreateInv, NextInv, OldInv, PairInv, StartInv, DeleteInv
  <2> QED
    BY <2>1, <2>2, <2>3 DEF LifecycleInv
<1>3. ASSUME NEW pc \in CreateSteps, Moves(pc),
             pc # "forget" => \E e \in containers' : e.id = op.id /\ e.label = op.name
      PROVE  LifecycleInv'
  <2>1. op'.kind = "create" /\ op'.name = op.name /\ op'.id = op.id /\ op'.key = op.key
        /\ op'.pc = pc
    BY <1>3 DEF Moves
  <2>2. Types'
    BY <1>1, <1>3 DEF Types, Moves
  <2>3. Tidy' /\ Recorded'
    BY <1>1, <2>1 DEF Tidy, Recorded, AtRest
  <2>4. CreateInv'
    BY <1>1, <1>3, <2>1 DEF CreateInv
  <2>5. OpInv'
    BY <2>1, <2>4 DEF OpInv, NextInv, OldInv, PairInv, StartInv, DeleteInv
  <2> QED
    BY <2>2, <2>3, <2>5 DEF LifecycleInv
<1> QED
  BY <1>2, <1>3

LEMMA UpdateProceeds ==
  ASSUME LifecycleInv, op.kind = "update",
         containers' \subseteq Containers, Unique',
         \A e \in containers' : e.label # op.name => Back(e),
         UNCHANGED <<zenKeys, ops>>, messy \subseteq messy', reported \subseteq reported',
         \/ /\ op' = Idle /\ op.name \in reported'
            /\ op.name \notin messy' =>
                 \A e \in containers' : e.label = op.name => e.role = "own"
         \/ \E pc \in UpdateSteps : Moves(pc) /\ NextInv' /\ OldInv' /\ PairInv'
  PROVE  LifecycleInv'
<1> USE DEF Kept, Back
<1>1. Types /\ Tidy /\ Recorded /\ op \in UpdateOps
  BY OpOfKind DEF LifecycleInv, OpInv
<1>2. CASE /\ op' = Idle /\ op.name \in reported'
           /\ op.name \notin messy' =>
                \A e \in containers' : e.label = op.name => e.role = "own"
  <2>1. Types'
    BY <1>1, <1>2 DEF Types
  <2>2. Tidy' /\ Recorded'
    BY <1>1, <1>2, IdleOp DEF Tidy, Recorded, AtRest
  <2>3. OpInv'
    BY <1>2, IdleOp DEF OpInv, CreateInv, NextInv, OldInv, PairInv, StartInv, DeleteInv
  <2> QED
    BY <2>1, <2>2, <2>3 DEF LifecycleInv
<1>3. ASSUME NEW pc \in UpdateSteps, Moves(pc), NextInv', OldInv', PairInv'
      PROVE  LifecycleInv'
  <2>1. op'.kind = "update" /\ op'.name = op.name
    BY <1>3 DEF Moves
  <2>2. Types'
    BY <1>1, <1>3 DEF Types, Moves
  <2>3. Tidy' /\ Recorded'
    BY <1>1, <2>1 DEF Tidy, Recorded, AtRest
  <2>5. OpInv'
    BY <1>3, <2>1 DEF OpInv, CreateInv, StartInv, DeleteInv
  <2> QED
    BY <2>2, <2>3, <2>5 DEF LifecycleInv
<1> QED
  BY <1>2, <1>3

\* Stopping, starting and deleting leave the names of the containers alone, and
\* with them what is said of an instance at rest.
LEMMA RestProceeds ==
  ASSUME LifecycleInv, op.kind \notin {"create", "update"},
         op' \in Ops, op'.kind \notin {"create", "update"},
         containers' \subseteq Containers, Unique', \A e \in containers' : Back(e),
         ops' \in Nat, zenKeys' \in [Names -> Keys], messy \subseteq messy',
         \A e \in containers' : /\ zenKeys'[e.label] = zenKeys[e.label] \/ e.role # "own"
                                /\ e.label \in reported => e.label \in reported' \/ e.role # "own",
         op'.kind = "start" =>
           \E e \in containers' : e.id = op'.id /\ e.label = op'.name,
         op'.kind = "delete" =>
           \A e \in containers' : e.label = op'.name => e.role # "own"
  PROVE  LifecycleInv'
<1> USE DEF Kept, Back
<1>1. Tidy /\ Recorded
  BY DEF LifecycleInv
<1>2. Types'
  BY DEF Types, Ops
<1>3. Tidy' /\ Recorded'
  BY <1>1 DEF Tidy, Recorded, AtRest
<1>4. OpInv'
  BY DEF OpInv, CreateInv, NextInv, OldInv, PairInv, StartInv, DeleteInv
<1> QED
  BY <1>2, <1>3, <1>4 DEF LifecycleInv

LEMMA NamesStay ==
  ASSUME Types, Unique, ops' \in Nat, ops' >= ops,
         containers' \subseteq containers \/ \E id, s : Restated(id, s)
  PROVE  containers' \subseteq Containers /\ Unique' /\ \A e \in containers' : Back(e)
<1>1. CASE containers' \subseteq containers
  <2>1. \A c \in containers : c.id \in Nat /\ c.id <= ops /\ ops \in Nat
    BY DEF Types, Unique, Containers
  <2> QED
    BY <1>1, <2>1 DEF Types, Unique, Back, Kept
<1>2. ASSUME NEW id, NEW s, Restated(id, s)
      PROVE  containers' \subseteq Containers /\ Unique' /\ \A e \in containers' : Back(e)
  BY <1>2, RestatedContainers DEF Back
<1> QED
  BY <1>1, <1>2

-----------------------------------------------------------------------------
(* instanceCreate *)

\* The container an operation works on is there.
LEMMA CreatedIsThere ==
  ASSUME LifecycleInv, op.kind = "create", op.pc # "forget"
  PROVE  \E c \in containers : c.id = op.id /\ c.label = op.name
BY DEF LifecycleInv, OpInv, CreateInv

LEMMA CreateSafe ==
  ASSUME LifecycleInv,
         StartCreated \/ ProbeCreated \/ RefreshCreated \/ RemoveCreated \/ ForgetCreated
  PROVE  LifecycleInv'
<1>0. Types /\ Unique
  BY DEF LifecycleInv
<1>ops. ops \in Nat /\ ops >= ops
  BY <1>0 DEF Types
<1> USE DEF Goto, Fail, CreateSteps
<1>1. CASE StartCreated
  <2>1. PICK c \in containers : c.id = op.id /\ c.label = op.name
    BY <1>1, CreatedIsThere DEF StartCreated
  <2>2. /\ op.kind = "create" /\ op.pc = "start" /\ UNCHANGED <<zenKeys, ops, reported>>
        /\ messy \subseteq messy'
        /\ containers' = containers \/ containers' = With(op.id, "state", "starting")
        /\ op' = [op EXCEPT !.pc = "probe"] \/ op' = [op EXCEPT !.pc = "remove"]
    BY <1>1 DEF StartCreated, Call
  <2>3. containers' = containers \/ Restated(op.id, "starting")
    BY <1>0, <2>1, <2>2, StateChange DEF States
  <2>4. /\ containers' \subseteq Containers /\ Unique' /\ \A e \in containers' : Back(e)
        /\ \E e \in containers' : e.id = op.id /\ e.label = op.name
    BY <1>0, <1>ops, <2>1, <2>2, <2>3, NamesStay, RestatedContainers DEF Kept
  <2>5. Moves("probe") \/ Moves("remove")
    BY <1>0, <2>2, GotoMoves
  <2> QED
    BY <2>2, <2>4, <2>5, CreateProceeds
<1>2. CASE ProbeCreated
  <2>1. PICK c \in containers : c.id = op.id /\ c.label = op.name
    BY <1>2, CreatedIsThere DEF ProbeCreated
  <2>2. /\ op.kind = "create" /\ UNCHANGED <<zenKeys, ops, reported, messy>>
        /\ containers' = containers \/ containers' = With(op.id, "state", "running")
        /\ op' = [op EXCEPT !.pc = "refresh"] \/ op' = [op EXCEPT !.pc = "remove"]
    BY <1>2 DEF ProbeCreated
  <2>3. containers' = containers \/ Restated(op.id, "running")
    BY <1>0, <2>1, <2>2, StateChange DEF States
  <2>4. /\ containers' \subseteq Containers /\ Unique' /\ \A e \in containers' : Back(e)
        /\ \E e \in containers' : e.id = op.id /\ e.label = op.name
    BY <1>0, <1>ops, <2>1, <2>2, <2>3, NamesStay, RestatedContainers DEF Kept
  <2>5. Moves("refresh") \/ Moves("remove")
    BY <1>0, <2>2, GotoMoves
  <2> QED
    BY <2>2, <2>4, <2>5, CreateProceeds
<1>3. CASE RefreshCreated
  <2>1. /\ op.kind = "create" /\ UNCHANGED <<containers, zenKeys, ops, reported, messy>>
        /\ op' = [op EXCEPT !.pc = "verify"] \/ op' = [op EXCEPT !.pc = "remove_listed"]
    BY <1>3 DEF RefreshCreated, Refresh
  <2>2. \E c \in containers' : c.id = op.id /\ c.label = op.name
    BY <1>3, <2>1, CreatedIsThere DEF RefreshCreated
  <2>3. containers' \subseteq Containers /\ Unique' /\ \A e \in containers' : Back(e)
    BY <1>0, <1>ops, <2>1, NamesStay
  <2>4. Moves("verify") \/ Moves("remove_listed")
    BY <1>0, <2>1, GotoMoves
  <2> QED
    BY <2>1, <2>2, <2>3, <2>4, CreateProceeds
<1>4. CASE RemoveCreated
  <2>1. /\ op.kind = "create" /\ UNCHANGED <<zenKeys, ops>>
        /\ messy \subseteq messy' /\ reported \subseteq reported'
        /\ containers' \subseteq containers
        /\ \/ op' = [op EXCEPT !.pc = "forget"]
           \/ op' = Idle /\ op.name \in reported'
    BY <1>4 DEF RemoveCreated, Attempted, Without
  <2>3. containers' \subseteq Containers /\ Unique' /\ \A e \in containers' : Back(e)
    BY <1>0, <1>ops, <2>1, NamesStay
  <2>4. Moves("forget") \/ (op' = Idle /\ op.name \in reported')
    BY <1>0, <2>1, GotoMoves
  <2> QED
    BY <2>1, <2>3, <2>4, CreateProceeds
<1>5. CASE ForgetCreated
  <2>1. /\ op.kind = "create" /\ UNCHANGED <<containers, zenKeys, ops, messy>>
        /\ reported \subseteq reported' /\ op' = Idle /\ op.name \in reported'
    BY <1>5 DEF ForgetCreated, Refresh
  <2>2. containers' \subseteq Containers /\ Unique' /\ \A e \in containers' : Back(e)
    BY <1>0, <1>ops, <2>1, NamesStay
  <2> QED
    BY <2>1, <2>2, CreateProceeds
<1> QED
  BY <1>1, <1>2, <1>3, <1>4, <1>5

LEMMA VerifySafe == ASSUME LifecycleInv, VerifyCreated PROVE LifecycleInv'
<1>0. Types /\ Unique /\ Tidy /\ Recorded /\ CreateInv
  BY DEF LifecycleInv, OpInv
<1>1. op.kind = "create" /\ op.pc = "verify" /\ UNCHANGED <<containers, ops, messy>>
  BY DEF VerifyCreated
<1>ops. ops \in Nat /\ ops >= ops
  BY <1>0 DEF Types
<1>2. containers' \subseteq Containers /\ Unique' /\ \A e \in containers' : Back(e)
  BY <1>0, <1>1, <1>ops, NamesStay
<1>3. CASE Goto("remove_listed") /\ UNCHANGED zenKeys
  <2>1. Moves("remove_listed")
    BY <1>0, <1>1, <1>3, GotoMoves DEF Goto, CreateSteps
  <2>2. \E c \in containers' : c.id = op.id /\ c.label = op.name
    BY <1>1, CreatedIsThere
  <2> QED
    BY <1>1, <1>2, <1>3, <2>1, <2>2, CreateProceeds DEF Goto, CreateSteps
<1>4. CASE zenKeys' = [zenKeys EXCEPT ![op.name] = op.key] /\ Succeed
  <2>1. op \in CreateOps
    BY <1>0, <1>1, OpOfKind
  <2>2. op.name \in Names /\ op.key \in Keys
    BY <2>1 DEF CreateOps, Keys
  <2>3. /\ zenKeys' \in [Names -> Keys] /\ zenKeys'[op.name] = op.key
        /\ \A n \in Names \ {op.name} : zenKeys'[n] = zenKeys[n]
    BY <1>0, <1>4, <2>2 DEF Types
  <2>4. op' = Idle /\ reported' = reported \ {op.name}
    BY <1>4 DEF Succeed
  <2>5. Types'
    BY <1>0, <1>1, <1>2, <2>3, <2>4 DEF Types
  <2>6. Tidy'
    BY <1>0, <1>1 DEF Tidy, AtRest, CreateInv
  <2>7. Recorded'
    <3>1. ASSUME NEW d \in containers, d.label \notin reported', d.role = "own"
          PROVE  d.key = zenKeys'[d.label]
      <4>1. d.label \in Names
        BY <1>0 DEF Types, Containers
      <4>2. CASE d.label = op.name
        BY <1>0, <1>1, <2>3, <4>2 DEF CreateInv
      <4>3. CASE d.label # op.name
        BY <1>0, <2>3, <2>4, <3>1, <4>1, <4>3 DEF Recorded, AtRest
      <4> QED
        BY <4>2, <4>3
    <3> QED
      BY <1>1, <3>1 DEF Recorded
  <2>8. OpInv'
    BY <2>4, IdleOp DEF OpInv, CreateInv, NextInv, OldInv, PairInv, StartInv, DeleteInv
  <2> QED
    BY <1>2, <2>5, <2>6, <2>7, <2>8 DEF LifecycleInv
<1> QED
  BY <1>3, <1>4 DEF VerifyCreated

LEMMA CreateBegins ==
  ASSUME LifecycleInv, NEW n \in Names, Create(n)
  PROVE  LifecycleInv'
<1>0. Types /\ Unique /\ Tidy /\ Recorded
  BY DEF LifecycleInv
<1>1. PICK key \in UpstreamKeys :
        LET made  == [ id |-> ops + 1, label |-> n, role |-> "own",
                       state |-> "created", key |-> key ]
            begun == [ kind |-> "create", pc |-> "start", name |-> n,
                       id |-> ops + 1, key |-> key ]
        IN  Call(n, containers \cup {made}, Started(begun), Refused(n))
  BY DEF Create
<1> DEFINE made == [ id |-> ops + 1, label |-> n, role |-> "own",
                     state |-> "created", key |-> key ]
           begun == [ kind |-> "create", pc |-> "start", name |-> n,
                      id |-> ops + 1, key |-> key ]
<1>2. /\ op = Idle /\ ops' = ops + 1 /\ UNCHANGED zenKeys /\ messy \subseteq messy'
      /\ \/ op' = begun /\ containers' = containers \cup {made} /\ reported' = reported
         \/ /\ op' = Idle /\ reported' = reported \cup {n}
            /\ containers' \in {containers, containers \cup {made}}
  BY <1>1 DEF Create, Call, Started, Refused
<1>3. /\ made \in Containers /\ begun \in CreateOps /\ ops' \in Nat /\ ops' >= ops
      /\ ops + 1 \in Nat
  BY <1>0, <1>2 DEF Types, Containers, CreateOps, CreateSteps, Roles, States, Keys
<1>4. /\ made.id = ops + 1 /\ made.label = n /\ made.role = "own" /\ made.key = key
      /\ begun.kind = "create" /\ begun.pc = "start" /\ begun.name = n
      /\ begun.id = ops + 1 /\ begun.key = key
  OBVIOUS
<1>5. \A c \in containers : c.label # n /\ c.id \in Nat /\ c.id <= ops /\ ops \in Nat
  BY <1>0 DEF Create, Types, Unique, Containers
<1> HIDE DEF made, begun
<1>6. Types'
  BY <1>0, <1>2, <1>3 DEF Types
<1>7. Unique'
  <2>1. \A c \in containers : c.id <= ops' /\ c.id # made.id
    BY <1>2, <1>4, <1>5
  <2>2. made.id <= ops'
    BY <1>2, <1>3, <1>4
  <2> QED
    BY <1>0, <1>2, <1>4, <1>5, <2>1, <2>2 DEF Unique
<1>8. Tidy' /\ Recorded'
  BY <1>0, <1>2, <1>4, <1>5, IdleOp DEF Tidy, Recorded, AtRest
<1>9. OpInv'
  BY <1>2, <1>4, <1>5, IdleOp
  DEF OpInv, CreateInv, NextInv, OldInv, PairInv, StartInv, DeleteInv
<1> QED
  BY <1>6, <1>7, <1>8, <1>9 DEF LifecycleInv

-----------------------------------------------------------------------------
(* instanceUpdate and docker.replace *)

LEMMA UpdateBegins ==
  ASSUME LifecycleInv, NEW n \in Names, Update(n)
  PROVE  LifecycleInv'
<1>0. Types /\ Unique /\ Tidy /\ Recorded
  BY DEF LifecycleInv
<1>1. PICK c \in Owners(n), key \in UpstreamKeys \cup ({zenKeys[n]} \ {NoKey}) :
        LET next  == [ id |-> ops + 1, label |-> n, role |-> "next",
                       state |-> "created", key |-> key ]
            begun == [ kind |-> "update", name |-> n, id |-> ops + 1,
                       old |-> c.id, key |-> key, wasRunning |-> Up(c),
                       pc |-> IF Up(c) THEN "start" ELSE "set_aside" ]
        IN  Call(n, containers \cup {next}, Started(begun), Refused(n))
  BY DEF Update
<1> DEFINE next  == [ id |-> ops + 1, label |-> n, role |-> "next",
                      state |-> "created", key |-> key ]
           begun == [ kind |-> "update", name |-> n, id |-> ops + 1,
                      old |-> c.id, key |-> key, wasRunning |-> Up(c),
                      pc |-> IF Up(c) THEN "start" ELSE "set_aside" ]
<1>2. /\ op = Idle /\ ops' = ops + 1 /\ UNCHANGED zenKeys /\ messy \subseteq messy'
      /\ \/ op' = begun /\ containers' = containers \cup {next} /\ reported' = reported
         \/ /\ op' = Idle /\ reported' = reported \cup {n}
            /\ containers' = containers \/ (containers' = containers \cup {next} /\ n \in messy')
  BY <1>1 DEF Update, Call, Started, Refused
<1>3. c \in containers /\ c.label = n /\ c.role = "own" /\ c.id \in Nat /\ key \in UpstreamKeys
  BY <1>0 DEF Owners, Types, Containers, Keys
<1>4. /\ next \in Containers /\ begun \in UpdateOps /\ ops' \in Nat /\ ops' >= ops
      /\ ops + 1 \in Nat
  BY <1>0, <1>2, <1>3
  DEF Types, Containers, UpdateOps, UpdateSteps, Roles, States, Keys, Up
<1>5. /\ next.id = ops + 1 /\ next.label = n /\ next.role = "next" /\ next.key = key
      /\ begun.kind = "update" /\ begun.name = n /\ begun.key = key
      /\ begun.id = ops + 1 /\ begun.old = c.id
      /\ begun.pc = "start" \/ (begun.pc = "set_aside" /\ ~begun.wasRunning)
      /\ c.state = "running" => begun.wasRunning
  BY DEF Up
<1>6. \A d \in containers : d.id \in Nat /\ d.id <= ops /\ ops \in Nat
  BY <1>0 DEF Types, Unique, Containers
<1> HIDE DEF next, begun
<1>7. Types'
  BY <1>0, <1>2, <1>4 DEF Types
<1>8. Unique'
  <2>1. \A d \in containers : d.id <= ops' /\ d.id # next.id
    BY <1>2, <1>5, <1>6
  <2>2. next.id <= ops'
    BY <1>2, <1>4, <1>5
  <2> QED
    BY <1>0, <1>2, <1>5, <2>1, <2>2 DEF Unique
<1>9. Tidy' /\ Recorded'
  BY <1>0, <1>2, <1>5, IdleOp DEF Tidy, Recorded, AtRest
<1>10. CASE op' = Idle
  <2>1. OpInv'
    BY <1>10, IdleOp DEF OpInv, CreateInv, NextInv, OldInv, PairInv, StartInv, DeleteInv
  <2> QED
    BY <1>7, <1>8, <1>9, <2>1 DEF LifecycleInv
<1>11. CASE op' = begun /\ containers' = containers \cup {next}
  <2>1. NextInv'
    BY <1>5, <1>11 DEF NextInv
  <2>2. OldInv'
    <3>1. c.id # ops + 1
      BY <1>3, <1>6
    <3> QED
      BY <1>3, <1>5, <1>11, <3>1 DEF OldInv
  <2>3. PairInv'
    <3>1. ASSUME n \notin messy', NEW d \in containers, d.label = n PROVE d = c
      <4>1. d.role = "own"
        BY <1>0, <1>2, <3>1, IdleOp DEF Tidy, AtRest
      <4> QED
        BY <1>0, <1>3, <3>1, <4>1 DEF Unique
    <3> QED
      BY <1>5, <1>11, <3>1 DEF PairInv
  <2>4. OpInv'
    BY <1>5, <1>11, <2>1, <2>2, <2>3 DEF OpInv, CreateInv, StartInv, DeleteInv
  <2> QED
    BY <1>7, <1>8, <1>9, <2>4 DEF LifecycleInv
<1> QED
  BY <1>2, <1>10, <1>11

\* The steps that start and probe the replacement.
LEMMA NextStarts ==
  ASSUME LifecycleInv, StartNext \/ ProbeNext
  PROVE  LifecycleInv'
<1>0. Types /\ Unique /\ NextInv /\ OldInv /\ PairInv /\ ops \in Nat /\ ops >= ops
  BY DEF LifecycleInv, OpInv, Types
<1>1. PICK s \in {"starting", "running"} :
        /\ op.kind = "update" /\ op.pc \in {"start", "probe"}
        /\ UNCHANGED <<zenKeys, ops, reported>> /\ messy \subseteq messy'
        /\ containers' = containers \/ containers' = With(op.id, "state", s)
        /\ \/ op' = [op EXCEPT !.pc = "probe"]
           \/ op' = [op EXCEPT !.pc = "remove"]
           \/ op' = [op EXCEPT !.pc = "set_aside"] /\ s = "running"
              /\ containers' = With(op.id, "state", s)
  BY DEF StartNext, ProbeNext, Call, Goto
<1>2. PICK c \in containers :
        c.id = op.id /\ c.label = op.name /\ c.key = op.key /\ c.role = "next"
  BY <1>0, <1>1 DEF NextInv
<1>3. containers' = containers \/ Restated(op.id, s)
  BY <1>0, <1>1, <1>2, StateChange DEF States
<1>4. containers' \subseteq Containers /\ Unique' /\ \A e \in containers' : Back(e)
  BY <1>0, <1>1, <1>3, NamesStay
<1>5. \/ Moves("probe") \/ Moves("remove")
      \/ Moves("set_aside") /\ s = "running" /\ Restated(op.id, s)
  <2>1. containers' = With(op.id, "state", s) => Restated(op.id, s)
    BY <1>0, <1>2, StateChange DEF States
  <2> QED
    BY <1>0, <1>1, <2>1, GotoMoves DEF UpdateSteps
<1>6. \A d \in containers : \E e \in containers' :
        /\ Kept(d, e) /\ e.role = d.role
        /\ d.id # op.id => e.state = d.state
        /\ Restated(op.id, s) /\ d.id = op.id => e.state = s
  <2>1. CASE Restated(op.id, s)
    BY <1>0, <2>1, RestatedContainers
  <2>2. CASE containers' = containers /\ ~Restated(op.id, s)
    BY <2>2 DEF Kept
  <2> QED
    BY <1>3, <2>1, <2>2
<1>7. PICK pc \in {"probe", "remove", "set_aside"} :
        Moves(pc) /\ (pc = "set_aside" => s = "running" /\ Restated(op.id, s))
  BY <1>5
<1>8. /\ op'.kind = "update" /\ op'.pc = pc /\ op'.name = op.name /\ op'.id = op.id
      /\ op'.key = op.key /\ op'.old = op.old /\ op'.wasRunning = op.wasRunning
  BY <1>1, <1>7 DEF Moves
<1>9. NextInv'
  <2>1. PICK e \in containers' :
          /\ Kept(c, e) /\ e.role = "next"
          /\ Restated(op.id, s) => e.state = s
    BY <1>2, <1>6
  <2> QED
    BY <1>2, <1>7, <1>8, <2>1 DEF NextInv, Kept
<1>10. OldInv'
  <2>1. op.id # op.old
    BY <1>0, <1>1 DEF OldInv
  <2>2. PICK d \in containers :
          /\ d.id = op.old /\ d.label = op.name /\ d.role = "own"
          /\ d.state = "running" => op.wasRunning
    BY <1>0, <1>1 DEF OldInv
  <2>3. PICK e \in containers' : Kept(d, e) /\ e.role = d.role /\ e.state = d.state
    BY <1>6, <2>1, <2>2
  <2> QED
    BY <1>7, <1>8, <2>1, <2>2, <2>3 DEF OldInv, Kept
<1>11. PairInv'
  BY <1>0, <1>1, <1>4, <1>7, <1>8 DEF PairInv, Back, Kept
<1> QED
  BY <1>1, <1>4, <1>7, <1>9, <1>10, <1>11, UpdateProceeds DEF UpdateSteps

\* The steps that exchange the names.
LEMMA NamesChange ==
  ASSUME LifecycleInv, SetAside \/ Promote \/ RollBack
  PROVE  LifecycleInv'
<1>0. Types /\ Unique /\ NextInv /\ OldInv /\ PairInv /\ ops \in Nat /\ ops >= ops
  BY DEF LifecycleInv, OpInv, Types
<1>1. /\ op.kind = "update" /\ op.pc \in {"set_aside", "promote", "roll_back"}
      /\ UNCHANGED <<zenKeys, ops, reported>> /\ messy \subseteq messy'
  BY DEF SetAside, Promote, RollBack, Call, Attempted, Goto
<1>2. PICK c \in containers :
        /\ c.id = op.id /\ c.label = op.name /\ c.key = op.key
        /\ op.pc # "roll_back" => c.role = "next" /\ (op.wasRunning => c.state = "running")
        /\ op.pc = "roll_back" => c.role = "next" \/ (c.role = "own" /\ op.name \in messy)
  BY <1>0, <1>1 DEF NextInv
<1>3. PICK d \in containers :
        /\ d.id = op.old /\ d.label = op.name
        /\ d.state = "running" => op.wasRunning
        /\ d.role = IF op.pc = "set_aside" THEN "own" ELSE "previous"
  BY <1>0, <1>1 DEF OldInv
<1>4. c.id # d.id
  BY <1>0, <1>1, <1>2, <1>3 DEF OldInv
<1>5. ASSUME NEW id \in {op.id, op.old}, NEW r \in Roles, Reassigned(id, r),
             r = "own" => \A e \in containers : e.label = op.name => e.role # "own"
      PROVE  /\ containers' \subseteq Containers /\ Unique'
             /\ \A e \in containers' : \E b \in containers :
                  Kept(b, e) /\ e.state = b.state /\ e.role = IF b.id = id THEN r ELSE b.role
             /\ \A b \in containers : \E e \in containers' :
                  Kept(b, e) /\ e.state = b.state /\ e.role = IF b.id = id THEN r ELSE b.role
             /\ \A e \in containers' : e.label # op.name => Back(e)
  <2>1. \A b \in containers : b.id = id => b.label = op.name
    BY <1>0, <1>2, <1>3, <1>5 DEF Unique
  <2>2. r = "own" => \A a, b \in containers : a.id = id /\ b.label = a.label => b.role # "own"
    BY <1>5, <2>1
  <2>3. /\ containers' \subseteq Containers /\ Unique'
        /\ \A e \in containers' : \E b \in containers :
             Kept(b, e) /\ e.state = b.state /\ e.role = IF b.id = id THEN r ELSE b.role
        /\ \A b \in containers : \E e \in containers' :
             Kept(b, e) /\ e.state = b.state /\ e.role = IF b.id = id THEN r ELSE b.role
    BY <1>0, <1>1, <1>5, <2>2, ReassignedContainers
  <2>4. \A e \in containers' : e.label # op.name => Back(e)
    BY <2>1, <2>3 DEF Back, Kept
  <2> QED
    BY <2>3, <2>4
<1>same. containers' = containers =>
           /\ containers' \subseteq Containers /\ Unique'
           /\ \A e \in containers' : e.label # op.name => Back(e)
  BY <1>0, <1>1, NamesStay
<1>moved. ASSUME NEW pc, Moves(pc)
          PROVE  /\ op'.kind = "update" /\ op'.pc = pc /\ op'.name = op.name
                 /\ op'.id = op.id /\ op'.key = op.key /\ op'.old = op.old
                 /\ op'.wasRunning = op.wasRunning
  BY <1>1, <1>moved DEF Moves
<1>6. CASE SetAside
  <2>1. op.pc = "set_aside"
    BY <1>6 DEF SetAside
  <2>2. \/ /\ containers' = With(op.old, "role", "previous")
           /\ op' = [op EXCEPT !.pc = "promote"] /\ messy' = messy
        \/ containers' = containers /\ op' = [op EXCEPT !.pc = "remove"]
        \/ /\ containers' = With(op.old, "role", "previous")
           /\ op' = [op EXCEPT !.pc = "remove"] /\ op.name \in messy'
    BY <1>6 DEF SetAside, Call, Goto
  <2>3. containers' = With(op.old, "role", "previous") => Reassigned(op.old, "previous")
    BY <1>0, <1>3, RoleChange DEF Roles
  <2>4. \A e \in containers : e.label = op.name /\ e.role = "own" => e = d
    BY <1>0, <1>3, <2>1 DEF Unique
  <2>5. CASE containers' = containers /\ op' = [op EXCEPT !.pc = "remove"]
    <3>1. Moves("remove")
      BY <1>0, <1>1, <2>5, GotoMoves DEF UpdateSteps
    <3>2. NextInv' /\ OldInv' /\ PairInv'
      BY <1>0, <1>1, <1>2, <1>3, <1>4, <1>moved, <2>1, <2>5, <3>1
      DEF NextInv, OldInv, PairInv
    <3> QED
      BY <1>1, <1>same, <2>5, <3>1, <3>2, UpdateProceeds DEF UpdateSteps
  <2>6. CASE /\ Reassigned(op.old, "previous")
             /\ \/ op' = [op EXCEPT !.pc = "promote"] /\ messy' = messy
                \/ op' = [op EXCEPT !.pc = "remove"] /\ op.name \in messy'
    <3>1. PICK pc \in {"promote", "remove"} :
            Moves(pc) /\ (pc = "remove" => op.name \in messy')
      BY <1>0, <1>1, <2>6, GotoMoves DEF UpdateSteps
    <3>2. /\ containers' \subseteq Containers /\ Unique'
          /\ \A e \in containers' : \E b \in containers :
               Kept(b, e) /\ e.state = b.state
               /\ e.role = IF b.id = op.old THEN "previous" ELSE b.role
          /\ \A b \in containers : \E e \in containers' :
               Kept(b, e) /\ e.state = b.state
               /\ e.role = IF b.id = op.old THEN "previous" ELSE b.role
          /\ \A e \in containers' : e.label # op.name => Back(e)
      BY <1>5, <2>6 DEF Roles
    <3>3. NextInv'
      <4>1. PICK e \in containers' : Kept(c, e) /\ e.state = c.state /\ e.role = c.role
        BY <1>2, <1>3, <1>4, <3>2
      <4> QED
        BY <1>2, <1>moved, <2>1, <3>1, <4>1 DEF NextInv, Kept
    <3>4. OldInv'
      <4>1. PICK e \in containers' : Kept(d, e) /\ e.state = d.state /\ e.role = "previous"
        BY <1>3, <3>2
      <4> QED
        BY <1>2, <1>3, <1>4, <1>moved, <3>1, <4>1 DEF OldInv, Kept
    <3>5. PairInv'
      <4>1. ASSUME NEW e \in containers', e.label = op.name PROVE e.role # "own"
        <5>1. PICK b \in containers :
                Kept(b, e) /\ e.role = IF b.id = op.old THEN "previous" ELSE b.role
          BY <3>2
        <5> QED
          BY <1>3, <2>4, <4>1, <5>1 DEF Kept
      <4>2. ASSUME op.name \notin messy', NEW e \in containers', e.label = op.name
            PROVE  e.id \in {op.id, op.old}
        <5>1. PICK b \in containers : Kept(b, e)
          BY <3>2
        <5> QED
          BY <1>0, <1>1, <4>2, <5>1 DEF PairInv, Kept
      <4> QED
        BY <1>moved, <3>1, <4>1, <4>2 DEF PairInv
    <3> QED
      BY <1>1, <3>1, <3>2, <3>3, <3>4, <3>5, UpdateProceeds DEF UpdateSteps
  <2> QED
    BY <2>2, <2>3, <2>5, <2>6
<1>ids. ASSUME NEW id \in {op.id, op.old}, NEW r \in Roles, Reassigned(id, r),
             r = "own" => \A e \in containers : e.label = op.name => e.role # "own",
             op.name \notin messy', NEW e \in containers', e.label = op.name
        PROVE  e.id \in {op.id, op.old}
  <2>1. PICK b \in containers : Kept(b, e)
    BY <1>5, <1>ids
  <2> QED
    BY <1>0, <1>1, <1>ids, <2>1 DEF PairInv, Kept
<1>7. CASE Promote
  <2>1. op.pc = "promote"
    BY <1>7 DEF Promote
  <2>2. \/ /\ containers' = With(op.id, "role", "own")
           /\ op' = [op EXCEPT !.pc = "retire"]
        \/ containers' = containers /\ op' = [op EXCEPT !.pc = "roll_back"]
        \/ /\ containers' = With(op.id, "role", "own")
           /\ op' = [op EXCEPT !.pc = "roll_back"] /\ op.name \in messy'
    BY <1>7 DEF Promote, Call, Goto
  <2>3. containers' = With(op.id, "role", "own") => Reassigned(op.id, "own")
    BY <1>0, <1>2, RoleChange DEF Roles
  <2>4. \A e \in containers : e.label = op.name => e.role # "own"
    BY <1>0, <1>1, <2>1 DEF PairInv
  <2>5. CASE containers' = containers /\ op' = [op EXCEPT !.pc = "roll_back"]
    <3>1. Moves("roll_back")
      BY <1>0, <1>1, <2>5, GotoMoves DEF UpdateSteps
    <3>2. NextInv' /\ OldInv' /\ PairInv'
      BY <1>0, <1>1, <1>2, <1>3, <1>4, <1>moved, <2>1, <2>5, <3>1
      DEF NextInv, OldInv, PairInv
    <3> QED
      BY <1>1, <1>same, <2>5, <3>1, <3>2, UpdateProceeds DEF UpdateSteps
  <2>6. CASE /\ Reassigned(op.id, "own")
             /\ \/ op' = [op EXCEPT !.pc = "retire"]
                \/ op' = [op EXCEPT !.pc = "roll_back"] /\ op.name \in messy'
    <3>1. PICK pc \in {"retire", "roll_back"} :
            Moves(pc) /\ (pc = "roll_back" => op.name \in messy')
      BY <1>0, <1>1, <2>6, GotoMoves DEF UpdateSteps
    <3>2. /\ containers' \subseteq Containers /\ Unique'
          /\ \A b \in containers : \E e \in containers' :
               Kept(b, e) /\ e.state = b.state
               /\ e.role = IF b.id = op.id THEN "own" ELSE b.role
          /\ \A e \in containers' : e.label # op.name => Back(e)
      BY <1>5, <2>4, <2>6 DEF Roles
    <3>3. NextInv'
      <4>1. PICK e \in containers' : Kept(c, e) /\ e.state = c.state /\ e.role = "own"
        BY <1>2, <3>2
      <4> QED
        BY <1>2, <1>moved, <2>1, <3>1, <4>1 DEF NextInv, Kept
    <3>4. OldInv'
      <4>1. PICK e \in containers' : Kept(d, e) /\ e.state = d.state /\ e.role = "previous"
        BY <1>2, <1>3, <1>4, <2>1, <3>2
      <4> QED
        BY <1>2, <1>3, <1>4, <1>moved, <3>1, <4>1 DEF OldInv, Kept
    <3>5. PairInv'
      <4>1. op.name \notin messy' => \A e \in containers' : e.label = op.name =>
                                        e.id \in {op.id, op.old}
        BY <1>ids, <2>4, <2>6 DEF Roles
      <4> QED
        BY <1>moved, <3>1, <4>1 DEF PairInv
    <3> QED
      BY <1>1, <3>1, <3>2, <3>3, <3>4, <3>5, UpdateProceeds DEF UpdateSteps
  <2> QED
    BY <2>2, <2>3, <2>5, <2>6
<1>8. CASE RollBack
  <2>1. op.pc = "roll_back" /\ Moves("remove")
    BY <1>0, <1>8, GotoMoves DEF RollBack, Goto, UpdateSteps
  <2>2. \/ Owners(op.name) = {} /\ containers' = With(op.old, "role", "own")
        \/ Owners(op.name) = {} /\ containers' = containers /\ op.name \in messy'
        \/ Owners(op.name) # {} /\ containers' = containers
    BY <1>8 DEF RollBack, Attempted
  <2>3. containers' = With(op.old, "role", "own") => Reassigned(op.old, "own")
    BY <1>0, <1>3, RoleChange DEF Roles
  <2>4. Owners(op.name) # {} => op.name \in messy
    <3>1. ASSUME op.name \notin messy, NEW e \in Owners(op.name) PROVE FALSE
      <4>1. e \in containers /\ e.label = op.name /\ e.role = "own"
        BY DEF Owners
      <4>2. e.id = c.id \/ e.id = d.id
        BY <1>0, <1>1, <1>2, <1>3, <3>1, <4>1 DEF PairInv
      <4>3. e = c \/ e = d
        BY <1>0, <4>1, <4>2 DEF Unique
      <4> QED
        BY <1>2, <1>3, <2>1, <3>1, <4>1, <4>3
    <3> QED
      BY <3>1
  <2>5. CASE containers' = containers /\ op.name \in messy'
    <3>1. NextInv' /\ OldInv' /\ PairInv'
      BY <1>0, <1>1, <1>2, <1>3, <1>4, <1>moved, <2>1, <2>5
      DEF NextInv, OldInv, PairInv
    <3> QED
      BY <1>1, <1>same, <2>1, <2>5, <3>1, UpdateProceeds DEF UpdateSteps
  <2>6. CASE Owners(op.name) = {} /\ Reassigned(op.old, "own")
    <3>1. \A e \in containers : e.label = op.name => e.role # "own"
      BY <2>6 DEF Owners
    <3>2. /\ containers' \subseteq Containers /\ Unique'
          /\ \A b \in containers : \E e \in containers' :
               Kept(b, e) /\ e.state = b.state
               /\ e.role = IF b.id = op.old THEN "own" ELSE b.role
          /\ \A e \in containers' : e.label # op.name => Back(e)
      BY <1>5, <2>6, <3>1 DEF Roles
    <3>3. NextInv'
      <4>1. PICK e \in containers' : Kept(c, e) /\ e.state = c.state /\ e.role = "next"
        BY <1>2, <1>3, <1>4, <2>1, <3>1, <3>2
      <4> QED
        BY <1>2, <1>moved, <2>1, <4>1 DEF NextInv, Kept
    <3>4. OldInv'
      <4>1. PICK e \in containers' : Kept(d, e) /\ e.state = d.state /\ e.role = "own"
        BY <1>3, <3>2
      <4> QED
        BY <1>2, <1>3, <1>4, <1>moved, <2>1, <4>1 DEF OldInv, Kept
    <3>5. PairInv'
      <4>1. op.name \notin messy' => \A e \in containers' : e.label = op.name =>
                                        e.id \in {op.id, op.old}
        BY <1>ids, <2>6, <3>1 DEF Roles
      <4> QED
        BY <1>moved, <2>1, <4>1 DEF PairInv
    <3> QED
      BY <1>1, <2>1, <3>2, <3>3, <3>4, <3>5, UpdateProceeds DEF UpdateSteps
  <2> QED
    BY <1>1, <2>2, <2>3, <2>4, <2>5, <2>6
<1> QED
  BY <1>6, <1>7, <1>8

\* The steps that end an update.
LEMMA NextEnds ==
  ASSUME LifecycleInv, RemoveNext \/ Retire \/ RefreshUpdated
  PROVE  LifecycleInv'
<1>0. Types /\ Unique /\ NextInv /\ OldInv /\ PairInv /\ ops \in Nat /\ ops >= ops
  BY DEF LifecycleInv, OpInv, Types
<1>1. /\ op.kind = "update" /\ op.pc \in {"remove", "retire", "refresh"}
      /\ UNCHANGED <<zenKeys, ops>> /\ messy \subseteq messy' /\ reported \subseteq reported'
  BY DEF RemoveNext, Retire, RefreshUpdated, Refresh, Attempted, Goto, Fail
<1>2. PICK c \in containers :
        /\ c.id = op.id /\ c.label = op.name /\ c.key = op.key
        /\ op.pc # "remove" => c.role = "own"
        /\ op.pc = "remove" => c.role = "next" \/ (c.role = "own" /\ op.name \in messy)
  BY <1>0, <1>1 DEF NextInv
<1>3. \A e \in containers : e.id = op.id => e = c
  BY <1>0, <1>2 DEF Unique
<1>4. CASE RemoveNext
  <2>1. /\ op.pc = "remove" /\ op' = Idle /\ op.name \in reported'
        /\ \/ containers' = Without(op.id)
           \/ containers' = containers /\ (c.role = "next" => op.name \in messy')
    BY <1>0, <1>2, <1>4, TheContainer DEF RemoveNext, Attempted, Fail
  <2>2. containers' \subseteq containers
    BY <2>1 DEF Without
  <2>3. containers' \subseteq Containers /\ Unique' /\ \A e \in containers' : Back(e)
    BY <1>0, <1>1, <2>2, NamesStay
  <2>4. ASSUME op.name \notin messy', NEW e \in containers', e.label = op.name
        PROVE  e.role = "own"
    <3>1. PICK d \in containers : d.id = op.old /\ d.label = op.name /\ d.role = "own"
      BY <1>0, <1>1, <2>1, <2>4 DEF OldInv
    <3>2. e.id # op.id
      BY <1>1, <1>2, <2>1, <2>4 DEF Without
    <3>3. e.id = d.id
      BY <1>0, <1>1, <2>2, <2>4, <3>1, <3>2 DEF PairInv
    <3> QED
      BY <1>0, <2>2, <3>1, <3>3 DEF Unique
  <2> QED
    BY <1>1, <2>1, <2>3, <2>4, UpdateProceeds
<1>5. CASE Retire
  <2>1. op.pc = "retire" /\ Moves("refresh")
    BY <1>0, <1>5, GotoMoves DEF Retire, Goto, UpdateSteps
  <2>2. /\ op'.kind = "update" /\ op'.pc = "refresh" /\ op'.name = op.name
        /\ op'.id = op.id /\ op'.key = op.key /\ op'.old = op.old
    BY <1>1, <2>1 DEF Moves
  <2>3. PICK d \in containers : d.id = op.old /\ d.label = op.name
    BY <1>0, <1>1, <2>1 DEF OldInv
  <2>4. c.id # d.id
    BY <1>0, <1>1, <1>2, <2>3 DEF OldInv
  <2>5. \/ containers' = Without(op.old)
        \/ op.name \in messy' /\ containers' = containers
        \/ op.name \in messy' /\ Restated(op.old, "exited")
    BY <1>0, <1>5, <2>3, StateChange DEF Retire, Attempted, States
  <2>6. containers' \subseteq containers \/ Restated(op.old, "exited")
    BY <2>5 DEF Without
  <2>7. containers' \subseteq Containers /\ Unique' /\ \A e \in containers' : Back(e)
    BY <1>0, <1>1, <2>6, NamesStay
  <2>8. NextInv'
    <3>1. \E e \in containers' : Kept(c, e) /\ e.role = "own"
      <4>1. CASE containers' = Without(op.old) \/ containers' = containers
        BY <1>2, <2>1, <2>3, <2>4, <4>1 DEF Without, Kept
      <4>2. CASE Restated(op.old, "exited")
        BY <1>0, <1>2, <2>1, <4>2, RestatedContainers
      <4> QED
        BY <2>5, <4>1, <4>2
    <3> QED
      BY <1>2, <2>2, <3>1 DEF NextInv, Kept
  <2>9. OldInv'
    BY <1>0, <1>1, <2>2 DEF OldInv
  <2>10. PairInv'
    <3>1. ASSUME op.name \notin messy', NEW e \in containers', e.label = op.name
          PROVE  e.id = op.id
      BY <1>0, <1>1, <2>5, <3>1 DEF PairInv, Without
    <3> QED
      BY <2>2, <3>1 DEF PairInv
  <2> QED
    BY <1>1, <2>1, <2>7, <2>8, <2>9, <2>10, UpdateProceeds DEF UpdateSteps
<1>6. CASE RefreshUpdated
  <2>1. /\ op.pc = "refresh" /\ UNCHANGED <<containers, messy>>
        /\ op' = [op EXCEPT !.pc = "record"] \/ (op' = Idle /\ op.name \in reported')
    BY <1>6 DEF RefreshUpdated, Refresh, Goto, Fail
  <2>2. containers' \subseteq Containers /\ Unique' /\ \A e \in containers' : Back(e)
    BY <1>0, <1>1, <2>1, NamesStay
  <2>3. CASE op' = [op EXCEPT !.pc = "record"]
    <3>1. Moves("record")
      BY <1>0, <1>1, <2>3, GotoMoves DEF UpdateSteps
    <3>2. /\ op'.kind = "update" /\ op'.pc = "record" /\ op'.name = op.name
          /\ op'.id = op.id /\ op'.key = op.key /\ op'.old = op.old
      BY <1>1, <3>1 DEF Moves
    <3>3. NextInv' /\ OldInv' /\ PairInv'
      BY <1>0, <1>1, <1>2, <2>1, <3>2 DEF NextInv, OldInv, PairInv
    <3> QED
      BY <1>1, <2>2, <3>1, <3>3, UpdateProceeds DEF UpdateSteps
  <2>4. CASE op' = Idle /\ op.name \in reported'
    <3>1. op.name \notin messy' =>
            \A e \in containers' : e.label = op.name => e.role = "own"
      BY <1>0, <1>1, <1>2, <1>3, <2>1 DEF PairInv
    <3> QED
      BY <1>1, <2>2, <2>4, <3>1, UpdateProceeds
  <2> QED
    BY <2>1, <2>3, <2>4
<1> QED
  BY <1>4, <1>5, <1>6

LEMMA RecordSafe == ASSUME LifecycleInv, RecordUpdated PROVE LifecycleInv'
<1>0. Types /\ Unique /\ Tidy /\ Recorded /\ NextInv /\ PairInv
  BY DEF LifecycleInv, OpInv
<1>1. /\ op.kind = "update" /\ op.pc = "record" /\ UNCHANGED <<containers, ops, messy>>
      /\ zenKeys' = [zenKeys EXCEPT ![op.name] = op.key]
      /\ op' = Idle /\ reported' = reported \ {op.name}
  BY DEF RecordUpdated, Succeed
<1>2. op.name \in Names /\ op.key \in Keys
  BY <1>0, <1>1, OpOfKind DEF UpdateOps, Keys
<1>3. /\ zenKeys' \in [Names -> Keys] /\ zenKeys'[op.name] = op.key
      /\ \A n \in Names \ {op.name} : zenKeys'[n] = zenKeys[n]
  BY <1>0, <1>1, <1>2 DEF Types
<1>4. PICK c \in containers :
        c.id = op.id /\ c.label = op.name /\ c.key = op.key /\ c.role = "own"
  BY <1>0, <1>1 DEF NextInv
<1>5. Types' /\ Unique'
  BY <1>0, <1>1, <1>3 DEF Types, Unique
<1>6. Tidy'
  <2>1. ASSUME NEW d \in containers, d.label = op.name, op.name \notin messy
        PROVE  d.role = "own"
    <3>1. d = c
      BY <1>0, <1>1, <1>4, <2>1 DEF PairInv, Unique
    <3> QED
      BY <1>4, <3>1
  <2> QED
    BY <1>0, <1>1, <2>1 DEF Tidy, AtRest
<1>7. Recorded'
  <2>1. ASSUME NEW d \in containers, d.label \notin reported', d.role = "own"
        PROVE  d.key = zenKeys'[d.label]
    <3>1. CASE d.label = op.name
      BY <1>0, <1>3, <1>4, <2>1, <3>1 DEF Unique
    <3>2. CASE d.label # op.name
      <4>1. d.label \in Names
        BY <1>0 DEF Types, Containers
      <4> QED
        BY <1>0, <1>1, <1>3, <2>1, <3>2, <4>1 DEF Recorded, AtRest
    <3> QED
      BY <3>1, <3>2
  <2> QED
    BY <1>1, <2>1 DEF Recorded
<1>8. OpInv'
  BY <1>1, IdleOp DEF OpInv, CreateInv, NextInv, OldInv, PairInv, StartInv, DeleteInv
<1> QED
  BY <1>5, <1>6, <1>7, <1>8 DEF LifecycleInv

-----------------------------------------------------------------------------
(* instanceDelete, instanceAction *)

LEMMA OthersBegin ==
  ASSUME LifecycleInv, NEW n \in Names, Delete(n) \/ Stop(n) \/ Start(n)
  PROVE  LifecycleInv'
<1>0. Types /\ Unique /\ ops \in Nat
  BY DEF LifecycleInv, Types
<1>1. PICK c \in Owners(n) :
        /\ op = Idle /\ UNCHANGED <<zenKeys, reported>> /\ messy \subseteq messy'
        /\ ops' = ops + 1
        /\ \/ op' = Idle
           \/ op' = [kind |-> "delete", pc |-> "record", name |-> n]
              /\ containers' = Without(c.id)
           \/ op' = [kind |-> "stop", pc |-> "refresh", name |-> n]
           \/ op' = [kind |-> "start", pc |-> "keys", name |-> n, id |-> c.id]
        /\ \/ containers' = containers
           \/ containers' = Without(c.id) /\ op'.kind \in {"none", "delete"}
           \/ containers' = With(c.id, "state", "exited")
           \/ containers' = With(c.id, "state", "starting")
  BY DEF Delete, Stop, Start, Call, Started, Idle
<1>2. c \in containers /\ c.label = n /\ c.role = "own" /\ c.id \in Nat
  BY <1>0 DEF Owners, Types, Containers
<1>3. /\ containers' = With(c.id, "state", "exited") => Restated(c.id, "exited")
      /\ containers' = With(c.id, "state", "starting") => Restated(c.id, "starting")
  BY <1>0, <1>2, StateChange DEF States
<1>4. ops' \in Nat /\ ops' >= ops
  BY <1>0, <1>1
<1>5. containers' \subseteq Containers /\ Unique' /\ \A e \in containers' : Back(e)
  <2>1. containers' \subseteq containers \/ \E id, s : Restated(id, s)
    BY <1>1, <1>3 DEF Without
  <2> QED
    BY <1>0, <1>4, <2>1, NamesStay
<1>6. op' \in Ops /\ op'.kind \notin {"create", "update"}
  BY <1>1, <1>2, IdleOp DEF Ops, DeleteOps, StopOps, StartOps
<1>7. op'.kind = "start" => \E e \in containers' : e.id = op'.id /\ e.label = op'.name
  <2>1. ASSUME op'.kind = "start" PROVE op'.id = c.id /\ op'.name = n
    BY <1>1, <2>1, IdleOp
  <2>2. ASSUME op'.kind = "start" PROVE \E e \in containers' : Kept(c, e)
    <3>1. CASE containers' = containers
      BY <1>2, <3>1 DEF Kept
    <3>2. CASE Restated(c.id, "exited") \/ Restated(c.id, "starting")
      BY <1>0, <1>2, <3>2, RestatedContainers
    <3> QED
      BY <1>1, <1>3, <2>2, <3>1, <3>2
  <2> QED
    BY <1>2, <2>1, <2>2 DEF Kept
<1>8. op'.kind = "delete" => \A e \in containers' : e.label = op'.name => e.role # "own"
  <2>1. ASSUME op'.kind = "delete" PROVE op'.name = n /\ containers' = Without(c.id)
    BY <1>1, <2>1, IdleOp
  <2>2. \A e \in Without(c.id) : e.label = n => e.role # "own"
    BY <1>0, <1>2 DEF Without, Unique
  <2> QED
    BY <2>1, <2>2
<1>9. zenKeys' \in [Names -> Keys]
  BY <1>0, <1>1 DEF Types
<1> QED
  BY <1>1, <1>4, <1>5, <1>6, <1>7, <1>8, <1>9, IdleOp, RestProceeds

LEMMA OthersProceed ==
  ASSUME LifecycleInv, RecordDeleted \/ PushKeys \/ RefreshChanged
  PROVE  LifecycleInv'
<1>0. Types /\ Unique /\ StartInv /\ DeleteInv /\ ops \in Nat /\ ops >= ops
  BY DEF LifecycleInv, OpInv, Types
<1>1. CASE RecordDeleted
  <2>1. /\ op.kind = "delete" /\ op.pc = "record" /\ UNCHANGED <<containers, ops, messy>>
        /\ zenKeys' = [zenKeys EXCEPT ![op.name] = NoKey]
        /\ op' = [op EXCEPT !.pc = "refresh"] /\ reported' = reported \ {op.name}
    BY <1>1 DEF RecordDeleted
  <2>2. Moves("refresh") /\ op.name \in Names
    BY <1>0, <2>1, GotoMoves, OpOfKind DEF DeleteOps
  <2>3. op' \in Ops /\ op'.kind = "delete" /\ op'.name = op.name
    BY <2>1, <2>2 DEF Moves, Ops
  <2>4. /\ zenKeys' \in [Names -> Keys]
        /\ \A n \in Names \ {op.name} : zenKeys'[n] = zenKeys[n]
    BY <1>0, <2>1, <2>2 DEF Types, Keys
  <2>5. containers' \subseteq Containers /\ Unique' /\ \A e \in containers' : Back(e)
    BY <1>0, <2>1, NamesStay
  <2>6. \A e \in containers' : e.label \in Names /\ (e.label = op.name => e.role # "own")
    BY <1>0, <2>1, <2>5 DEF DeleteInv, Containers
  <2> QED
    BY <1>0, <2>1, <2>3, <2>4, <2>5, <2>6, RestProceeds
<1>2. CASE PushKeys
  <2>1. /\ op.kind = "start" /\ op.pc = "keys" /\ UNCHANGED <<zenKeys, ops, reported, messy>>
        /\ \/ containers' = With(op.id, "state", "running") /\ op' = [op EXCEPT !.pc = "refresh"]
           \/ containers' = containers /\ op' = Idle
    BY <1>2 DEF PushKeys, Goto, End
  <2>2. PICK c \in containers : c.id = op.id /\ c.label = op.name
    BY <1>0, <2>1 DEF StartInv
  <2>3. containers' = containers \/ Restated(op.id, "running")
    BY <1>0, <2>1, <2>2, StateChange DEF States
  <2>4. Moves("refresh") \/ op' = Idle
    BY <1>0, <2>1, GotoMoves
  <2>5. /\ op' \in Ops /\ op'.kind \in {"start", "none"}
        /\ op'.kind = "start" => op'.id = op.id /\ op'.name = op.name
    BY <2>1, <2>4, IdleOp DEF Moves, Ops
  <2>6. containers' \subseteq Containers /\ Unique' /\ \A e \in containers' : Back(e)
    BY <1>0, <2>1, <2>3, NamesStay
  <2>7. \E e \in containers' : Kept(c, e)
    BY <1>0, <2>2, <2>3, RestatedContainers DEF Kept
  <2>8. zenKeys' \in [Names -> Keys]
    BY <1>0, <2>1 DEF Types
  <2> QED
    BY <1>0, <2>1, <2>2, <2>5, <2>6, <2>7, <2>8, RestProceeds DEF Kept
<1>3. CASE RefreshChanged
  <2>1. /\ op.kind \in {"delete", "stop", "start"} /\ op' = Idle
        /\ UNCHANGED <<containers, zenKeys, ops, messy, reported>>
    BY <1>3 DEF RefreshChanged, Refresh, End
  <2>2. containers' \subseteq Containers /\ Unique' /\ \A e \in containers' : Back(e)
    BY <1>0, <2>1, NamesStay
  <2>3. op' \in Ops /\ op'.kind = "none" /\ zenKeys' \in [Names -> Keys]
    BY <1>0, <2>1, IdleOp DEF Ops, Types
  <2> QED
    BY <1>0, <2>1, <2>2, <2>3, RestProceeds
<1> QED
  BY <1>1, <1>2, <1>3

\* The control plane stops in the middle of an operation.
LEMMA CrashSafe == ASSUME LifecycleInv, Crash PROVE LifecycleInv'
<1>0. Types /\ Unique /\ ops \in Nat /\ ops >= ops
  BY DEF LifecycleInv, Types
<1>1. /\ op # Idle /\ op' = Idle /\ UNCHANGED <<containers, zenKeys, ops>>
      /\ op.name \in reported' /\ reported \subseteq reported'
      /\ op.name \in messy' /\ messy \subseteq messy'
  BY DEF Crash, Fail
<1>2. containers' \subseteq Containers /\ Unique' /\ \A e \in containers' : Back(e)
  BY <1>0, <1>1, NamesStay
<1>3. CASE op.kind = "create"
  BY <1>1, <1>2, <1>3, CreateProceeds
<1>4. CASE op.kind = "update"
  BY <1>1, <1>2, <1>4, UpdateProceeds
<1>5. CASE op.kind \notin {"create", "update"}
  <2>1. op' \in Ops /\ op'.kind = "none" /\ zenKeys' \in [Names -> Keys]
    BY <1>0, <1>1, IdleOp DEF Ops, Types
  <2> QED
    BY <1>0, <1>1, <1>2, <1>5, <2>1, RestProceeds
<1> QED
  BY <1>3, <1>4, <1>5

-----------------------------------------------------------------------------
(* Theorems *)

LEMMA NextKeepsInv == ASSUME LifecycleInv, [Next]_vars PROVE LifecycleInv'
<1>1. CASE UNCHANGED <<containers, zenKeys, op, ops, reported, messy>>
  BY <1>1 DEF LifecycleInv, Types, Unique, OpInv, CreateInv, NextInv, OldInv, PairInv,
              StartInv, DeleteInv, Tidy, Recorded, AtRest
<1>2. CASE Begin
  BY <1>2, CreateBegins, UpdateBegins, OthersBegin DEF Begin
<1>3. CASE Proceed
  BY <1>3, CreateSafe, VerifySafe, NextStarts, NamesChange, NextEnds, RecordSafe,
     OthersProceed DEF Proceed
<1>4. CASE Crash
  BY <1>4, CrashSafe
<1>5. Reconcile \/ PollRead \/ PollStore \/ UNCHANGED vars
        => UNCHANGED <<containers, zenKeys, op, ops, reported, messy>>
  BY DEF Reconcile, PollRead, PollStore, vars
<1> QED
  BY <1>1, <1>2, <1>3, <1>4, <1>5 DEF Next

\* At every step of every operation the invariant holds: Docker's containers
\* are what the step of docker.go that comes next takes them to be.
THEOREM LifecycleInvariant == Spec => []LifecycleInv
<1>1. Init => LifecycleInv
  BY IdleOp DEF Init, LifecycleInv, Types, Unique, OpInv, CreateInv, NextInv, OldInv,
     PairInv, StartInv, DeleteInv, Tidy, Recorded, Keys
<1> QED
  BY <1>1, NextKeepsInv, PTL DEF Spec

\* Whichever of its calls fails, a creation or an update leaves one container of
\* its instance, under the instance's name, unless a fault that nobody can
\* clean up after occurred.
THEOREM NoStrays == Spec => []NoStrayContainers
<1>1. ASSUME LifecycleInv PROVE NoStrayContainers
  <2>1. SUFFICES ASSUME op = Idle, NEW n \in Names \ messy
                 PROVE  /\ \A c \in containers : c.label = n => c.role = "own"
                        /\ Cardinality(Owners(n)) <= 1
    BY DEF NoStrayContainers
  <2>2. \A c \in containers : c.label = n => c.role = "own"
    BY <1>1, <2>1, IdleOp DEF LifecycleInv, Tidy, AtRest
  <2>3. Owners(n) = {} \/ \E c : Owners(n) = {c}
    BY <1>1 DEF LifecycleInv, Unique, Owners
  <2>4. Cardinality(Owners(n)) \in {0, 1}
    <3>1. CASE Owners(n) = {}
      BY <3>1, FS_EmptySet
    <3>2. CASE \E c : Owners(n) = {c}
      BY <3>2, FS_Singleton
    <3> QED
      BY <2>3, <3>1, <3>2
  <2> QED
    BY <2>2, <2>4
<1> QED
  BY <1>1, LifecycleInvariant, PTL

\* The upstream key kept for an instance is the one its container was made with,
\* unless the administrator was told that the last operation failed.
THEOREM SavedKeyStaysTrue == Spec => []SavedKeyIsUsed
<1>1. ASSUME LifecycleInv PROVE SavedKeyIsUsed
  BY <1>1, IdleOp DEF LifecycleInv, Recorded, AtRest, SavedKeyIsUsed, Owners
<1> QED
  BY <1>1, LifecycleInvariant, PTL

-----------------------------------------------------------------------------
(* An instance is served while it is updated *)

\* What the calls to Docker may do without taking a container out of service.
LEMMA ServesOn ==
  ASSUME Types, Unique, NEW n, NEW roles, NEW w \in containers,
         w.label = n, w.role \in roles, w.state = "running",
         \/ containers \subseteq containers'
         \/ \E id : containers' = Without(id) /\ w.id # id
         \/ \E id, s : Restated(id, s) /\ (s = "running" \/ w.id # id)
         \/ \E id, r : Reassigned(id, r) /\ (r \in roles \/ w.id # id)
  PROVE  Healthy(n, roles)'
<1>1. CASE containers \subseteq containers'
  BY <1>1 DEF Healthy
<1>2. ASSUME NEW id, containers' = Without(id), w.id # id PROVE Healthy(n, roles)'
  BY <1>2 DEF Healthy, Without
<1>3. ASSUME NEW id, NEW s, Restated(id, s), s = "running" \/ w.id # id
      PROVE  Healthy(n, roles)'
  <2>0. \A c \in containers : \E e \in containers' :
          Kept(c, e) /\ e.role = c.role /\ e.state = IF c.id = id THEN s ELSE c.state
    BY <1>3, RestatedContainers
  <2>1. PICK e \in containers' : Kept(w, e) /\ e.role = w.role /\ e.state = "running"
    BY <1>3, <2>0
  <2> QED
    BY <2>1 DEF Healthy, Kept
<1>4. ASSUME NEW id, NEW r, Reassigned(id, r), r \in roles \/ w.id # id PROVE Healthy(n, roles)'
  <2>0. \A c \in containers : \E e \in containers' :
          Kept(c, e) /\ e.state = c.state /\ e.role = IF c.id = id THEN r ELSE c.role
    BY <1>4, ReassignedContainers
  <2>1. PICK e \in containers' :
          Kept(w, e) /\ e.state = w.state /\ e.role = IF w.id = id THEN r ELSE w.role
    BY <2>0
  <2>2. e.role \in roles
    BY <1>4, <2>1
  <2> QED
    BY <2>1, <2>2 DEF Healthy, Kept
<1> QED
  BY <1>1, <1>2, <1>3, <1>4

\* The operation an administrator begins on another instance.
LEMMA OthersServeOn ==
  ASSUME LifecycleInv, NEW n, NEW m \in Names, NEW roles, Healthy(n, roles),
         \/ Create(m) \/ Update(m)
         \/ m # n /\ (Delete(m) \/ Stop(m) \/ Start(m))
  PROVE  Healthy(n, roles)'
<1>0. Types /\ Unique
  BY DEF LifecycleInv
<1>1. PICK w \in containers : w.label = n /\ w.role \in roles /\ w.state = "running"
  BY DEF Healthy
<1>2. CASE Create(m) \/ Update(m)
  <2>1. containers \subseteq containers'
    BY <1>2 DEF Create, Update, Call
  <2> QED
    BY <1>0, <1>1, <2>1, ServesOn
<1>3. CASE m # n /\ (Delete(m) \/ Stop(m) \/ Start(m))
  <2>1. PICK c \in Owners(m) :
          \/ containers' = containers
          \/ containers' = Without(c.id)
          \/ containers' = With(c.id, "state", "exited")
          \/ containers' = With(c.id, "state", "starting")
    BY <1>3 DEF Delete, Stop, Start, Call
  <2>2. c \in containers /\ c.id # w.id
    BY <1>0, <1>1, <1>3, <2>1 DEF Owners, Unique
  <2>3. \/ containers' = containers
        \/ containers' = Without(c.id)
        \/ \E s : Restated(c.id, s)
    BY <1>0, <2>1, <2>2, StateChange DEF States
  <2> QED
    BY <1>0, <1>1, <2>2, <2>3, ServesOn
<1> QED
  BY <1>2, <1>3

\* The steps of an operation.
LEMMA ProceedServesOn ==
  ASSUME LifecycleInv, NEW n, NEW roles, Healthy(n, roles), Proceed,
         op.kind = "create" => op.name # n,
         "own" \in roles, "next" \notin roles,
         SetAside /\ op.name = n => "previous" \in roles
  PROVE  Healthy(n, roles)'
<1>0. Types /\ Unique /\ CreateInv /\ NextInv /\ OldInv /\ StartInv
  BY DEF LifecycleInv, OpInv
<1>1. PICK w \in containers : w.label = n /\ w.role \in roles /\ w.state = "running"
  BY DEF Healthy
<1>2. CASE StartCreated \/ ProbeCreated \/ RemoveCreated
  <2>1. op.kind = "create" /\ op.pc # "forget"
    BY <1>2 DEF StartCreated, ProbeCreated, RemoveCreated
  <2>2. PICK c \in containers : c.id = op.id /\ c.label = op.name
    BY <2>1, CreatedIsThere
  <2>3. c.id # w.id
    BY <1>0, <1>1, <2>1, <2>2 DEF Unique
  <2>4. \/ containers' = containers
        \/ containers' = Without(op.id)
        \/ containers' = With(op.id, "state", "starting")
        \/ containers' = With(op.id, "state", "running")
    BY <1>2 DEF StartCreated, ProbeCreated, RemoveCreated, Call, Attempted
  <2>5. \/ containers' = containers
        \/ containers' = Without(op.id)
        \/ \E s : Restated(op.id, s)
    BY <1>0, <2>2, <2>4, StateChange DEF States
  <2> QED
    BY <1>0, <1>1, <2>2, <2>3, <2>5, ServesOn
<1>3. CASE StartNext \/ ProbeNext \/ RemoveNext
  <2>1. op.kind = "update"
    BY <1>3 DEF StartNext, ProbeNext, RemoveNext
  <2>2. PICK c \in containers :
          c.id = op.id /\ (op.pc \in {"start", "probe"} => c.role = "next")
    BY <1>0, <2>1 DEF NextInv
  <2>3. CASE c.role = "next"
    <3>1. c.id # w.id
      BY <1>0, <1>1, <2>2, <2>3 DEF Unique
    <3>2. \/ containers' = containers
          \/ containers' = Without(op.id)
          \/ containers' = With(op.id, "state", "starting")
          \/ containers' = With(op.id, "state", "running")
      BY <1>3 DEF StartNext, ProbeNext, RemoveNext, Call, Attempted
    <3>3. \/ containers' = containers
          \/ containers' = Without(op.id)
          \/ \E s : Restated(op.id, s)
      BY <1>0, <2>2, <3>2, StateChange DEF States
    <3> QED
      BY <1>0, <1>1, <2>2, <3>1, <3>3, ServesOn
  <2>4. CASE c.role # "next"
    <3>1. containers' = containers
      BY <1>0, <1>3, <2>2, <2>4, TheContainer DEF StartNext, ProbeNext, RemoveNext
    <3> QED
      BY <1>0, <1>1, <3>1, ServesOn
  <2> QED
    BY <2>3, <2>4
<1>4. CASE SetAside \/ Promote \/ RollBack
  <2>1. op.kind = "update" /\ op.pc \in {"set_aside", "promote", "roll_back"}
    BY <1>4 DEF SetAside, Promote, RollBack
  <2>2. \E c \in containers : c.id = op.id
    BY <1>0, <2>1 DEF NextInv
  <2>3. PICK d \in containers : d.id = op.old /\ d.label = op.name
    BY <1>0, <2>1 DEF OldInv
  <2>6. d.id = w.id => op.name = n
    BY <1>0, <1>1, <2>3 DEF Unique
  <2>4. \/ containers' = containers
        \/ SetAside /\ containers' = With(op.old, "role", "previous")
        \/ containers' = With(op.id, "role", "own")
        \/ containers' = With(op.old, "role", "own")
    BY <1>4 DEF SetAside, Promote, RollBack, Call, Attempted
  <2>5. \/ containers' = containers
        \/ SetAside /\ Reassigned(op.old, "previous")
        \/ \E id : Reassigned(id, "own")
    BY <1>0, <2>2, <2>3, <2>4, RoleChange DEF Roles
  <2>7. \/ containers' = containers
        \/ \E id, r : Reassigned(id, r) /\ (r \in roles \/ w.id # id)
    BY <2>3, <2>5, <2>6
  <2> QED
    BY <1>0, <1>1, <2>7, ServesOn
<1>5. CASE Retire
  <2>1. /\ op.kind = "update" /\ op.pc = "retire"
        /\ \/ containers' = containers
           \/ containers' = Without(op.old)
           \/ containers' = With(op.old, "state", "exited")
    BY <1>5 DEF Retire, Attempted
  <2>2. PICK d \in containers :
          d.id = op.old /\ d.label = op.name /\ (d.state = "running" => op.wasRunning)
    BY <1>0, <2>1 DEF OldInv
  <2>3. PICK c \in containers :
          /\ c.id = op.id /\ c.label = op.name /\ c.role = "own"
          /\ op.wasRunning => c.state = "running"
    BY <1>0, <2>1 DEF NextInv
  <2>4. PICK v \in containers :
          v.label = n /\ v.role \in roles /\ v.state = "running" /\ v.id # op.old
    <3>1. CASE w.id = op.old
      <4>1. w = d /\ c.id # op.old
        BY <1>0, <2>1, <2>2, <2>3, <3>1 DEF Unique, OldInv
      <4> QED
        BY <1>1, <2>2, <2>3, <4>1
    <3> QED
      BY <1>1, <3>1
  <2>5. \/ containers' = containers
        \/ containers' = Without(op.old)
        \/ Restated(op.old, "exited")
    BY <1>0, <2>1, <2>2, StateChange DEF States
  <2> QED
    BY <1>0, <2>4, <2>5, ServesOn
<1>6. CASE PushKeys
  <2>1. PICK c \in containers : c.id = op.id
    BY <1>0, <1>6 DEF PushKeys, StartInv
  <2>2. containers' = containers \/ Restated(op.id, "running")
    BY <1>0, <1>6, <2>1, StateChange DEF PushKeys, States
  <2> QED
    BY <1>0, <1>1, <2>2, ServesOn
<1>7. CASE containers' = containers
  BY <1>0, <1>1, <1>7, ServesOn
<1>8. RefreshCreated \/ VerifyCreated \/ ForgetCreated \/ RefreshUpdated
      \/ RecordUpdated \/ RecordDeleted \/ RefreshChanged => containers' = containers
  BY DEF RefreshCreated, VerifyCreated, ForgetCreated, RefreshUpdated, RecordUpdated,
         RecordDeleted, RefreshChanged
<1> QED
  BY <1>2, <1>3, <1>4, <1>5, <1>6, <1>7, <1>8 DEF Proceed

\* An update never leaves the instance it replaces without a healthy container,
\* whichever of its steps fails or is interrupted, and takes it out of reach only
\* between its two renames: the old container is retired when the new one has
\* passed its health probe and has its name.
THEOREM UpdateServesOn == Spec => UpdateKeepsServing
<1> DEFINE Meant(n) == \/ Stop(n) \/ Start(n) \/ Delete(n)
                       \/ op.kind = "create" /\ op.name = n
           Step == \A n \in Names :
             /\ Alive(n) /\ ~Alive(n)' => Meant(n)
             /\ Reached(n) /\ ~Reached(n)' => Meant(n) \/ (SetAside /\ op.name = n)
<1>1. ASSUME LifecycleInv, [Next]_vars, NEW n \in Names, ~Meant(n), NEW roles,
             Healthy(n, roles), "own" \in roles, "next" \notin roles,
             SetAside /\ op.name = n => "previous" \in roles
      PROVE  Healthy(n, roles)'
  <2>2. CASE Begin
    <3>1. PICK m \in Names : Create(m) \/ Update(m) \/ Delete(m) \/ Stop(m) \/ Start(m)
      BY <2>2 DEF Begin
    <3>2. Create(m) \/ Update(m) \/ (m # n /\ (Delete(m) \/ Stop(m) \/ Start(m)))
      BY <1>1, <3>1
    <3> QED
      BY <1>1, <3>2, OthersServeOn
  <2>3. CASE Proceed
    BY <1>1, <2>3, ProceedServesOn
  <2>4. CASE containers' = containers
    BY <1>1, <2>4 DEF Healthy
  <2>5. Reconcile \/ PollRead \/ PollStore \/ Crash \/ UNCHANGED vars
          => containers' = containers
    BY DEF Reconcile, PollRead, PollStore, Crash, vars
  <2> QED
    BY <1>1, <2>2, <2>3, <2>4, <2>5 DEF Next
<1>2. ASSUME LifecycleInv, [Next]_vars PROVE Step
  <2>1. SUFFICES ASSUME NEW n \in Names, ~Meant(n)
                 PROVE  /\ Alive(n) => Alive(n)'
                        /\ Reached(n) => Reached(n)' \/ (SetAside /\ op.name = n)
    OBVIOUS
  <2> HIDE DEF Meant
  <2>2. Healthy(n, {"own", "previous"}) => Healthy(n, {"own", "previous"})'
    BY <1>1, <1>2, <2>1
  <2>3. ASSUME ~(SetAside /\ op.name = n), Healthy(n, {"own"}) PROVE Healthy(n, {"own"})'
    BY <1>1, <1>2, <2>1, <2>3
  <2> QED
    BY <2>2, <2>3 DEF Alive, Reached
<1>3. LifecycleInv /\ [Next]_vars => [Step]_vars
  BY <1>2
<1> QED
  BY <1>3, LifecycleInvariant, PTL DEF Spec, UpdateKeepsServing
=============================================================================
