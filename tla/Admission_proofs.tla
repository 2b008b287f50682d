-------------------------- MODULE Admission_proofs --------------------------
(***************************************************************************)
(* The permits of Gateway.serve, for any number of requests and any bounds *)
(* (module Admission).  The inductive invariant counts the holders of each *)
(* channel; that the line is never longer than QUEUE_SIZE follows from it: *)
(* a request blocks only while MAX_CONCURRENCY others hold sem, and those  *)
(* hold a queue permit as well.                                            *)
(***************************************************************************)
EXTENDS Admission, FiniteSetTheorems, TLAPS

\* Permits are balanced and none lies idle.
IInv == TypeOK /\ PermitsBalanced /\ WorkConserving

\* Any set of requests is finite, so its size is a number.
LEMMA AtFinite ==
    ASSUME NEW S \in SUBSET Requests
    PROVE  IsFiniteSet(S) /\ Cardinality(S) \in Nat
BY AdmissionAssumption, FS_Subset, FS_CardinalityType

\* One request entering or leaving a set of requests counts for one.
LEMMA CountIn ==
    ASSUME NEW S \in SUBSET Requests, NEW T \in SUBSET Requests,
           NEW r \in Requests, r \notin S, T = S \cup {r}
    PROVE  Cardinality(T) = Cardinality(S) + 1
BY AtFinite, FS_AddElement

-----------------------------------------------------------------------------
\* Initially nobody is inside.
LEMMA InitIInv == Init => IInv
<1> SUFFICES ASSUME Init PROVE IInv
    OBVIOUS
<1>1. Requests \ At({"out"}) = {} /\ At({"forwarding"}) = {} /\ Waiters = {}
    BY DEF Init, At, Waiters
<1>2. TypeOK
    BY AdmissionAssumption DEF Init, TypeOK, Locations
<1>3. PermitsBalanced
    BY <1>1, FS_EmptySet DEF PermitsBalanced, Init
<1>4. WorkConserving
    BY <1>1 DEF WorkConserving
<1> QED
    BY <1>2, <1>3, <1>4 DEF IInv

\* Every step keeps the types.  Only a queue permit that somebody holds is
\* given back, and likewise for sem, which is where PermitsBalanced is needed.
LEMMA StepTypeOK ==
    ASSUME IInv, [Next]_vars
    PROVE  TypeOK'
<1> USE AdmissionAssumption DEF TypeOK, Locations
<1>0. TypeOK /\ PermitsBalanced
    BY DEF IInv
<1>h. ASSUME NEW r \in Requests, pc[r] # "out" PROVE queue > 0
    <2> DEFINE S == Requests \ At({"out"})
    <2>1. r \in S
        BY <1>h DEF At
    <2>2. IsFiniteSet(S) /\ Cardinality(S) \in Nat
        BY AtFinite
    <2>3. Cardinality(S) # 0
        BY <2>1, <2>2, FS_EmptySet
    <2> QED
        BY <1>0, <2>2, <2>3 DEF PermitsBalanced
<1>s. ASSUME NEW r \in Requests, pc[r] = "forwarding" PROVE sem > 0
    <2> DEFINE S == At({"forwarding"})
    <2>1. r \in S
        BY <1>s DEF At
    <2>2. IsFiniteSet(S) /\ Cardinality(S) \in Nat
        BY AtFinite DEF At
    <2>3. Cardinality(S) # 0
        BY <2>1, <2>2, FS_EmptySet
    <2> QED
        BY <1>0, <2>2, <2>3 DEF PermitsBalanced
<1>1. ASSUME NEW r \in Requests, Admit(r) PROVE TypeOK'
    BY <1>0, <1>1 DEF Admit, Move
<1>2. ASSUME NEW r \in Requests, ContextEnds(r) PROVE TypeOK'
    BY <1>0, <1>2 DEF ContextEnds, Move, Leave
<1>3. ASSUME NEW r \in Requests, Acquire(r) PROVE TypeOK'
    BY <1>0, <1>3 DEF Acquire, Move
<1>4. ASSUME NEW r \in Requests, TimeOut(r) PROVE TypeOK'
    BY <1>0, <1>4 DEF TimeOut, Move
<1>5. ASSUME NEW r \in Requests, Block(r) PROVE TypeOK'
    BY <1>0, <1>5 DEF Block, Move, Waiters, At
<1>6. ASSUME NEW r \in Requests, Finish(r) PROVE TypeOK'
    <2>1. CASE Waiters = {}
        BY <1>0, <1>6, <1>s, <2>1 DEF Finish, Move
    <2>2. CASE Waiters # {}
        BY <1>0, <1>6, <2>2 DEF Finish, Leave
    <2> QED
        BY <2>1, <2>2
<1>7. ASSUME NEW r \in Requests, Exit(r) PROVE TypeOK'
    BY <1>0, <1>7, <1>h DEF Exit, Move
<1>8. CASE UNCHANGED vars
    BY <1>0, <1>8 DEF vars
<1> QED
    BY <1>1, <1>2, <1>3, <1>4, <1>5, <1>6, <1>7, <1>8 DEF Next

\* Every step moves a permit together with the request that holds it.
LEMMA StepPermits ==
    ASSUME IInv, [Next]_vars
    PROVE  PermitsBalanced' /\ WorkConserving'
<1> DEFINE In == Requests \ At({"out"})
           Busy == At({"forwarding"})
<1>0. /\ TypeOK
      /\ queue = Cardinality(In) /\ sem = Cardinality(Busy)
      /\ Waiters # {} => sem = MaxConcurrency
    BY DEF IInv, PermitsBalanced, WorkConserving
<1>n. /\ In \in SUBSET Requests /\ Busy \in SUBSET Requests
      /\ In' \in SUBSET Requests /\ Busy' \in SUBSET Requests
      /\ Waiters \in SUBSET Requests /\ Waiters' \in SUBSET Requests
      /\ Cardinality(In) \in Nat /\ Cardinality(Busy) \in Nat
      /\ Cardinality(In') \in Nat /\ Cardinality(Busy') \in Nat
    <2>1. /\ In \in SUBSET Requests /\ Busy \in SUBSET Requests
          /\ In' \in SUBSET Requests /\ Busy' \in SUBSET Requests
          /\ Waiters \in SUBSET Requests /\ Waiters' \in SUBSET Requests
        BY DEF At, Waiters
    <2> QED
        BY <2>1, AtFinite
<1> DEFINE Goal == /\ queue' = Cardinality(In') /\ sem' = Cardinality(Busy')
                   /\ Waiters' # {} => sem' = MaxConcurrency
<1>1. ASSUME NEW r \in Requests, Admit(r) PROVE Goal
    <2>1. r \notin In /\ In' = In \cup {r} /\ Busy' = Busy /\ Waiters' = Waiters
        BY <1>0, <1>1 DEF Admit, Move, At, Waiters, TypeOK
    <2>2. Cardinality(In') = Cardinality(In) + 1
        BY <1>n, <2>1, CountIn
    <2> QED
        BY <1>0, <1>1, <2>1, <2>2 DEF Admit
<1>2. ASSUME NEW r \in Requests, ContextEnds(r) PROVE Goal
    <2>1. In' = In /\ Busy' = Busy /\ Waiters' \subseteq Waiters
        BY <1>0, <1>2 DEF ContextEnds, Move, At, Waiters, TypeOK
    <2> QED
        BY <1>0, <1>2, <2>1 DEF ContextEnds
<1>3. ASSUME NEW r \in Requests, Acquire(r) PROVE Goal
    <2>1. In' = In /\ r \notin Busy /\ Busy' = Busy \cup {r} /\ Waiters' = Waiters
        BY <1>0, <1>3 DEF Acquire, Move, At, Waiters, TypeOK
    <2>2. Cardinality(Busy') = Cardinality(Busy) + 1
        BY <1>n, <2>1, CountIn
    <2>3. Waiters = {}
        BY <1>0, <1>3, AdmissionAssumption DEF Acquire, TypeOK
    <2> QED
        BY <1>0, <1>3, <2>1, <2>2, <2>3 DEF Acquire
<1>4. ASSUME NEW r \in Requests, TimeOut(r) PROVE Goal
    <2>1. In' = In /\ Busy' = Busy /\ Waiters' = Waiters
        BY <1>0, <1>4 DEF TimeOut, Move, At, Waiters, TypeOK
    <2> QED
        BY <1>0, <1>4, <2>1 DEF TimeOut
<1>5. ASSUME NEW r \in Requests, Block(r) PROVE Goal
    <2>1. In' = In /\ Busy' = Busy
        BY <1>0, <1>5 DEF Block, Move, At, TypeOK
    <2> QED
        BY <1>0, <1>5, <2>1 DEF Block
<1>6. ASSUME NEW r \in Requests, Finish(r) PROVE Goal
    <2>1. CASE Waiters = {}
        <3>1. In' = In /\ r \in Busy /\ Busy' = Busy \ {r} /\ Waiters' = {}
            BY <1>0, <1>6, <2>1 DEF Finish, Move, At, Waiters, TypeOK
        <3>2. Cardinality(Busy) = Cardinality(Busy') + 1
            BY <1>n, <3>1, CountIn
        <3>3. sem' = sem - 1 /\ queue' = queue
            BY <1>6, <2>1 DEF Finish
        <3>4. sem' = Cardinality(Busy')
            <4> HIDE DEF Busy, In
            <4> QED
                BY <1>0, <1>n, <3>2, <3>3
        <3> QED
            BY <1>0, <3>1, <3>3, <3>4
    <2>2. CASE Waiters # {}
        <3>1. PICK w \in Requests : First(w) /\ pc' = [pc EXCEPT ![r] = "leaving",
                                                              ![w] = "forwarding"]
            BY <1>6, <2>2 DEF Finish
        <3>2. /\ r \in Busy /\ w \notin Busy /\ In' = In
              /\ Busy' = (Busy \ {r}) \cup {w}
            BY <1>0, <1>6, <3>1 DEF Finish, First, At, Waiters, TypeOK
        <3>3. Cardinality(Busy) = Cardinality(Busy \ {r}) + 1
            BY <1>n, <3>2, CountIn
        <3>4. Cardinality(Busy') = Cardinality(Busy \ {r}) + 1
            BY <1>n, <3>2, CountIn
        <3> QED
            BY <1>0, <1>6, <2>2, <3>2, <3>3, <3>4 DEF Finish
    <2> QED
        BY <2>1, <2>2
<1>7. ASSUME NEW r \in Requests, Exit(r) PROVE Goal
    <2>1. r \in In /\ In' = In \ {r} /\ Busy' = Busy /\ Waiters' = Waiters
        BY <1>0, <1>7 DEF Exit, Move, At, Waiters, TypeOK
    <2>2. Cardinality(In) = Cardinality(In') + 1
        BY <1>n, <2>1, CountIn
    <2>3. queue' = queue - 1 /\ sem' = sem
        BY <1>7 DEF Exit
    <2>4. queue' = Cardinality(In')
        <3> HIDE DEF Busy, In
        <3> QED
            BY <1>0, <1>n, <2>2, <2>3
    <2> QED
        BY <1>0, <2>1, <2>3, <2>4
<1>8. ASSUME UNCHANGED vars PROVE Goal
    BY <1>0, <1>8 DEF vars, At, Waiters
<1> QED
    BY <1>1, <1>2, <1>3, <1>4, <1>5, <1>6, <1>7, <1>8
       DEF Next, PermitsBalanced, WorkConserving

\* The blocked requests and those that run forward are all inside.
LEMMA LineFits == IInv => WaitersBounded
<1> SUFFICES ASSUME IInv PROVE WaitersBounded
    OBVIOUS
<1> DEFINE In == Requests \ At({"out"})
           Busy == At({"forwarding"})
           Both == Waiters \cup Busy
<1>1. /\ Waiters \in SUBSET Requests /\ Busy \in SUBSET Requests
      /\ In \in SUBSET Requests
    BY DEF Waiters, At
<1>2. /\ IsFiniteSet(Waiters) /\ Cardinality(Waiters) \in Nat
      /\ IsFiniteSet(Busy) /\ Cardinality(Busy) \in Nat
      /\ IsFiniteSet(In) /\ Cardinality(In) \in Nat
    BY <1>1, AtFinite
<1>3. Both \subseteq In /\ Waiters \cap Busy = {}
    BY DEF Waiters, At
<1>4. Cardinality(Both) \in Nat /\ Cardinality(Both) <= Cardinality(In)
    BY <1>2, <1>3, FS_Subset, FS_CardinalityType
<1>5. Cardinality(Both) = Cardinality(Waiters) + Cardinality(Busy)
    <2> HIDE DEF Busy
    <2>1. Cardinality(Waiters \cap Busy) = 0
        BY <1>3, FS_EmptySet
    <2>2. Cardinality(Both)
            = Cardinality(Waiters) + Cardinality(Busy) - Cardinality(Waiters \cap Busy)
        BY <1>2, FS_Union
    <2> HIDE DEF Both
    <2> QED
        BY <1>2, <2>1, <2>2
<1>6. Cardinality(In) <= MaxConcurrency + QueueSize
    BY DEF IInv, TypeOK, PermitsBalanced
<1>7. Waiters # {} => Cardinality(Busy) = MaxConcurrency
    BY DEF IInv, WorkConserving, PermitsBalanced
<1>8. CASE Waiters = {}
    BY <1>8, FS_EmptySet, AdmissionAssumption DEF WaitersBounded
<1>9. CASE Waiters # {}
    <2> HIDE DEF Busy, In, Both
    <2> QED
        BY <1>2, <1>4, <1>5, <1>6, <1>7, <1>9, AdmissionAssumption
           DEF WaitersBounded
<1> QED
    BY <1>8, <1>9

-----------------------------------------------------------------------------
\* The conjunction of the three facts is inductive.
LEMMA Inductive == Spec => []IInv
<1>1. IInv /\ [Next]_vars => IInv'
    BY StepTypeOK, StepPermits DEF IInv
<1> QED
    BY InitIInv, <1>1, PTL DEF Spec

\* Every variable keeps its type: the channels never exceed their capacity.
THEOREM AdmissionTypes == Spec => []TypeOK
<1>1. IInv => TypeOK
    BY DEF IInv
<1> QED
    BY Inductive, <1>1, PTL

\* No path through serve loses or duplicates a permit.
THEOREM Permits == Spec => []PermitsBalanced
<1>1. IInv => PermitsBalanced
    BY DEF IInv
<1> QED
    BY Inductive, <1>1, PTL

\* A request is blocked only while MAX_CONCURRENCY others run forward.
THEOREM NoIdlePermit == Spec => []WorkConserving
<1>1. IInv => WorkConserving
    BY DEF IInv
<1> QED
    BY Inductive, <1>1, PTL

\* At most QUEUE_SIZE requests are blocked at any time.
THEOREM LineBounded == Spec => []WaitersBounded
BY Inductive, LineFits, PTL
=============================================================================
