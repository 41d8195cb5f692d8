------------------------ MODULE TaskLifecycleProofs -------------------------
(***************************************************************************)
(* The safety of the lifecycle itself.  Safe is inductive: what a task     *)
(* waits for is completed before it starts, and completed is final, so a   *)
(* task serialized behind another closes no circle.                        *)
(***************************************************************************)
EXTENDS TaskLifecycle, TLAPS

\* Completed is final, and dependencies change for a working task only.
LEMMA CompletedStays ==
  ASSUME Types, Next
  PROVE  /\ \A t \in Tasks : status[t] = "completed" => status'[t] = "completed"
         /\ \A t \in Tasks : status[t] # "working" => dep'[t] = dep[t]
<1>1. ASSUME NEW t \in Tasks, Start(t) \/ Advance(t) \/ Land(t) \/ Finish(t) \/ Cascade(t)
      PROVE  /\ \A x \in Tasks : status[x] = "completed" => status'[x] = "completed"
             /\ dep' = dep
  BY <1>1 DEF Types, Start, Advance, After, Land, Finish, Cascade
<1>2. ASSUME NEW t \in Tasks, NEW u \in Tasks, Serialize(t, u)
      PROVE  /\ \A x \in Tasks : status[x] = "completed" => status'[x] = "completed"
             /\ \A x \in Tasks : status[x] # "working" => dep'[x] = dep[x]
  BY <1>2 DEF Types, Serialize
<1>3. ASSUME Recover
      PROVE  /\ \A x \in Tasks : status[x] = "completed" => status'[x] = "completed"
             /\ dep' = dep
  BY <1>3 DEF Types, Recover
<1> QED BY <1>1, <1>2, <1>3 DEF Next

LEMMA TypesStep ==
  ASSUME Types, Next
  PROVE  Types'
<1>1. ASSUME NEW t \in Tasks, Start(t) \/ Advance(t) \/ Land(t) \/ Finish(t) \/ Cascade(t)
      PROVE  Types'
  BY <1>1 DEF Types, Statuses, Start, Advance, After, Land, Finish, Cascade
<1>2. ASSUME NEW t \in Tasks, NEW u \in Tasks, Serialize(t, u)
      PROVE  Types'
  BY <1>2 DEF Types, Statuses, Serialize
<1>3. ASSUME Recover
      PROVE  Types'
  BY <1>3 DEF Types, Statuses, Recover
<1> QED BY <1>1, <1>2, <1>3 DEF Next

\* A task that does not leave "queued" or "working" keeps what it waits for.
LEMMA MetStays ==
  ASSUME Types, Next, NEW t \in Tasks, Met(t), dep'[t] = dep[t]
  PROVE  Met(t)'
BY CompletedStays DEF Types, Met

LEMMA StartedStep ==
  ASSUME Safe, Next
  PROVE  StartedInOrder'
<1> SUFFICES ASSUME NEW x \in Tasks, status'[x] \notin {"queued", "failed"}
             PROVE  Met(x)'
  BY DEF StartedInOrder
<1> USE DEF Safe
<1>1. ASSUME NEW t \in Tasks, Start(t) \/ Advance(t) \/ Land(t) \/ Finish(t) \/ Cascade(t)
      PROVE  Met(x) /\ dep' = dep
  BY <1>1 DEF Types, StartedInOrder, Start, Advance, After, Land, Finish, Cascade
<1>2. ASSUME NEW t \in Tasks, NEW u \in Tasks, Serialize(t, u)
      PROVE  Met(x) /\ dep'[x] = dep[x]
  BY <1>2 DEF Types, StartedInOrder, Serialize
<1>3. ASSUME Recover
      PROVE  Met(x) /\ dep' = dep
  BY <1>3 DEF Types, StartedInOrder, Recover
<1> QED BY <1>1, <1>2, <1>3, MetStays DEF Next

LEMMA LandedStep ==
  ASSUME Safe, Next
  PROVE  LandedInOrder'
<1> SUFFICES ASSUME NEW x \in landed'
             PROVE  status'[x] \in {"ci_passed", "completed", "failed"} /\ Met(x)'
  BY DEF LandedInOrder
<1> USE DEF Safe
<1>1. ASSUME NEW t \in Tasks, Start(t) \/ Advance(t) \/ Land(t) \/ Finish(t) \/ Cascade(t)
      PROVE  /\ x \in Tasks /\ Met(x) /\ dep' = dep
             /\ status'[x] \in {"ci_passed", "completed", "failed"}
  BY <1>1 DEF Types, StartedInOrder, LandedInOrder, Start, Advance, Land, Finish, Cascade
<1>2. ASSUME NEW t \in Tasks, NEW u \in Tasks, Serialize(t, u)
      PROVE  /\ x \in Tasks /\ Met(x) /\ dep'[x] = dep[x]
             /\ status'[x] \in {"ci_passed", "completed", "failed"}
  BY <1>2 DEF Types, LandedInOrder, Serialize
<1>3. ASSUME Recover
      PROVE  /\ x \in Tasks /\ Met(x) /\ dep' = dep
             /\ status'[x] \in {"ci_passed", "completed", "failed"}
  BY <1>3 DEF Types, LandedInOrder, Recover
<1> QED BY <1>1, <1>2, <1>3, MetStays DEF Next

\* Serializing t behind u closes no circle: what u waits for is completed, the
\* completed wait for completed tasks only, and those form no circle.
LEMMA AcyclicStep ==
  ASSUME Safe, Next
  PROVE  Acyclic'
<1> USE DEF Safe
<1>1. CASE dep' = dep
  BY <1>1 DEF Acyclic
<1>2. ASSUME NEW t \in Tasks, NEW u \in Tasks, Serialize(t, u)
      PROVE  Acyclic'
  <2> SUFFICES ASSUME NEW S \in SUBSET Tasks, S # {},
                      \A x \in S : dep'[x] \cap S # {}
               PROVE  FALSE
    BY DEF Acyclic
  <2> DEFINE Done == {x \in S : status[x] = "completed"}
  <2>1. \A x \in Tasks : x # t => dep'[x] = dep[x]
    BY <1>2 DEF Serialize, Types
  <2>2. dep'[t] = {u} /\ u # t /\ Met(u) /\ status[t] = "working"
    BY <1>2 DEF Serialize, Types
  <2>3. t \in S
    <3>1. PICK x \in S : dep[x] \cap S = {}
      BY DEF Acyclic
    <3> QED BY <3>1, <2>1
  <2>4. u \in S
    BY <2>2, <2>3
  <2>5. Done # {}
    <3>1. PICK v \in dep[u] : v \in S
      BY <2>1, <2>2, <2>4
    <3> QED BY <3>1, <2>2 DEF Met
  <2>6. \A x \in Done : dep[x] \cap Done # {}
    <3> SUFFICES ASSUME NEW x \in Done
                 PROVE  dep[x] \cap Done # {}
      OBVIOUS
    <3>1. x # t /\ Met(x)
      BY <2>2 DEF StartedInOrder
    <3>2. PICK v \in dep[x] : v \in S
      BY <3>1, <2>1
    <3> QED BY <3>1, <3>2 DEF Met
  <2> QED BY <2>5, <2>6 DEF Acyclic
<1>3. dep' = dep \/ \E t, u \in Tasks : Serialize(t, u)
  BY DEF Next, Start, Advance, Land, Finish, Cascade, Recover
<1> QED BY <1>1, <1>2, <1>3

LEMMA SafeStep ==
  ASSUME Safe, [Next]_lifecycle
  PROVE  Safe'
<1>1. CASE Next
  BY <1>1, TypesStep, AcyclicStep, StartedStep, LandedStep DEF Safe
<1>2. CASE UNCHANGED lifecycle
  BY <1>2 DEF lifecycle, Safe, Types, Acyclic, StartedInOrder, LandedInOrder, Met
<1> QED BY <1>1, <1>2

LEMMA InitSafe == Init => Safe
BY DEF Init, Safe, Types, Statuses, StartedInOrder, LandedInOrder

\* Whatever implements the lifecycle starts tasks and lands their changes in
\* the order of the dependencies, which never form a circle.
THEOREM LifecycleSafe == Spec => []Safe
BY InitSafe, SafeStep, PTL DEF Spec
=============================================================================
