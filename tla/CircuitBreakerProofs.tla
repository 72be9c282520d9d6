------------------------ MODULE CircuitBreakerProofs ------------------------
(***************************************************************************)
(* Proofs about the circuit breaker, for any finite set of executors, any  *)
(* set of administrators and any positive threshold.                       *)
(***************************************************************************)
EXTENDS CircuitBreaker, FiniteSetTheorems, TLAPS

(* Type correctness of every reachable state of the breaker. *)
THEOREM BreakerTypeCorrect == Spec => []TypeOK
<1>1. Init => TypeOK
  <2>1. Init => active \in BOOLEAN
    BY Zenon DEF Init
  <2> QED
    BY <2>1 DEF Init, TypeOK, WorkerState, AdminState
<1>2. TypeOK /\ [Next]_vars => TypeOK'
  <2> SUFFICES ASSUME TypeOK, [Next]_vars PROVE TypeOK'
    OBVIOUS
  <2> USE DEF TypeOK, WorkerState, AdminState
  <2>1. ASSUME NEW w \in Workers, CheckCircuitBreaker(w) PROVE TypeOK'
    BY <2>1 DEF CheckCircuitBreaker
  <2>2. ASSUME NEW w \in Workers,
               ReturnRefused(w) \/ ReturnUnrecorded(w) \/ RecordSuccessRead(w)
        PROVE  TypeOK'
    BY <2>2 DEF ReturnRefused, ReturnUnrecorded, RecordSuccessRead
  <2>3. ASSUME NEW w \in Workers, RecordFailure(w) PROVE TypeOK'
    BY <2>3, MaxAssumption DEF RecordFailure, IncrementCircuitBreakerCount
  <2>4. ASSUME NEW w \in Workers, RecordSuccessReset(w) PROVE TypeOK'
    BY <2>4 DEF RecordSuccessReset, ResetCircuitBreaker
  <2>5. CASE AdminStep
    <3>1. active' \in BOOLEAN
      BY <2>5, Zenon DEF AdminStep, ResetRead, ResetWrite, ResetCircuitBreaker
    <3> QED
      BY <3>1, <2>5 DEF AdminStep, ResetRead, ResetWrite, ResetCircuitBreaker
  <2>6. CASE UNCHANGED vars
    BY <2>6 DEF vars
  <2> QED
    BY <2>1, <2>2, <2>3, <2>4, <2>5, <2>6 DEF Next, WorkerStep
<1> QED
  BY <1>1, <1>2, PTL DEF Spec

(* The flag and the count of a project never disagree: both UPDATE         *)
(* statements of queries/projects.sql write them together.                 *)
THEOREM BreakerAlwaysConsistent == Spec => []BreakerConsistent
<1>1. Init => BreakerConsistent
  BY MaxAssumption DEF Init, BreakerConsistent
<1>2. TypeOK /\ BreakerConsistent /\ [Next]_vars => BreakerConsistent'
  <2> SUFFICES ASSUME TypeOK, BreakerConsistent, [Next]_vars
               PROVE  BreakerConsistent'
    OBVIOUS
  <2> USE DEF TypeOK, BreakerConsistent
  <2>1. CASE IncrementCircuitBreakerCount
    <3>1. active' <=> active \/ count + 1 >= Max
      BY <2>1, Zenon DEF IncrementCircuitBreakerCount
    <3> QED
      BY <2>1, <3>1, MaxAssumption DEF IncrementCircuitBreakerCount
  <2>2. CASE ResetCircuitBreaker
    BY <2>2, MaxAssumption DEF ResetCircuitBreaker
  <2>3. CASE UNCHANGED <<count, active>>
    BY <2>3
  <2> QED
    BY <2>1, <2>2, <2>3
    DEF Next, WorkerStep, AdminStep, CheckCircuitBreaker, ReturnRefused,
        RecordFailure, ReturnUnrecorded, RecordSuccessRead,
        RecordSuccessReset, ResetRead, ResetWrite, vars
<1> QED
  BY <1>1, <1>2, BreakerTypeCorrect, PTL DEF Spec

-----------------------------------------------------------------------------
(* InFlight is a finite set no larger than Workers. *)
LEMMA InFlightFinite ==
  /\ IsFiniteSet(InFlight)
  /\ Cardinality(InFlight) \in Nat
  /\ Cardinality(Workers) \in Nat
  /\ Cardinality(InFlight) <= Cardinality(Workers)
<1>1. InFlight \subseteq Workers
  BY DEF InFlight
<1>2. IsFiniteSet(Workers)
  BY WorkersAssumption
<1> QED
  BY <1>1, <1>2, FS_Subset, FS_CardinalityType

(* Once the breaker has tripped, only the runs let through before can add  *)
(* to the count.  The invariant is inductive together with                 *)
(* BreakerConsistent: a run is let through only while active is FALSE,     *)
(* that is, while count <= Max - 1, and at most Workers are then in        *)
(* flight; a recorded failure moves one unit from InFlight to count.       *)
THEOREM BreakerOvershootBounded == Spec => []OvershootBounded
<1>1. Init => OvershootBounded
  BY InFlightFinite, MaxAssumption DEF Init, OvershootBounded
<1>2. TypeOK /\ BreakerConsistent /\ OvershootBounded /\ [Next]_vars
        => OvershootBounded'
  <2> SUFFICES ASSUME TypeOK, BreakerConsistent, OvershootBounded, [Next]_vars
               PROVE  OvershootBounded'
    OBVIOUS
  <2>a. /\ IsFiniteSet(InFlight')
        /\ Cardinality(InFlight') \in Nat
        /\ Cardinality(InFlight') <= Cardinality(Workers)
    <3>1. InFlight' \subseteq Workers
      BY DEF InFlight
    <3> QED
      BY <3>1, WorkersAssumption, FS_Subset, FS_CardinalityType
  <2> USE InFlightFinite, <2>a, MaxAssumption DEF OvershootBounded
  <2>1. ASSUME NEW w \in Workers, CheckCircuitBreaker(w)
        PROVE  OvershootBounded'
    <3>1. CASE active
      <4>1. InFlight' = InFlight
        BY <2>1, <3>1 DEF CheckCircuitBreaker, InFlight, TypeOK
      <4> QED
        BY <4>1, <2>1 DEF CheckCircuitBreaker
    <3>2. CASE ~active
      <4>1. count <= Max - 1
        BY <3>2 DEF BreakerConsistent, TypeOK
      <4> QED
        BY <4>1, <2>1 DEF CheckCircuitBreaker, TypeOK
    <3> QED
      BY <3>1, <3>2
  <2>2. ASSUME NEW w \in Workers, RecordFailure(w)
        PROVE  OvershootBounded'
    <3>1. InFlight' = InFlight \ {w} /\ w \in InFlight
      BY <2>2 DEF RecordFailure, InFlight, TypeOK
    <3>2. Cardinality(InFlight') = Cardinality(InFlight) - 1
      BY <3>1, FS_RemoveElement
    <3> QED
      BY <3>2, <2>2 DEF RecordFailure, IncrementCircuitBreakerCount, TypeOK
  <2>3. ASSUME InFlight' \subseteq InFlight, count' \in Nat, count' <= count
        PROVE  OvershootBounded'
    <3>1. Cardinality(InFlight') <= Cardinality(InFlight)
      BY <2>3, FS_Subset
    <3> QED
      BY <3>1, <2>3 DEF TypeOK
  <2>4. ASSUME NEW w \in Workers,
               ReturnRefused(w) \/ ReturnUnrecorded(w)
                 \/ RecordSuccessRead(w) \/ RecordSuccessReset(w)
        PROVE  OvershootBounded'
    <3>1. InFlight' \subseteq InFlight
      BY <2>4 DEF ReturnRefused, ReturnUnrecorded, RecordSuccessRead,
                  RecordSuccessReset, InFlight, TypeOK
    <3>2. count' \in Nat /\ count' <= count
      BY <2>4 DEF ReturnRefused, ReturnUnrecorded, RecordSuccessRead,
                  RecordSuccessReset, ResetCircuitBreaker, TypeOK
    <3> QED
      BY <3>1, <3>2, <2>3
  <2>5. CASE AdminStep \/ UNCHANGED vars
    <3>1. InFlight' = InFlight
      BY <2>5 DEF AdminStep, ResetRead, ResetWrite, InFlight, vars
    <3>2. count' \in Nat /\ count' <= count
      BY <2>5 DEF AdminStep, ResetRead, ResetWrite, ResetCircuitBreaker,
                  vars, TypeOK
    <3> QED
      BY <3>1, <3>2, <2>3
  <2> QED
    BY <2>1, <2>2, <2>4, <2>5 DEF Next, WorkerStep
<1> QED
  BY <1>1, <1>2, BreakerTypeCorrect, BreakerAlwaysConsistent, PTL DEF Spec

-----------------------------------------------------------------------------
(* With runs of the project executed one at a time, a run that is still    *)
(* executing or about to reset was let through a closed breaker, and       *)
(* nothing else can have tripped it since.                                 *)
AdmittedWhileClosed ==
  \A w \in Workers : pc[w] \in {"executing", "resetting"} => ~active

(* OnlyAdminCloses: "blocks new pipeline runs until an admin resets it"    *)
(* (circuit_breaker_service.go, doc of CircuitBreakerService): an open     *)
(* breaker is closed by the write of an administrator's Reset and by       *)
(* nothing else.  With two executors it fails: a success that started      *)
(* before the trip closes the breaker.                                     *)
OnlyAdminCloses == [][active /\ ~active' => \E a \in Admins : ResetWrite(a)]_vars

(* An executing run sees a closed breaker all along when there is only one *)
(* executor, so an open breaker is closed by an administrator only.        *)
THEOREM SerialOnlyAdminCloses ==
  ASSUME NEW u, Workers = {u}
  PROVE  Spec => OnlyAdminCloses
<1>1. Init => AdmittedWhileClosed
  BY DEF Init, AdmittedWhileClosed
<1>2. TypeOK /\ AdmittedWhileClosed /\ [Next]_vars => AdmittedWhileClosed'
  BY DEF TypeOK, AdmittedWhileClosed, Next, WorkerStep, AdminStep,
         CheckCircuitBreaker, ReturnRefused, RecordFailure, ReturnUnrecorded,
         RecordSuccessRead, RecordSuccessReset, ResetRead, ResetWrite,
         IncrementCircuitBreakerCount, ResetCircuitBreaker, vars
<1>3. TypeOK /\ AdmittedWhileClosed /\ [Next]_vars
        => [active /\ ~active' => \E a \in Admins : ResetWrite(a)]_vars
  <2> SUFFICES ASSUME TypeOK, AdmittedWhileClosed, [Next]_vars,
                      active, ~active'
               PROVE  \E a \in Admins : ResetWrite(a)
    OBVIOUS
  <2>1. ASSUME WorkerStep \/ UNCHANGED vars PROVE FALSE
    BY <2>1 DEF TypeOK, AdmittedWhileClosed, WorkerStep, CheckCircuitBreaker,
                ReturnRefused, RecordFailure, ReturnUnrecorded,
                RecordSuccessRead, RecordSuccessReset,
                IncrementCircuitBreakerCount, vars
  <2>2. ASSUME NEW a \in Admins, ResetRead(a) PROVE FALSE
    BY <2>2 DEF ResetRead
  <2> QED
    BY <2>1, <2>2 DEF Next, AdminStep
<1> QED
  BY <1>1, <1>2, <1>3, BreakerTypeCorrect, PTL DEF Spec, OnlyAdminCloses
=============================================================================
