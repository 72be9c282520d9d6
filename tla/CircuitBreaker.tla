--------------------------- MODULE CircuitBreaker ---------------------------
(***************************************************************************)
(* The per-project circuit breaker (CircuitBreakerService) as the          *)
(* executors of the project's runs and the administrators use it.          *)
(*                                                                         *)
(* An executor checks the breaker, executes a run for an unbounded time,   *)
(* and then records the outcome.  The check and the record are separate    *)
(* database accesses; the increment and the reset are single UPDATE        *)
(* statements, but RecordSuccess and Reset read the project row first and  *)
(* decide on what they read.                                               *)
(***************************************************************************)
EXTENDS Integers, FiniteSets

CONSTANTS Workers,   \* executors that run pipelines of one project at a time
          Admins,    \* sessions that may call the reset endpoint
          Max        \* projects.circuit_breaker_max

ASSUME WorkersAssumption == IsFiniteSet(Workers) /\ Workers # {}
ASSUME MaxAssumption == Max \in Nat \ {0}

VARIABLES count,     \* projects.circuit_breaker_count
          active,    \* projects.circuit_breaker_active
          pc,        \* where each executor is
          admin      \* where each administrator's Reset call is

vars == <<count, active, pc, admin>>

WorkerState == {"idle", "refused", "executing", "resetting"}
AdminState == {"idle", "resetting"}

Init == /\ count = 0
        /\ active = FALSE
        /\ pc = [w \in Workers |-> "idle"]
        /\ admin = [a \in Admins |-> "idle"]

-----------------------------------------------------------------------------
(* Plausible slips in the code below, each caught by a property:           *)
(* IncrementOffByOne compares with > where the UPDATE has >=,              *)
(* ResetDecrements takes one failure back instead of all of them, and      *)
(* CheckIgnoresBreaker lets every run through.                             *)
IncrementOffByOne ==
    /\ count' = count + 1
    /\ active' = (active \/ count + 1 > Max)

ResetDecrements ==
    /\ count' = count - 1
    /\ active' = FALSE

CheckIgnoresBreaker(w) ==
    /\ pc[w] = "idle"
    /\ pc' = [pc EXCEPT ![w] = "executing"]
    /\ UNCHANGED <<count, active, admin>>

-----------------------------------------------------------------------------
(* The two UPDATE statements.                                              *)

IncrementCircuitBreakerCount ==
    /\ count' = count + 1
    /\ active' = (active \/ count + 1 >= Max)

ResetCircuitBreaker ==
    /\ count' = 0
    /\ active' = FALSE

-----------------------------------------------------------------------------
(* ExecuteRun asks CheckCircuitBreaker before it touches the run.  A       *)
(* refused run is marked failed and records nothing with the breaker.      *)
CheckCircuitBreaker(w) ==
    /\ pc[w] = "idle"
    /\ pc' = [pc EXCEPT ![w] = IF active THEN "refused" ELSE "executing"]
    /\ UNCHANGED <<count, active, admin>>

ReturnRefused(w) ==
    /\ pc[w] = "refused"
    /\ pc' = [pc EXCEPT ![w] = "idle"]
    /\ UNCHANGED <<count, active, admin>>

(* A step of the run failed. *)
RecordFailure(w) ==
    /\ pc[w] = "executing"
    /\ IncrementCircuitBreakerCount
    /\ pc' = [pc EXCEPT ![w] = "idle"]
    /\ UNCHANGED admin

(* The run was suspended, paused or cancelled, or the record could not be  *)
(* written: ExecuteRun returns and the breaker hears nothing.              *)
ReturnUnrecorded(w) ==
    /\ pc[w] = "executing"
    /\ pc' = [pc EXCEPT ![w] = "idle"]
    /\ UNCHANGED <<count, active, admin>>

(* The run completed: RecordSuccess reads the count ...                    *)
RecordSuccessRead(w) ==
    /\ pc[w] = "executing"
    /\ pc' = [pc EXCEPT ![w] = IF count > 0 THEN "resetting" ELSE "idle"]
    /\ UNCHANGED <<count, active, admin>>

(* ... and resets it if what it read was positive.                         *)
RecordSuccessReset(w) ==
    /\ pc[w] = "resetting"
    /\ ResetCircuitBreaker
    /\ pc' = [pc EXCEPT ![w] = "idle"]
    /\ UNCHANGED admin

(* Reset, called by an administrator: reads the row ...                    *)
ResetRead(a) ==
    /\ admin[a] = "idle"
    /\ active \/ count # 0
    /\ admin' = [admin EXCEPT ![a] = "resetting"]
    /\ UNCHANGED <<count, active, pc>>

(* ... and clears it.                                                      *)
ResetWrite(a) ==
    /\ admin[a] = "resetting"
    /\ ResetCircuitBreaker
    /\ admin' = [admin EXCEPT ![a] = "idle"]
    /\ UNCHANGED pc

AdminStep == \E a \in Admins : ResetRead(a) \/ ResetWrite(a)

WorkerStep ==
    \E w \in Workers :
        \/ CheckCircuitBreaker(w)
        \/ ReturnRefused(w)
        \/ RecordFailure(w)
        \/ ReturnUnrecorded(w)
        \/ RecordSuccessRead(w)
        \/ RecordSuccessReset(w)

Next == WorkerStep \/ AdminStep

Spec == Init /\ [][Next]_vars

-----------------------------------------------------------------------------
(* Properties.                                                             *)

TypeOK == /\ count \in Nat
          /\ active \in BOOLEAN
          /\ pc \in [Workers -> WorkerState]
          /\ admin \in [Admins -> AdminState]

(* The runs the breaker has let through and that have not recorded yet. *)
InFlight == {w \in Workers : pc[w] = "executing"}

(* BreakerConsistent: the stored flag always agrees with the stored count, *)
(* whatever increments, successes and administrator resets interleave: the *)
(* two columns are only ever written together (queries/projects.sql).      *)
BreakerConsistent == active <=> count >= Max

(* OvershootBounded: the check and the record are far apart in time, so    *)
(* failures keep arriving after the breaker has tripped, but only from the *)
(* runs that had been let through before: the count plus the runs still in *)
(* flight never exceeds Max - 1 plus the number of executors.              *)
OvershootBounded == count + Cardinality(InFlight) <= Max - 1 + Cardinality(Workers)
=============================================================================
