------------------------------ MODULE Handlers ------------------------------
(***************************************************************************)
(* The request handlers and tickers that act on a run from outside the     *)
(* executor.  A handler reads, decides, and then writes statement by       *)
(* statement; a session is one handler call on its way through these       *)
(* steps.  This module holds the state of the sessions and the steps that  *)
(* several handlers share.                                                 *)
(***************************************************************************)
EXTENDS RunStore

CONSTANT Clients    \* handler calls that may be in progress at once

ASSUME ClientsAssumption == IsFiniteSet(Clients) /\ Clients # {}

VARIABLES op,       \* the next step of the session, "idle" between calls
          arg,      \* the step row or the HITL request it works on
          saw,      \* the run status it read
          batch,    \* the step rows it still has to cancel
          snap      \* the metadata it is about to write

sessionVars == <<op, arg, saw, batch, snap>>

SessionStep == {"idle", "set_paused", "set_running", "enqueue",
                "start_meta", "cancel_list", "cancel_steps",
                "cancel_story", "retry_check", "retry_create",
                "approve", "complete_step", "resume_read", "hitl_running",
                "reject", "reject_step", "resolve_resume", "resolve_complete",
                "resolve_send_back", "resolve_abort", "send_back_step",
                "fail_step", "fail_run",
                "halt_check", "halt_read", "halt_create"}

Blank == [started |-> {}, parked |-> 0]

SessionInit ==
    /\ op = [c \in Clients |-> "idle"]
    /\ arg = [c \in Clients |-> 0]
    /\ saw = [c \in Clients |-> "pending"]
    /\ batch = [c \in Clients |-> {}]
    /\ snap = [c \in Clients |-> Blank]

(* A call begins with a read of the store and the checks made on it. *)
Begin(c, o, step, a) ==
    /\ op[c] = "idle"
    /\ Spend(o)
    /\ op' = [op EXCEPT ![c] = step]
    /\ arg' = [arg EXCEPT ![c] = a]
    /\ NoWrite
    /\ UNCHANGED <<saw, batch, snap>>

Then(c, step) ==
    /\ op' = [op EXCEPT ![c] = step]
    /\ UNCHANGED <<arg, saw, batch, snap>>

ThenOn(c, step, a) ==
    /\ op' = [op EXCEPT ![c] = step]
    /\ arg' = [arg EXCEPT ![c] = a]
    /\ UNCHANGED <<saw, batch, snap>>

End(c) ==
    /\ op' = [op EXCEPT ![c] = "idle"]
    /\ arg' = [arg EXCEPT ![c] = 0]
    /\ saw' = [saw EXCEPT ![c] = "pending"]
    /\ batch' = [batch EXCEPT ![c] = {}]
    /\ snap' = [snap EXCEPT ![c] = Blank]

(* The handler reads the run and keeps the status it saw. *)
ReadRun(c, step) ==
    /\ saw' = [saw EXCEPT ![c] = status]
    /\ op' = [op EXCEPT ![c] = step]
    /\ NoWrite
    /\ UNCHANGED <<budget, arg, batch, snap>>

-----------------------------------------------------------------------------
(* Last write of PauseRun and of RaiseProbeHalt. *)
SetPaused(c) ==
    /\ op[c] = "set_paused"
    /\ BestEffort(UpdateRunStatus("paused"))
    /\ End(c)

(* Mutant: the run is set running and nothing is enqueued. *)
SetRunningOnly(c) ==
    /\ op[c] = "set_running"
    /\ BestEffort(UpdateRunStatus("running"))
    /\ End(c)

(* ResumeRun, StartStage and RetryStep: an error ends the call. *)
SetRunning(c) ==
    /\ op[c] = "set_running"
    /\ \/ UpdateRunStatus("running") /\ UNCHANGED budget /\ Then(c, "enqueue")
       \/ Fault /\ End(c)

Enqueue(c) ==
    /\ op[c] = "enqueue"
    /\ BestEffort(EnqueueExecuteRun)
    /\ End(c)

(* The watchdog's fail action and the abort of a probe halt. *)
FailStep(c) ==
    /\ op[c] = "fail_step"
    /\ BestEffort(UpdateRunStepStatus(arg[c], "failed"))
    /\ Then(c, "fail_run")

FailRun(c) ==
    /\ op[c] = "fail_run"
    /\ BestEffort(UpdateRunStatus("failed"))
    /\ End(c)

SharedStep(c) == SetPaused(c) \/ SetRunning(c) \/ Enqueue(c)
                   \/ FailStep(c) \/ FailRun(c)

SessionTypeOK ==
    /\ op \in [Clients -> SessionStep]
    /\ arg \in [Clients -> Nat]
    /\ saw \in [Clients -> RunStatus]
    /\ batch \in [Clients -> SUBSET Rows]
    /\ snap \in [Clients -> Metadata]
=============================================================================
