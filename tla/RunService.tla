----------------------------- MODULE RunService -----------------------------
(***************************************************************************)
(* The run API: PauseRun, ResumeRun, StartStage, CancelRun and RetryStep.  *)
(* Each validates the status it reads and then writes without looking      *)
(* again, so the validation may be stale when the write happens.           *)
(***************************************************************************)
EXTENDS Handlers

CanPause(s) == s = "running"
CanCancel(s) == s \in {"pending", "running", "paused"}

PauseRun(c) ==
    /\ CanPause(status)
    /\ Begin(c, "pause", "set_paused", 0)

ResumeRun(c) ==
    /\ status = "paused"
    /\ Begin(c, "resume", "set_running", 0)

(* The Go of a manual stage.  The call is refused unless the run is parked *)
(* for one; it writes the started flag first, then resumes the run.        *)
StartStage(c) ==
    /\ status = "paused"
    /\ meta.parked # 0
    /\ op[c] = "idle"
    /\ Spend("start")
    /\ snap' = [snap EXCEPT ![c] = [started |-> meta.started \cup {meta.parked},
                                    parked |-> 0]]
    /\ op' = [op EXCEPT ![c] = "start_meta"]
    /\ NoWrite
    /\ UNCHANGED <<arg, saw, batch>>

StartStageMetadata(c) ==
    /\ op[c] = "start_meta"
    /\ \/ UpdateRunMetadataGo(snap[c]) /\ UNCHANGED budget /\ Then(c, "set_running")
       \/ Fault /\ End(c)

-----------------------------------------------------------------------------
CancelRun(c) ==
    /\ CanCancel(status)
    /\ Begin(c, "cancel", "cancel_list", 0)

CancelRunList(c) ==
    /\ op[c] = "cancel_list"
    /\ batch' = [batch EXCEPT ![c] =
                   {r \in Rows : /\ Exists(r)
                                 /\ stepStatus[r] \in {"pending", "running",
                                                       "waiting_approval"}}]
    /\ op' = [op EXCEPT ![c] = "cancel_steps"]
    /\ NoWrite
    /\ UNCHANGED <<budget, arg, saw, snap>>

CancelListed(c, r) ==
    \/ /\ UpdateRunStepStatus(r, "cancelled")
       /\ batch' = [batch EXCEPT ![c] = batch[c] \ {r}]
       /\ UNCHANGED <<budget, op, arg, saw, snap>>
    \/ Fault /\ End(c)

(* One listed step after another, in step_order; an error ends the call    *)
(* halfway.                                                                *)
CancelRunStep(c) ==
    /\ op[c] = "cancel_steps"
    /\ \E r \in batch[c] :
         /\ \A x \in batch[c] : stepOrder[r] <= stepOrder[x]
         /\ CancelListed(c, r)

CancelRunWrite(c) ==
    /\ op[c] = "cancel_steps"
    /\ batch[c] = {}
    /\ \/ UpdateRunStatus("cancelled") /\ UNCHANGED budget /\ Then(c, "cancel_story")
       \/ Fault /\ End(c)

TransitionStoryToBacklog(c) ==
    /\ op[c] = "cancel_story"
    /\ BestEffort(UpdateStory("backlog"))
    /\ End(c)

-----------------------------------------------------------------------------
(* RetryStep reads the run, then the step and its retries, and adds a row  *)
(* of the same order.  The failed row itself is left as it is.             *)
RetryStep(c) ==
    /\ op[c] = "idle"
    /\ Spend("retry")
    /\ \E r \in Rows : Exists(r) /\ arg' = [arg EXCEPT ![c] = r]
    /\ saw' = [saw EXCEPT ![c] = status]
    /\ op' = [op EXCEPT ![c] = "retry_check"]
    /\ NoWrite
    /\ UNCHANGED <<batch, snap>>

(* Mutant: the bound is compared one too late. *)
CanRetryOnceMore(r) == /\ stepStatus[r] = "failed"
                       /\ Cardinality(RetriesOf(stepOrder[r])) <= MaxRetries

CanRetry(r) == /\ stepStatus[r] = "failed"
               /\ Cardinality(RetriesOf(stepOrder[r])) < MaxRetries

RetryStepCheck(c) ==
    /\ op[c] = "retry_check"
    /\ IF CanRetry(arg[c]) THEN Then(c, "retry_create") ELSE End(c)
    /\ NoWrite
    /\ UNCHANGED budget

RetryStepCreate(c) ==
    /\ op[c] = "retry_create"
    /\ \/ /\ CreateRetryRunStep(stepOrder[arg[c]])
          /\ Then(c, IF saw[c] = "failed" THEN "set_running" ELSE "enqueue")
          /\ UNCHANGED budget
       \/ Fault /\ End(c)

RunServiceStep(c) ==
    \/ PauseRun(c) \/ ResumeRun(c)
    \/ StartStage(c) \/ StartStageMetadata(c)
    \/ CancelRun(c) \/ CancelRunList(c) \/ CancelRunStep(c)
    \/ CancelRunWrite(c) \/ TransitionStoryToBacklog(c)
    \/ RetryStep(c) \/ RetryStepCheck(c) \/ RetryStepCreate(c)
=============================================================================
