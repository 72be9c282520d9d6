-------------------------- MODULE PipelineExecutor --------------------------
(***************************************************************************)
(* ExecuteRun: a worker takes an execute_run job, loads the run and its    *)
(* steps, and executes the steps that were not completed when it loaded    *)
(* them, in step_order, enforcing the stage policies at stage boundaries.  *)
(* Each action is one database access with the decisions taken on its      *)
(* result; between two of them any other process may write.  Several       *)
(* workers may execute the same run: nothing in the queue prevents it.     *)
(***************************************************************************)
EXTENDS RunStore

CONSTANT Workers

VARIABLES pc,        \* where the worker is in ExecuteRun
          todo,      \* loaded steps still to visit
          cur,       \* the step being visited, 0 when there is none
          stage,     \* curStage, 0 for nil
          prev,      \* prevStep, 0 for nil
          local,     \* the worker's copy of the run metadata
          expired    \* the job's context is done (timeout or shutdown)

execVars == <<pc, todo, cur, stage, prev, local, expired>>

InStep == {"step", "act", "act_wait", "act_pause", "persist", "refetch",
           "complete", "fail_step", "fail_run", "story_failed"}
AtBoundary == {"exit", "gate_create", "gate_step", "gate_run", "enter",
               "park_run", "park_story"}
AtEnd == {"clear", "finish", "story_done"}
Cancelling == {"cancel_step", "cancel_run", "story_backlog"}
Phases == {"idle", "load", "start", "story_running", "loop"}
            \cup InStep \cup AtBoundary \cup AtEnd \cup Cancelling

NoMetadata == [started |-> {}, parked |-> 0]

ExecInit ==
    /\ pc = [e \in Workers |-> "idle"]
    /\ todo = [e \in Workers |-> {}]
    /\ cur = [e \in Workers |-> 0]
    /\ stage = [e \in Workers |-> 0]
    /\ prev = [e \in Workers |-> 0]
    /\ local = [e \in Workers |-> NoMetadata]
    /\ expired = [e \in Workers |-> FALSE]

-----------------------------------------------------------------------------
(* Control.                                                                *)

Goto(e, phase) ==
    /\ pc' = [pc EXCEPT ![e] = phase]
    /\ UNCHANGED <<todo, cur, stage, prev, local, expired>>

(* ExecuteRun returns and forgets its locals. *)
Return(e) ==
    /\ pc' = [pc EXCEPT ![e] = "idle"]
    /\ todo' = [todo EXCEPT ![e] = {}]
    /\ cur' = [cur EXCEPT ![e] = 0]
    /\ stage' = [stage EXCEPT ![e] = 0]
    /\ prev' = [prev EXCEPT ![e] = 0]
    /\ local' = [local EXCEPT ![e] = NoMetadata]
    /\ expired' = [expired EXCEPT ![e] = FALSE]

(* A database access on the job's context: it succeeds only while the      *)
(* context is alive ...                                                    *)
Alive(e) == ~expired[e] /\ UNCHANGED budget

(* ... and fails when the context is done or the database errs.            *)
Fails(e) == \/ expired[e] /\ NoWrite /\ UNCHANGED budget
            \/ ~expired[e] /\ Fault

(* A write on the job's context whose error is only logged. *)
Try(e, Write) == (Alive(e) /\ Write) \/ Fails(e)

-----------------------------------------------------------------------------
(* Taking the job.                                                         *)

(* The terminal guard: a run that is over is not executed again. *)
Take(e) ==
    /\ pc[e] = "idle"
    /\ TakeJob
    /\ Goto(e, IF status \in Terminal THEN "idle" ELSE "load")
    /\ UNCHANGED budget

(* The circuit breaker is open, or could not be read: the run is failed    *)
(* and its story is left as it is.                                         *)
RefuseByBreaker(e) ==
    /\ pc[e] = "load"
    /\ ~expired[e]
    /\ Spend("breaker")
    /\ UpdateRunStatus("failed")
    /\ Return(e)

(* Mutant: only the steps that nobody has begun are loaded. *)
LoadPendingOnly(e) ==
    /\ pc[e] = "load"
    /\ Alive(e)
    /\ todo' = [todo EXCEPT ![e] = {r \in Rows : Exists(r) /\ stepStatus[r] = "pending"}]
    /\ pc' = [pc EXCEPT ![e] = "start"]
    /\ NoWrite
    /\ UNCHANGED <<cur, stage, prev, local, expired>>

(* ListRunStepsByRun; completed steps are skipped by what is read here. *)
Load(e) ==
    /\ pc[e] = "load"
    /\ Alive(e)
    /\ todo' = [todo EXCEPT ![e] = {r \in Rows : Exists(r) /\ stepStatus[r] # "completed"}]
    /\ pc' = [pc EXCEPT ![e] = "start"]
    /\ NoWrite
    /\ UNCHANGED <<cur, stage, prev, local, expired>>

(* The run becomes running, whatever it was, and its metadata is copied. *)
Start(e) ==
    /\ pc[e] = "start"
    /\ Alive(e)
    /\ UpdateRunStatus("running")
    /\ local' = [local EXCEPT ![e] = meta]
    /\ pc' = [pc EXCEPT ![e] = "story_running"]
    /\ UNCHANGED <<todo, cur, stage, prev, expired>>

StoryRunning(e) ==
    /\ pc[e] = "story_running"
    /\ Try(e, UpdateStory("running"))
    /\ Goto(e, "loop")

(* An error here makes ExecuteRun return it, with nothing more written. *)
HardError(e) ==
    /\ pc[e] \in {"load", "start", "gate_create", "gate_step", "gate_run",
                  "park_run", "finish"}
    /\ Fails(e)
    /\ Return(e)

-----------------------------------------------------------------------------
(* The loop over the steps.                                                *)

(* Mutant: the sort is dropped. *)
Unsorted(rows) == rows

(* The loaded steps that come first; the sort leaves the order of a failed *)
(* step and its retries open.                                              *)
Front(rows) == {r \in rows : \A x \in rows : stepOrder[r] <= stepOrder[x]}

Visit(e, r, phase) ==
    /\ todo' = [todo EXCEPT ![e] = todo[e] \ {r}]
    /\ cur' = [cur EXCEPT ![e] = r]
    /\ pc' = [pc EXCEPT ![e] = phase]
    /\ UNCHANGED <<stage, prev, local, expired>>

(* Before each step the run is read again: paused stops the worker.  A     *)
(* failed read is logged and the step goes ahead.                          *)
PollPaused(e) ==
    /\ pc[e] = "loop"
    /\ todo[e] # {}
    /\ Alive(e)
    /\ status = "paused"
    /\ NoWrite
    /\ Return(e)

PollNext(e) ==
    /\ pc[e] = "loop"
    /\ ~expired[e]
    /\ \/ status # "paused" /\ NoWrite /\ UNCHANGED budget
       \/ Fault
    /\ \E r \in Front(todo[e]) :
         Visit(e, r, IF StageOf[stepOrder[r]] = stage[e] THEN "step" ELSE "exit")

PollExpired(e) ==
    /\ pc[e] = "loop"
    /\ expired[e]
    /\ \E r \in Front(todo[e]) : Visit(e, r, "cancel_step")
    /\ NoWrite
    /\ UNCHANGED budget

(* Mutant: the loop is left with steps still to visit. *)
PollEndEarly(e) ==
    /\ pc[e] = "loop"
    /\ Goto(e, "exit")
    /\ NoWrite
    /\ UNCHANGED budget

PollEnd(e) ==
    /\ pc[e] = "loop"
    /\ todo[e] = {}
    /\ Goto(e, "exit")
    /\ NoWrite
    /\ UNCHANGED budget

-----------------------------------------------------------------------------
(* enforceGateOnExit: leaving a gate stage needs an approved request on    *)
(* the stage's last step.  It runs before a step of another stage and once *)
(* more at the end of the run (cur = 0).                                   *)

(* Mutant: the gate is enforced only at the end of the run. *)
NeedsGateAtEnd(e) == /\ cur[e] = 0
                     /\ stage[e] # 0 /\ Transition[stage[e]] = "gate" /\ prev[e] # 0

NeedsGate(e) == stage[e] # 0 /\ Transition[stage[e]] = "gate" /\ prev[e] # 0

AfterGate(e) == IF cur[e] # 0 THEN "enter"
                ELSE IF stage[e] # 0 THEN "clear" ELSE "finish"

GatePass(e) ==
    /\ pc[e] = "exit"
    /\ \/ ~NeedsGate(e)
       \/ ~expired[e] /\ \E q \in RequestsOf(prev[e]) : hitl[q].status = "approved"
    /\ Goto(e, AfterGate(e))
    /\ NoWrite
    /\ UNCHANGED budget

GateHeld(e) ==
    /\ pc[e] = "exit"
    /\ NeedsGate(e)
    /\ ~expired[e]
    /\ \E q \in RequestsOf(prev[e]) : hitl[q].status # "approved"
    /\ Return(e)
    /\ NoWrite
    /\ UNCHANGED budget

GateMissing(e) ==
    /\ pc[e] = "exit"
    /\ NeedsGate(e)
    /\ \/ RequestsOf(prev[e]) = {} /\ NoWrite /\ UNCHANGED budget
       \/ Fails(e)
    /\ Goto(e, "gate_create")

GateCreate(e) ==
    /\ pc[e] = "gate_create"
    /\ Alive(e)
    /\ CreateHITLRequest(prev[e], "approval")
    /\ Goto(e, "gate_step")

GateAnchor(e) ==
    /\ pc[e] = "gate_step"
    /\ Alive(e)
    /\ UpdateRunStepStatus(prev[e], "waiting_approval")
    /\ Goto(e, "gate_run")

GateRun(e) ==
    /\ pc[e] = "gate_run"
    /\ Alive(e)
    /\ UpdateRunStatus("paused")
    /\ Return(e)

-----------------------------------------------------------------------------
(* enforceManualOnEnter: a manual stage is entered only after its Go; until *)
(* then the run parks.  The whole local copy of the metadata is written.   *)

CurStage(e) == StageOf[stepOrder[cur[e]]]

(* Mutant: the marker of a parked stage is taken for its Go. *)
AwaitsGoUnlessParked(e) == /\ Transition[CurStage(e)] = "manual"
                           /\ CurStage(e) \notin local[e].started
                           /\ CurStage(e) # local[e].parked

AwaitsGo(e) == /\ Transition[CurStage(e)] = "manual"
               /\ CurStage(e) \notin local[e].started

Enter(e) ==
    /\ pc[e] = "enter"
    /\ ~AwaitsGo(e)
    /\ Try(e, UpdateStoryCurrentStage(CurStage(e)))
    /\ stage' = [stage EXCEPT ![e] = CurStage(e)]
    /\ pc' = [pc EXCEPT ![e] = "step"]
    /\ UNCHANGED <<todo, cur, prev, local, expired>>

ParkMeta(e) ==
    /\ pc[e] = "enter"
    /\ AwaitsGo(e)
    /\ Try(e, UpdateRunMetadata([started |-> local[e].started, parked |-> CurStage(e)]))
    /\ Goto(e, "park_run")

(* Mutant: the worker stops without pausing the run. *)
ParkRunUnpaused(e) ==
    /\ pc[e] = "park_run"
    /\ Alive(e)
    /\ NoWrite
    /\ Goto(e, "park_story")

ParkRun(e) ==
    /\ pc[e] = "park_run"
    /\ Alive(e)
    /\ UpdateRunStatus("paused")
    /\ Goto(e, "park_story")

ParkStory(e) ==
    /\ pc[e] = "park_story"
    /\ Try(e, UpdateStoryCurrentStage(CurStage(e)))
    /\ Return(e)

-----------------------------------------------------------------------------
(* executeStep.                                                            *)

StartStep(e) ==
    /\ pc[e] = "step"
    /\ \/ Alive(e) /\ UpdateRunStepStatus(cur[e], "running") /\ Goto(e, "act")
       \/ Fails(e) /\ Goto(e, "fail_step")

IsGateStep(e) == stepOrder[cur[e]] \in GateSteps

(* The action of an ordinary step succeeds or fails.  How it fails (an     *)
(* agent error, a stopped container, the context) makes no difference.     *)
ActSucceeds(e) ==
    /\ pc[e] = "act"
    /\ ~IsGateStep(e)
    /\ Goto(e, "persist")
    /\ NoWrite
    /\ UNCHANGED budget

ActFails(e) ==
    /\ pc[e] \in {"act", "act_wait", "act_pause"}
    /\ \/ "fail" \in Ops /\ pc[e] = "act" /\ NoWrite /\ UNCHANGED budget
       \/ Fails(e)
    /\ Goto(e, "fail_step")

(* The hitl_gate and human actions: request, step, run, one after another. *)
ActRequest(e) ==
    /\ pc[e] = "act"
    /\ IsGateStep(e)
    /\ Alive(e)
    /\ CreateHITLRequest(cur[e], "approval")
    /\ Goto(e, "act_wait")

ActWait(e) ==
    /\ pc[e] = "act_wait"
    /\ Alive(e)
    /\ UpdateRunStepStatus(cur[e], "waiting_approval")
    /\ Goto(e, "act_pause")

ActPause(e) ==
    /\ pc[e] = "act_pause"
    /\ Alive(e)
    /\ UpdateRunStatus("paused")
    /\ Goto(e, "persist")

(* The metadata copy is written back whole, over whatever is stored. *)
PersistMetadata(e) ==
    /\ pc[e] = "persist"
    /\ Try(e, UpdateRunMetadata(local[e]))
    /\ Goto(e, "refetch")

(* A step found waiting for approval suspends the run; a failed read does  *)
(* not.                                                                    *)
RefetchSuspended(e) ==
    /\ pc[e] = "refetch"
    /\ Alive(e)
    /\ stepStatus[cur[e]] = "waiting_approval"
    /\ NoWrite
    /\ Return(e)

Refetch(e) ==
    /\ pc[e] = "refetch"
    /\ \/ Alive(e) /\ stepStatus[cur[e]] # "waiting_approval" /\ NoWrite
       \/ Fails(e)
    /\ Goto(e, "complete")

CompleteStep(e) ==
    /\ pc[e] = "complete"
    /\ Alive(e)
    /\ UpdateRunStepStatus(cur[e], "completed")
    /\ prev' = [prev EXCEPT ![e] = cur[e]]
    /\ cur' = [cur EXCEPT ![e] = 0]
    /\ pc' = [pc EXCEPT ![e] = "loop"]
    /\ UNCHANGED <<todo, stage, local, expired>>

CompleteFails(e) ==
    /\ pc[e] = "complete"
    /\ Fails(e)
    /\ Goto(e, "fail_step")

-----------------------------------------------------------------------------
(* handleStepFailure and handleCancellation.  The latter runs on a fresh   *)
(* context, so only a database error can stop its writes.                  *)

HandleFailureStep(e) ==
    /\ pc[e] = "fail_step"
    /\ Try(e, UpdateRunStepStatus(cur[e], "failed"))
    /\ Goto(e, "fail_run")

(* Mutant: the story is not told of the failure. *)
HandleFailureRunOnly(e) ==
    /\ pc[e] = "fail_run"
    /\ Try(e, UpdateRunStatus("failed"))
    /\ Return(e)

HandleFailureRun(e) ==
    /\ pc[e] = "fail_run"
    /\ Try(e, UpdateRunStatus("failed"))
    /\ Goto(e, "story_failed")

StoryFailed(e) ==
    /\ pc[e] = "story_failed"
    /\ Try(e, UpdateStory("failed"))
    /\ Return(e)

HandleCancellationStep(e) ==
    /\ pc[e] = "cancel_step"
    /\ BestEffort(UpdateRunStepStatus(cur[e], "cancelled"))
    /\ Goto(e, "cancel_run")

HandleCancellationRun(e) ==
    /\ pc[e] = "cancel_run"
    /\ BestEffort(UpdateRunStatus("cancelled"))
    /\ Goto(e, "story_backlog")

StoryBacklog(e) ==
    /\ pc[e] = "story_backlog"
    /\ BestEffort(UpdateStory("backlog"))
    /\ Return(e)

-----------------------------------------------------------------------------
(* The end of the run: the last stage is left, the run is completed.       *)

ClearStage(e) ==
    /\ pc[e] = "clear"
    /\ Try(e, UpdateStoryCurrentStage(0))
    /\ Goto(e, "finish")

Finish(e) ==
    /\ pc[e] = "finish"
    /\ Alive(e)
    /\ UpdateRunStatus("completed")
    /\ Goto(e, "story_done")

StoryDone(e) ==
    /\ pc[e] = "story_done"
    /\ Try(e, UpdateStory("done"))
    /\ Return(e)

-----------------------------------------------------------------------------
ExecuteRun(e) ==
    \/ Take(e) \/ RefuseByBreaker(e) \/ Load(e) \/ Start(e) \/ StoryRunning(e)
    \/ HardError(e)
    \/ PollPaused(e) \/ PollNext(e) \/ PollExpired(e) \/ PollEnd(e)
    \/ GatePass(e) \/ GateHeld(e) \/ GateMissing(e)
    \/ GateCreate(e) \/ GateAnchor(e) \/ GateRun(e)
    \/ Enter(e) \/ ParkMeta(e) \/ ParkRun(e) \/ ParkStory(e)
    \/ StartStep(e) \/ ActSucceeds(e) \/ ActFails(e)
    \/ ActRequest(e) \/ ActWait(e) \/ ActPause(e)
    \/ PersistMetadata(e) \/ RefetchSuspended(e) \/ Refetch(e)
    \/ CompleteStep(e) \/ CompleteFails(e)
    \/ HandleFailureStep(e) \/ HandleFailureRun(e) \/ StoryFailed(e)
    \/ HandleCancellationStep(e) \/ HandleCancellationRun(e)
    \/ StoryBacklog(e)
    \/ ClearStage(e) \/ Finish(e) \/ StoryDone(e)

(* The job's context ends: River's 45 minute timeout, or a shutdown. *)
Expire(e) ==
    /\ pc[e] # "idle"
    /\ ~expired[e]
    /\ Spend("expire")
    /\ expired' = [expired EXCEPT ![e] = TRUE]
    /\ NoWrite
    /\ UNCHANGED <<pc, todo, cur, stage, prev, local>>

ExecTypeOK ==
    /\ pc \in [Workers -> Phases]
    /\ todo \in [Workers -> SUBSET Rows]
    /\ cur \in [Workers -> Rows \cup {0}]
    /\ stage \in [Workers -> Stages \cup {0}]
    /\ prev \in [Workers -> Rows \cup {0}]
    /\ local \in [Workers -> Metadata]
    /\ expired \in [Workers -> BOOLEAN]
=============================================================================
