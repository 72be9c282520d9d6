------------------------------ MODULE RunStore ------------------------------
(***************************************************************************)
(* What the database and the job queue hold about ONE pipeline run: the    *)
(* run row, its step rows, the HITL requests anchored to the steps, the    *)
(* run metadata, the story row and the queued execute_run jobs.            *)
(*                                                                         *)
(* Every write of the code is one SQL statement, and no two of them share  *)
(* a transaction; each operator below is one such statement.  None of the  *)
(* UPDATE statements looks at the old status, so whoever writes last wins. *)
(*                                                                         *)
(* Step rows: the rows 1..NumSteps are created by LaunchRun, one per       *)
(* pipeline step, with step_order equal to the row number; RetryStep adds  *)
(* rows with the order of the step they retry.  Order 0 marks a row that   *)
(* does not exist yet.                                                     *)
(***************************************************************************)
EXTENDS Integers, FiniteSets

CONSTANTS NumSteps,     \* steps of the pipeline config snapshot
          NumStages,    \* stages (groups) of the config snapshot
          StageOf,      \* StageOf[k]: the stage of the k-th step
          Transition,   \* Transition[s]: exit/entry policy of stage s
          GateSteps,    \* orders whose action is hitl_gate or human
          MaxRetries,   \* retry_policy.max_retries
          MaxRows,      \* bound: step rows, retries included
          MaxReqs,      \* bound: HITL requests
          Ops,          \* what the environment may do in this instance
          MaxOps,       \* bound: how many such things it does
          InitialJobs   \* execute_run executions the launch starts

Orders == 1..NumSteps
Stages == 1..NumStages
Rows == 1..MaxRows
Reqs == 1..MaxReqs

ASSUME StepsAssumption == /\ NumSteps \in Nat \ {0}
                          /\ NumStages \in Nat \ {0}
                          /\ MaxRows \in Nat
                          /\ NumSteps <= MaxRows
                          /\ MaxReqs \in Nat
                          /\ MaxRetries \in Nat
                          /\ MaxOps \in Nat
                          /\ InitialJobs \in Nat
ASSUME StagesAssumption == /\ StageOf \in [Orders -> Stages]
                           /\ Transition \in [Stages -> {"auto", "manual", "gate"}]
                           /\ GateSteps \subseteq Orders

RunStatus == {"pending", "running", "paused", "completed", "failed", "cancelled"}
StepStatus == {"pending", "running", "waiting_approval", "completed",
               "failed", "cancelled"}
StoryStatus == {"backlog", "running", "done", "failed"}
HITLStatus == {"absent", "pending", "approved", "rejected", "resolved"}
Terminal == {"failed", "completed", "cancelled"}
Metadata == [started : SUBSET Stages, parked : Stages \cup {0}]

VARIABLES status,       \* runs.status
          meta,         \* runs.metadata: the stage_started_<id> flags and
                        \* paused_stage_id (0 when there is no paused_reason)
          stepOrder,    \* run_steps.step_order, 0 for a row not created
          stepStatus,   \* run_steps.status
          hitl,         \* hitl_requests
          storyStatus,  \* stories.status
          storyStage,   \* stories.current_stage, 0 for NULL
          jobs,         \* queued execute_run jobs of this run
          budget,       \* environment operations left
          done,         \* history: orders that had a completed row
          go            \* history: manual stages a human has started

storeVars == <<status, meta, stepOrder, stepStatus, hitl, storyStatus,
               storyStage, jobs, done, go>>

NoRequest == [row |-> 0, gate |-> "none", status |-> "absent"]

(* The state LaunchRun leaves behind: a pending run, its steps pending and *)
(* its execution started.  A single launch inserts one execute_run job; a  *)
(* story launched by an epic run also has its run executed directly by the *)
(* epic's goroutine, so that two executions are under way.                 *)
StoreInit ==
    /\ status = "pending"
    /\ meta = [started |-> {}, parked |-> 0]
    /\ stepOrder = [r \in Rows |-> IF r <= NumSteps THEN r ELSE 0]
    /\ stepStatus = [r \in Rows |-> "pending"]
    /\ hitl = [q \in Reqs |-> NoRequest]
    /\ storyStatus = "backlog"
    /\ storyStage = 0
    /\ jobs = InitialJobs
    /\ budget = MaxOps
    /\ done = {}
    /\ go = {}

-----------------------------------------------------------------------------
(* Reads.                                                                  *)

Exists(r) == stepOrder[r] # 0

RequestsOf(r) == {q \in Reqs : hitl[q].status # "absent" /\ hitl[q].row = r}

RetriesOf(k) == {r \in Rows : r > NumSteps /\ stepOrder[r] = k}

-----------------------------------------------------------------------------
(* Writes.  Each is one statement and leaves the rest of the store alone.  *)

NoWrite == UNCHANGED storeVars

UpdateRunStatus(s) ==
    /\ status' = s
    /\ UNCHANGED <<meta, stepOrder, stepStatus, hitl, storyStatus, storyStage,
                   jobs, done, go>>

UpdateRunMetadata(m) ==
    /\ meta' = m
    /\ UNCHANGED <<status, stepOrder, stepStatus, hitl, storyStatus,
                   storyStage, jobs, done, go>>

(* The same statement when the handler writes a stage_started flag. *)
UpdateRunMetadataGo(m) ==
    /\ meta' = m
    /\ go' = go \cup m.started
    /\ UNCHANGED <<status, stepOrder, stepStatus, hitl, storyStatus,
                   storyStage, jobs, done>>

UpdateRunStepStatus(r, s) ==
    /\ stepStatus' = [stepStatus EXCEPT ![r] = s]
    /\ done' = IF s = "completed" THEN done \cup {stepOrder[r]} ELSE done
    /\ UNCHANGED <<status, meta, stepOrder, hitl, storyStatus, storyStage,
                   jobs, go>>

CreateRetryRunStep(k) ==
    /\ \E r \in Rows :
         /\ ~Exists(r)
         /\ \A x \in Rows : x < r => Exists(x)
         /\ stepOrder' = [stepOrder EXCEPT ![r] = k]
         /\ stepStatus' = [stepStatus EXCEPT ![r] = "pending"]
    /\ UNCHANGED <<status, meta, hitl, storyStatus, storyStage, jobs, done, go>>

CreateHITLRequest(r, gate) ==
    /\ \E q \in Reqs :
         /\ hitl[q].status = "absent"
         /\ \A p \in Reqs : p < q => hitl[p].status # "absent"
         /\ hitl' = [hitl EXCEPT ![q] = [row |-> r, gate |-> gate,
                                         status |-> "pending"]]
    /\ UNCHANGED <<status, meta, stepOrder, stepStatus, storyStatus,
                   storyStage, jobs, done, go>>

UpdateHITLRequestStatus(q, s) ==
    /\ hitl' = [hitl EXCEPT ![q] = [row |-> hitl[q].row, gate |-> hitl[q].gate,
                                    status |-> s]]
    /\ UNCHANGED <<status, meta, stepOrder, stepStatus, storyStatus,
                   storyStage, jobs, done, go>>

UpdateStory(s) ==
    /\ storyStatus' = s
    /\ UNCHANGED <<status, meta, stepOrder, stepStatus, hitl, storyStage,
                   jobs, done, go>>

UpdateStoryCurrentStage(s) ==
    /\ storyStage' = s
    /\ UNCHANGED <<status, meta, stepOrder, stepStatus, hitl, storyStatus,
                   jobs, done, go>>

(* Mutant: the insert is issued twice. *)
EnqueueTwice ==
    /\ jobs' = jobs + 2
    /\ UNCHANGED <<status, meta, stepOrder, stepStatus, hitl, storyStatus,
                   storyStage, done, go>>

(* River inserts and takes an execute_run job (MaxAttempts = 1: a job that *)
(* was taken is never put back).                                           *)
EnqueueExecuteRun ==
    /\ jobs' = jobs + 1
    /\ UNCHANGED <<status, meta, stepOrder, stepStatus, hitl, storyStatus,
                   storyStage, done, go>>

(* Mutant: a job is taken without looking whether there is one. *)
TakeJobUnchecked ==
    /\ jobs' = jobs - 1
    /\ UNCHANGED <<status, meta, stepOrder, stepStatus, hitl, storyStatus,
                   storyStage, done, go>>

TakeJob ==
    /\ jobs > 0
    /\ jobs' = jobs - 1
    /\ UNCHANGED <<status, meta, stepOrder, stepStatus, hitl, storyStatus,
                   storyStage, done, go>>

-----------------------------------------------------------------------------
(* The environment acts only as the instance allows, MaxOps times.         *)
Spend(o) == /\ o \in Ops
            /\ budget > 0
            /\ budget' = budget - 1

(* A statement that fails: nothing is written and the caller sees an error. *)
Fault == Spend("fault") /\ NoWrite

(* A write whose error is only logged. *)
BestEffort(Write) == (Write /\ UNCHANGED budget) \/ Fault

StoreTypeOK ==
    /\ status \in RunStatus
    /\ meta \in Metadata
    /\ stepOrder \in [Rows -> 0..NumSteps]
    /\ stepStatus \in [Rows -> StepStatus]
    /\ hitl \in [Reqs -> [row : 0..MaxRows,
                          gate : {"none", "approval", "probe_halt"},
                          status : HITLStatus]]
    /\ storyStatus \in StoryStatus
    /\ storyStage \in Stages \cup {0}
    /\ jobs \in Nat
    /\ budget \in Nat
    /\ done \subseteq Orders
    /\ go \subseteq Stages
=============================================================================
