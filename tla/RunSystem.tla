----------------------------- MODULE RunSystem ------------------------------
(***************************************************************************)
(* One pipeline run with everything that acts on it: the executors that    *)
(* take its execute_run jobs, the run API, the HITL decisions and the      *)
(* watchdog, all interleaved at the level of single database statements,   *)
(* and crashes of the process that lose every job and call in progress.    *)
(***************************************************************************)
EXTENDS PipelineExecutor, RunService, HITLService

vars == <<storeVars, budget, execVars, sessionVars>>

Init == StoreInit /\ ExecInit /\ SessionInit

(* The process dies and restarts: the database and the queued jobs remain; *)
(* jobs being worked on are discarded (MaxAttempts = 1).                   *)
Crash ==
    /\ Spend("crash")
    /\ NoWrite
    /\ pc' = [e \in Workers |-> "idle"]
    /\ todo' = [e \in Workers |-> {}]
    /\ cur' = [e \in Workers |-> 0]
    /\ stage' = [e \in Workers |-> 0]
    /\ prev' = [e \in Workers |-> 0]
    /\ local' = [e \in Workers |-> NoMetadata]
    /\ expired' = [e \in Workers |-> FALSE]
    /\ op' = [c \in Clients |-> "idle"]
    /\ arg' = [c \in Clients |-> 0]
    /\ saw' = [c \in Clients |-> "pending"]
    /\ batch' = [c \in Clients |-> {}]
    /\ snap' = [c \in Clients |-> Blank]

ExecutorNext == \E e \in Workers : (ExecuteRun(e) \/ Expire(e)) /\ UNCHANGED sessionVars

SessionNext ==
    \E c \in Clients : /\ SharedStep(c) \/ RunServiceStep(c) \/ HITLServiceStep(c)
                       /\ UNCHANGED execVars

Next == ExecutorNext \/ SessionNext \/ Crash

Spec == Init /\ [][Next]_vars

(* Workers keep working and a handler call that has begun goes on; nobody  *)
(* is obliged to begin one.  River's workers poll the queue, each database *)
(* statement returns, and an action ends at the latest when the job's      *)
(* context does.                                                           *)
Continue(c) == op[c] # "idle" /\ (SharedStep(c) \/ RunServiceStep(c) \/ HITLServiceStep(c))

Fairness ==
    /\ \A e \in Workers : WF_vars(ExecuteRun(e) /\ UNCHANGED sessionVars)
    /\ \A c \in Clients : WF_vars(Continue(c) /\ UNCHANGED execVars)

FairSpec == Spec /\ Fairness

-----------------------------------------------------------------------------
(* Properties of every environment.                                        *)

TypeOK == StoreTypeOK /\ ExecTypeOK /\ SessionTypeOK

(* A worker is between the start and the completion of a step. *)
Executing(e) == pc[e] \in {"act", "act_wait", "act_pause", "persist",
                           "refetch", "complete"}

(* The steps before row r are behind the run. *)
Reached(r) == \A k \in 1..(stepOrder[r] - 1) : k \in done

(* StartsInOrder: whatever pauses, resumes, retries, decisions, crashes    *)
(* and concurrent executions happen, a step is executed only when every    *)
(* earlier step of the pipeline has been completed, or waived by a human   *)
(* (ExecuteRun: "Steps execute in step_order sequence").                   *)
StartsInOrder == \A e \in Workers : Executing(e) => Reached(cur[e])

(* CompletedMeansAllDone: a run is marked completed only if each of its    *)
(* steps has been completed once, by an executor or by a human decision,   *)
(* although the executor that writes the status relies on a list of steps  *)
(* it read long before (the end of ExecuteRun).                            *)
CompletedMeansAllDone == status = "completed" => done = Orders

(* ManualRespected: no step of a manual stage is executed before a human   *)
(* has given that stage its Go, although the started flags travel through  *)
(* copies of the metadata that executors write back whole                  *)
(* (enforceManualOnEnter, StartStage).                                     *)
ManualRespected ==
    \A e \in Workers :
      Executing(e) /\ Transition[CurStage(e)] = "manual" => CurStage(e) \in go

(* LedgerSpec: the run with all its executors, handlers, faults and        *)
(* crashes implements StepLedger: completions of step rows only ever tick  *)
(* off the next step or one ticked before, and "completed" is written only *)
(* on a full ledger.                                                       *)
Ledger == INSTANCE StepLedger WITH ticked <- done, outcome <- status,
                                   Statuses <- RunStatus
LedgerSpec == Ledger!Spec

-----------------------------------------------------------------------------
(* The inductive invariant behind StartsInOrder, CompletedMeansAllDone,    *)
(* ManualRespected and LedgerSpec.  It has to speak of copies that are     *)
(* stale when they are used: what a worker loaded stays sound because the  *)
(* history variables done and go only grow and a row keeps its order.      *)

Found(r) == Exists(r) /\ Reached(r)

StoreSound ==
    /\ \A k \in Orders : stepOrder[k] = k
    /\ \A r \in Rows : stepStatus[r] = "completed" => Exists(r) /\ stepOrder[r] \in done
    /\ \A r \in Rows : stepStatus[r] = "running" => Found(r)
    /\ \A q \in Reqs : hitl[q].status # "absent" => hitl[q].row \in Rows /\ Found(hitl[q].row)
    /\ meta.started \subseteq go
    /\ status = "completed" => done = Orders

(* No step is forgotten: it is done, still to be visited, or being visited. *)
Covered(e) == \A k \in Orders : k \in done \/ k \in todo[e] \/ k = cur[e]

Gating == {"gate_create", "gate_step", "gate_run"}

(* What a worker at phase p may rely on. *)
PhaseSound(e, p) ==
    /\ p \notin {"idle", "load"} => Covered(e)
    /\ p \in {"idle", "load", "start", "story_running", "loop"} \cup AtEnd => cur[e] = 0
    /\ p \in InStep \cup {"enter", "park_run", "park_story"} \cup Cancelling => cur[e] # 0
    /\ p \in {"exit"} \cup Gating \cup AtEnd /\ cur[e] = 0 => todo[e] = {}
    /\ p \in Gating => prev[e] # 0
    /\ p \in InStep => CurStage(e) = stage[e]

WorkerSound(e) ==
    /\ PhaseSound(e, pc[e])
    /\ \A r \in todo[e] : Exists(r)
    /\ cur[e] # 0 => Found(cur[e])
    /\ prev[e] # 0 => Found(prev[e])
    /\ stage[e] # 0 /\ Transition[stage[e]] = "manual" => stage[e] \in go
    /\ local[e].started \subseteq go

OnRequest == {"approve", "reject", "resolve_resume", "resolve_complete",
              "resolve_send_back", "resolve_abort"}
OnFound == {"complete_step", "halt_check", "halt_read", "halt_create"}
OnRow == OnFound \cup {"reject_step", "send_back_step", "fail_step",
                       "retry_check", "retry_create"}

SessionSound(c) ==
    /\ op[c] \in OnRequest => arg[c] \in Reqs /\ hitl[arg[c]].status # "absent"
    /\ op[c] \in OnRow => arg[c] \in Rows /\ Exists(arg[c])
    /\ op[c] \in OnFound => Reached(arg[c])

(* ViewsSound: whatever a worker or a handler carries from an earlier read *)
(* (the loaded steps, the step it visits, the metadata copy, the row or    *)
(* request of a call) is still safe to act on: no step is lost from view,  *)
(* and what is visited, gated, completed or halted has all earlier steps   *)
(* behind it (ExecuteRun, Approve, Resolve, RaiseProbeHalt, RetryStep).    *)
ViewsSound == /\ StoreSound
              /\ \A e \in Workers : WorkerSound(e)
              /\ \A c \in Clients : SessionSound(c)

-----------------------------------------------------------------------------
(* Properties that need a gentler environment; the runs and the README say *)
(* which, and what breaks them otherwise.                                  *)

(* GateRespected: a step after a gate stage is executed only when a        *)
(* request on a step of the gate stage has been approved                   *)
(* (enforceGateOnExit).                                                    *)
GateRespected ==
    \A e \in Workers : Executing(e) =>
      \A s \in Stages : Transition[s] = "gate" /\ s < CurStage(e) =>
        \E q \in Reqs : /\ hitl[q].status = "approved"
                        /\ StageOf[stepOrder[hitl[q].row]] = s

(* StepExclusive: no two executors are in the same step of the run, so an  *)
(* agent's work on a story is not duplicated (ExecuteRun, whose jobs carry *)
(* no uniqueness).                                                         *)
StepExclusive ==
    \A e, f \in Workers :
      e # f /\ Executing(e) /\ Executing(f) => stepOrder[cur[e]] # stepOrder[cur[f]]

(* Nobody is working on the run and no job or call is on its way. *)
Quiescent == /\ jobs = 0
             /\ \A e \in Workers : pc[e] = "idle"
             /\ \A c \in Clients : op[c] = "idle"

(* NotStranded: a run on which nothing is in progress is over, paused, or  *)
(* waiting for a human decision that will enqueue it again; it is not left *)
(* running with nobody to run it (the status writes of ExecuteRun and of   *)
(* the handlers, each to be followed by an execution or a final status).   *)
NotStranded ==
    Quiescent => \/ status \in Terminal \cup {"paused"}
                 \/ \E q \in Reqs : hitl[q].status = "pending"

(* StoryFollowsRun: once everything has settled the story's status tells   *)
(* what became of the run (updateStoryStatus).                             *)
StoryFollowsRun ==
    Quiescent => /\ status = "completed" => storyStatus = "done"
                 /\ status = "failed" => storyStatus = "failed"
                 /\ status = "cancelled" => storyStatus = "backlog"

(* Settles: the run always comes to rest, over or waiting for a human;     *)
(* executors and handlers never wait on each other (ExecuteRun, resumeRun, *)
(* StartStage).                                                            *)
Settles == []<>(Quiescent /\ status \in Terminal \cup {"paused"})

(* DecisionFinal: a request that has been approved, rejected or resolved   *)
(* keeps that decision ("HITL request is already ..., cannot approve").    *)
DecisionFinal ==
    [][\A q \in Reqs : hitl[q].status \in {"approved", "rejected", "resolved"}
                         => hitl'[q].status = hitl[q].status]_vars

(* RetryBound: a step never has more retry rows than its retry policy      *)
(* allows (RetryStep, RETRY_MAX_EXCEEDED).                                 *)
RetryBound == \A k \in Orders : Cardinality(RetriesOf(k)) <= MaxRetries
=============================================================================
