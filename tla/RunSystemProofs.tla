-------------------------- MODULE RunSystemProofs ---------------------------
(***************************************************************************)
(* Proofs about RunSystem for every pipeline, every number of workers,     *)
(* clients, rows, requests and jobs and every environment.                 *)
(*                                                                         *)
(* The argument is a rely-guarantee one.  StoreNext says what any single   *)
(* statement may do to the store; it keeps StoreSound, and it lets the     *)
(* store only grow in what others rely on (Grows).  So a step of a worker  *)
(* or of a session has to be examined for three things only: that its      *)
(* write is a StoreNext, that it leaves the locals of the others alone,    *)
(* and that its own locals are sound afterwards.                           *)
(***************************************************************************)
EXTENDS RunSystem, FiniteSetTheorems, TLAPS

StoreNext ==
    \/ NoWrite
    \/ \E s \in RunStatus : UpdateRunStatus(s) /\ (s = "completed" => done = Orders)
    \/ \E m \in Metadata : UpdateRunMetadata(m) /\ m.started \subseteq go
    \/ \E m \in Metadata : UpdateRunMetadataGo(m)
    \/ \E r \in Rows, s \in StepStatus :
         /\ UpdateRunStepStatus(r, s)
         /\ s \in {"running", "completed"} => Found(r)
    \/ \E k \in Orders : CreateRetryRunStep(k)
    \/ \E r \in Rows, g \in {"approval", "probe_halt"} :
         CreateHITLRequest(r, g) /\ Found(r)
    \/ \E q \in Reqs, s \in HITLStatus \ {"absent"} :
         UpdateHITLRequestStatus(q, s) /\ hitl[q].status # "absent"
    \/ \E s \in StoryStatus : UpdateStory(s)
    \/ \E s \in Stages \cup {0} : UpdateStoryCurrentStage(s)
    \/ EnqueueExecuteRun
    \/ TakeJob

Grows ==
    /\ done \subseteq done'
    /\ go \subseteq go'
    /\ \A r \in Rows : stepOrder[r] # 0 => stepOrder'[r] = stepOrder[r]
    /\ \A q \in Reqs : hitl[q].status # "absent" =>
         hitl'[q].status # "absent" /\ hitl'[q].row = hitl[q].row

Sound == TypeOK /\ ViewsSound

-----------------------------------------------------------------------------
(* The store.                                                              *)

(* A row that was found stays found when the store grows. *)
LEMMA FoundStays ==
    ASSUME StoreTypeOK, Grows, NEW r \in Rows, Found(r)
    PROVE  Found(r)'
  BY DEF StoreTypeOK, Grows, Found, Exists, Reached

(* Every statement leaves the store well typed. *)
LEMMA StoreTyped ==
    ASSUME StoreTypeOK, StoreNext, budget' \in Nat
    PROVE  StoreTypeOK'
<1> USE StepsAssumption, StagesAssumption
<1>1. CASE NoWrite
  BY <1>1 DEF StoreTypeOK, NoWrite, storeVars
<1>2. CASE \E s \in RunStatus : UpdateRunStatus(s)
  BY <1>2 DEF StoreTypeOK, UpdateRunStatus
<1>3. CASE \E m \in Metadata : UpdateRunMetadata(m)
  BY <1>3 DEF StoreTypeOK, UpdateRunMetadata
<1>4. CASE \E m \in Metadata : UpdateRunMetadataGo(m)
  BY <1>4 DEF StoreTypeOK, UpdateRunMetadataGo, Metadata
<1>5. CASE \E r \in Rows, s \in StepStatus :
             UpdateRunStepStatus(r, s) /\ (s \in {"running", "completed"} => Found(r))
  <2>1. PICK r \in Rows, s \in StepStatus :
             UpdateRunStepStatus(r, s) /\ (s \in {"running", "completed"} => Found(r))
    BY <1>5
  <2>2. s = "completed" => stepOrder[r] \in Orders
    BY <2>1 DEF StoreTypeOK, Found, Exists, Orders
  <2> QED BY <2>1, <2>2 DEF StoreTypeOK, UpdateRunStepStatus
<1>6. CASE \E k \in Orders : CreateRetryRunStep(k)
  BY <1>6 DEF StoreTypeOK, CreateRetryRunStep, Orders, StepStatus
<1>7. CASE \E r \in Rows, g \in {"approval", "probe_halt"} : CreateHITLRequest(r, g)
  BY <1>7 DEF StoreTypeOK, CreateHITLRequest, Rows, HITLStatus
<1>8. CASE \E q \in Reqs, s \in HITLStatus \ {"absent"} : UpdateHITLRequestStatus(q, s)
  BY <1>8 DEF StoreTypeOK, UpdateHITLRequestStatus
<1>9. CASE \E s \in StoryStatus : UpdateStory(s)
  BY <1>9 DEF StoreTypeOK, UpdateStory
<1>10. CASE \E s \in Stages \cup {0} : UpdateStoryCurrentStage(s)
  BY <1>10 DEF StoreTypeOK, UpdateStoryCurrentStage
<1>11. CASE EnqueueExecuteRun
  BY <1>11 DEF StoreTypeOK, EnqueueExecuteRun
<1>12. CASE TakeJob
  BY <1>12 DEF StoreTypeOK, TakeJob
<1> QED
  BY <1>1, <1>2, <1>3, <1>4, <1>5, <1>6, <1>7, <1>8, <1>9, <1>10, <1>11, <1>12
     DEF StoreNext

(* Every statement only adds to what others rely on. *)
LEMMA StoreGrows ==
    ASSUME StoreTypeOK, StoreNext
    PROVE  Grows
<1>1. CASE \E r \in Rows, s \in StepStatus : UpdateRunStepStatus(r, s)
  BY <1>1 DEF StoreTypeOK, UpdateRunStepStatus, Grows
<1>2. CASE \E k \in Orders : CreateRetryRunStep(k)
  BY <1>2 DEF StoreTypeOK, CreateRetryRunStep, Grows, Exists
<1>3. CASE \E r \in Rows, g \in {"approval", "probe_halt"} : CreateHITLRequest(r, g)
  BY <1>3 DEF StoreTypeOK, CreateHITLRequest, Grows
<1>4. CASE \E q \in Reqs, s \in HITLStatus \ {"absent"} : UpdateHITLRequestStatus(q, s)
  BY <1>4 DEF StoreTypeOK, UpdateHITLRequestStatus, Grows
<1>5. CASE UNCHANGED <<stepOrder, hitl, done>> /\ go \subseteq go'
  BY <1>5 DEF Grows
<1>6. CASE \/ NoWrite
           \/ \E s \in RunStatus : UpdateRunStatus(s)
           \/ \E m \in Metadata : UpdateRunMetadata(m)
           \/ \E m \in Metadata : UpdateRunMetadataGo(m)
           \/ \E s \in StoryStatus : UpdateStory(s)
           \/ \E s \in Stages \cup {0} : UpdateStoryCurrentStage(s)
           \/ EnqueueExecuteRun
           \/ TakeJob
  BY <1>5, <1>6 DEF NoWrite, storeVars, UpdateRunStatus, UpdateRunMetadata,
     UpdateRunMetadataGo, UpdateStory, UpdateStoryCurrentStage,
     EnqueueExecuteRun, TakeJob
<1> QED
  BY <1>1, <1>2, <1>3, <1>4, <1>6 DEF StoreNext

(* Every statement keeps the store sound. *)
LEMMA StoreStaysSound ==
    ASSUME StoreTypeOK, StoreSound, StoreNext
    PROVE  StoreSound'
<1> USE StepsAssumption
<1>g. Grows
  BY StoreGrows
<1>f. \A r \in Rows : Found(r) => Found(r)'
  BY <1>g, FoundStays
<1>o. \A k \in Orders : k \in Rows /\ k # 0
  BY DEF Orders, Rows
<1>a. \A k \in Orders : stepOrder'[k] = k
  BY <1>g, <1>o DEF StoreSound, Grows
<1>1. CASE \E s \in RunStatus : UpdateRunStatus(s) /\ (s = "completed" => done = Orders)
  BY <1>1, <1>a, <1>f DEF StoreSound, UpdateRunStatus, Exists
<1>2. CASE \E m \in Metadata : UpdateRunMetadata(m) /\ m.started \subseteq go
  BY <1>2, <1>a, <1>f DEF StoreSound, UpdateRunMetadata, Exists
<1>3. CASE \E m \in Metadata : UpdateRunMetadataGo(m)
  BY <1>3, <1>a, <1>f DEF StoreSound, UpdateRunMetadataGo, Exists
<1>4. CASE \E r \in Rows, s \in StepStatus :
             UpdateRunStepStatus(r, s) /\ (s \in {"running", "completed"} => Found(r))
  <2>1. PICK r \in Rows, s \in StepStatus :
             UpdateRunStepStatus(r, s) /\ (s \in {"running", "completed"} => Found(r))
    BY <1>4
  <2>2. s = "completed" => stepOrder[r] \in Orders
    BY <2>1 DEF StoreTypeOK, Found, Exists, Orders
  <2>3. \A x \in Rows : stepStatus'[x] = "completed" => Exists(x)' /\ stepOrder'[x] \in done'
    BY <2>1 DEF StoreTypeOK, StoreSound, UpdateRunStepStatus, Exists, Found
  <2>4. \A x \in Rows : stepStatus'[x] = "running" => Found(x)'
    BY <2>1, <1>f DEF StoreTypeOK, StoreSound, UpdateRunStepStatus
  <2>5. \A q \in Reqs : hitl'[q].status # "absent" => hitl'[q].row \in Rows /\ Found(hitl[q].row)'
    BY <2>1, <1>f DEF StoreSound, UpdateRunStepStatus
  <2>6. status' = "completed" => done' = Orders
    BY <2>1, <2>2 DEF StoreSound, UpdateRunStepStatus
  <2> QED
    BY <1>a, <2>1, <2>3, <2>4, <2>5, <2>6 DEF StoreSound, UpdateRunStepStatus
<1>5. CASE \E k \in Orders : CreateRetryRunStep(k)
  <2>1. PICK k \in Orders : CreateRetryRunStep(k)
    BY <1>5
  <2>2. \A x \in Rows : stepStatus'[x] = "completed" => Exists(x)' /\ stepOrder'[x] \in done'
    BY <2>1 DEF StoreTypeOK, StoreSound, CreateRetryRunStep, Exists
  <2>3. \A x \in Rows : stepStatus'[x] = "running" => Found(x)'
    BY <2>1, <1>f DEF StoreTypeOK, StoreSound, CreateRetryRunStep
  <2>4. \A q \in Reqs : hitl'[q].status # "absent" => hitl'[q].row \in Rows /\ Found(hitl[q].row)'
    BY <2>1, <1>f DEF StoreSound, CreateRetryRunStep
  <2> QED
    BY <1>a, <2>1, <2>2, <2>3, <2>4 DEF StoreSound, CreateRetryRunStep
<1>6. CASE \E r \in Rows, g \in {"approval", "probe_halt"} : CreateHITLRequest(r, g) /\ Found(r)
  <2>1. PICK r \in Rows, g \in {"approval", "probe_halt"} : CreateHITLRequest(r, g) /\ Found(r)
    BY <1>6
  <2>2. \A q \in Reqs : hitl'[q].status # "absent" => hitl'[q].row \in Rows /\ Found(hitl'[q].row)
    BY <2>1 DEF StoreTypeOK, StoreSound, CreateHITLRequest
  <2>3. \A x \in Rows : Found(x)' <=> Found(x)
    BY <2>1 DEF CreateHITLRequest, Found, Exists, Reached
  <2> QED
    BY <1>a, <2>1, <2>2, <2>3 DEF StoreSound, CreateHITLRequest, Exists
<1>7. CASE \E q \in Reqs, s \in HITLStatus \ {"absent"} :
             UpdateHITLRequestStatus(q, s) /\ hitl[q].status # "absent"
  <2>1. PICK q \in Reqs, s \in HITLStatus \ {"absent"} :
             UpdateHITLRequestStatus(q, s) /\ hitl[q].status # "absent"
    BY <1>7
  <2>2. \A p \in Reqs : hitl'[p].status # "absent" => hitl'[p].row \in Rows /\ Found(hitl'[p].row)
    BY <2>1 DEF StoreTypeOK, StoreSound, UpdateHITLRequestStatus
  <2>3. \A x \in Rows : Found(x)' <=> Found(x)
    BY <2>1 DEF UpdateHITLRequestStatus, Found, Exists, Reached
  <2> QED
    BY <1>a, <2>1, <2>2, <2>3 DEF StoreSound, UpdateHITLRequestStatus, Exists
<1>8. CASE UNCHANGED <<status, meta, stepOrder, stepStatus, hitl, done, go>>
  BY <1>8 DEF StoreSound, Exists, Found, Reached
<1>9. CASE \/ NoWrite
           \/ \E s \in StoryStatus : UpdateStory(s)
           \/ \E s \in Stages \cup {0} : UpdateStoryCurrentStage(s)
           \/ EnqueueExecuteRun
           \/ TakeJob
  BY <1>8, <1>9 DEF NoWrite, storeVars, UpdateStory, UpdateStoryCurrentStage,
     EnqueueExecuteRun, TakeJob
<1> QED
  BY <1>1, <1>2, <1>3, <1>4, <1>5, <1>6, <1>7, <1>9 DEF StoreNext

-----------------------------------------------------------------------------
(* What a step of one process means for the locals of the others.          *)

Keeps(f) == /\ pc'[f] = pc[f] /\ todo'[f] = todo[f] /\ cur'[f] = cur[f]
            /\ stage'[f] = stage[f] /\ prev'[f] = prev[f] /\ local'[f] = local[f]

KeepsSession(c) == op'[c] = op[c] /\ arg'[c] = arg[c]

(* What a worker relies on survives every step of the others. *)
LEMMA WorkerStays ==
    ASSUME StoreTypeOK, ExecTypeOK, Grows, NEW f \in Workers, WorkerSound(f), Keeps(f)
    PROVE  WorkerSound(f)'
<1>1. cur[f] # 0 => Found(cur[f])' /\ CurStage(f)' = CurStage(f)
  BY FoundStays DEF WorkerSound, Found, Exists, ExecTypeOK, Keeps, Grows, CurStage
<1>2. prev[f] # 0 => Found(prev[f])'
  BY FoundStays DEF WorkerSound, Found, Exists, ExecTypeOK, Keeps
<1>3. Covered(f) => Covered(f)'
  BY DEF Covered, Keeps, Grows
<1>4. PhaseSound(f, pc[f])'
  BY <1>1, <1>3 DEF WorkerSound, PhaseSound, Keeps, InStep
<1>5. \A r \in todo'[f] : Exists(r)'
  BY DEF WorkerSound, Exists, ExecTypeOK, Keeps, Grows
<1>6. /\ stage'[f] # 0 /\ Transition[stage'[f]] = "manual" => stage'[f] \in go'
      /\ local'[f].started \subseteq go'
  BY DEF WorkerSound, Keeps, Grows
<1> QED
  BY <1>1, <1>2, <1>4, <1>5, <1>6 DEF WorkerSound, Keeps

(* So does what a session relies on. *)
LEMMA SessionStays ==
    ASSUME StoreTypeOK, Grows, NEW c \in Clients, SessionSound(c), KeepsSession(c)
    PROVE  SessionSound(c)'
<1>1. arg[c] \in Rows /\ Exists(arg[c]) => Exists(arg[c])'
  BY DEF Exists, Grows, KeepsSession
<1>2. arg[c] \in Rows /\ Exists(arg[c]) /\ Reached(arg[c]) => Reached(arg[c])'
  BY FoundStays DEF Found, KeepsSession
<1>3. OnFound \subseteq OnRow
  BY DEF OnFound, OnRow
<1> QED
  BY <1>1, <1>2, <1>3 DEF SessionSound, KeepsSession, Grows

-----------------------------------------------------------------------------
(* The ways a worker moves on.                                             *)

WorkerMoves(e) == /\ ExecTypeOK'
                  /\ \A f \in Workers : f # e => Keeps(f)
                  /\ WorkerSound(e)'

(* Going to a phase whose demands are met. *)
LEMMA GotoMoves ==
    ASSUME StoreTypeOK, ExecTypeOK, Grows, NEW e \in Workers, WorkerSound(e),
           NEW p \in Phases, Goto(e, p), PhaseSound(e, p)
    PROVE  WorkerMoves(e)
<1>1. ExecTypeOK' /\ \A f \in Workers : f # e => Keeps(f)
  BY DEF ExecTypeOK, Goto, Keeps
<1>2. /\ pc'[e] = p
      /\ UNCHANGED <<todo, cur, stage, prev, local>>
  BY DEF ExecTypeOK, Goto
<1>3. cur[e] # 0 => Found(cur[e])' /\ CurStage(e)' = CurStage(e)
  BY <1>2, FoundStays DEF WorkerSound, Found, Exists, ExecTypeOK, Grows, CurStage
<1>4. prev[e] # 0 => Found(prev[e])'
  BY <1>2, FoundStays DEF WorkerSound, Found, Exists, ExecTypeOK
<1>5. Covered(e) => Covered(e)'
  BY <1>2 DEF Covered, Grows
<1>6. PhaseSound(e, pc[e])'
  BY <1>2, <1>3, <1>5 DEF PhaseSound, InStep
<1>7. \A r \in todo'[e] : Exists(r)'
  BY <1>2 DEF WorkerSound, Exists, ExecTypeOK, Grows
<1>8. /\ stage'[e] # 0 /\ Transition[stage'[e]] = "manual" => stage'[e] \in go'
      /\ local'[e].started \subseteq go'
  BY <1>2 DEF WorkerSound, Grows
<1> QED
  BY <1>1, <1>2, <1>3, <1>4, <1>6, <1>7, <1>8 DEF WorkerMoves, WorkerSound

(* Returning. *)
LEMMA ReturnMoves ==
    ASSUME ExecTypeOK, NEW e \in Workers, Return(e)
    PROVE  WorkerMoves(e)
<1>1. ExecTypeOK' /\ \A f \in Workers : f # e => Keeps(f)
  BY DEF ExecTypeOK, Return, Keeps, Phases, NoMetadata, Metadata
<1>2. /\ pc'[e] = "idle" /\ todo'[e] = {} /\ cur'[e] = 0 /\ stage'[e] = 0
      /\ prev'[e] = 0 /\ local'[e] = NoMetadata
  BY DEF ExecTypeOK, Return
<1>3. PhaseSound(e, pc[e])'
  BY <1>2 DEF PhaseSound, InStep, AtEnd, Cancelling, Gating
<1> QED
  BY <1>1, <1>2, <1>3 DEF WorkerMoves, WorkerSound, NoMetadata

(* An access that fails writes nothing. *)
LEMMA FailsWritesNothing ==
    ASSUME budget \in Nat, NEW e \in Workers, Fails(e)
    PROVE  NoWrite /\ budget' \in Nat
  BY DEF Fails, Fault, Spend

-----------------------------------------------------------------------------
(* The steps of a worker.                                                  *)

Writes == StoreNext /\ budget' \in Nat

Progress(e) == Writes /\ WorkerMoves(e)

LEMMA StepByGoto ==
    ASSUME Sound, NEW e \in Workers, Writes,
           NEW p \in Phases, Goto(e, p), PhaseSound(e, p)
    PROVE  Progress(e)
  BY StoreGrows, GotoMoves DEF Sound, TypeOK, ViewsSound, Writes, Progress

LEMMA StepByReturn ==
    ASSUME Sound, NEW e \in Workers, Writes, Return(e)
    PROVE  Progress(e)
  BY ReturnMoves DEF Sound, TypeOK, Progress

(* The writes of the executor that ask nothing of the row or the run. *)
LEMMA PlainWrites ==
    ASSUME StoreTypeOK
    PROVE  /\ NoWrite => StoreNext
           /\ \A s \in RunStatus \ {"completed"} : UpdateRunStatus(s) => StoreNext
           /\ \A r \in Rows, s \in StepStatus \ {"running", "completed"} :
                UpdateRunStepStatus(r, s) => StoreNext
           /\ \A s \in StoryStatus : UpdateStory(s) => StoreNext
           /\ \A s \in Stages \cup {0} : UpdateStoryCurrentStage(s) => StoreNext
           /\ EnqueueExecuteRun => StoreNext
           /\ TakeJob => StoreNext
  BY DEF StoreNext

(* ... and those that do. *)
LEMMA GuardedWrites ==
    ASSUME NEW r \in Rows, Found(r)
    PROVE  /\ \A s \in StepStatus : UpdateRunStepStatus(r, s) => StoreNext
           /\ \A g \in {"approval", "probe_halt"} : CreateHITLRequest(r, g) => StoreNext
  BY DEF StoreNext

(* A failed access, alone or instead of a write, is a store step. *)
LEMMA FailsWrites ==
    ASSUME Sound, NEW e \in Workers, Fails(e)
    PROVE  Writes
  BY FailsWritesNothing, PlainWrites DEF Sound, TypeOK, StoreTypeOK, Writes

LEMMA FaultWrites ==
    ASSUME Sound, Fault
    PROVE  Writes
  BY PlainWrites DEF Fault, Spend, Sound, TypeOK, StoreTypeOK, Writes

(* Taking and starting the run. *)
LEMMA TakingProgress ==
    ASSUME Sound, NEW e \in Workers,
           \/ Take(e) \/ RefuseByBreaker(e) \/ Load(e) \/ Start(e)
           \/ StoryRunning(e) \/ HardError(e)
    PROVE  Progress(e)
<1> USE DEF Sound, TypeOK, ViewsSound
<1>t. /\ StoreTypeOK /\ ExecTypeOK /\ StoreSound /\ WorkerSound(e)
      /\ PhaseSound(e, pc[e]) /\ budget \in Nat
  BY DEF StoreTypeOK, WorkerSound
<1>1. CASE Take(e)
  <2>1. Writes
    BY <1>1, <1>t, PlainWrites DEF Take, Writes
  <2>2. PhaseSound(e, "idle") /\ PhaseSound(e, "load")
    BY <1>1, <1>t DEF Take, PhaseSound, InStep, AtEnd, Cancelling, Gating
  <2> QED
    BY <1>1, <2>1, <2>2, StepByGoto DEF Take, Phases
<1>2. CASE RefuseByBreaker(e)
  <2>1. Writes
    BY <1>2, <1>t, PlainWrites DEF RefuseByBreaker, Writes, RunStatus, Spend
  <2> QED
    BY <1>2, <2>1, StepByReturn DEF RefuseByBreaker
<1>3. CASE Load(e)
  <2>1. Writes /\ UNCHANGED <<stepOrder, stepStatus, done, go>>
    BY <1>3, <1>t, PlainWrites DEF Load, Writes, Alive, NoWrite, storeVars
  <2>2. /\ pc'[e] = "start"
        /\ todo'[e] = {r \in Rows : Exists(r) /\ stepStatus[r] # "completed"}
        /\ UNCHANGED <<cur, stage, prev, local>>
    BY <1>3, <1>t DEF Load, ExecTypeOK
  <2>3. ExecTypeOK' /\ \A f \in Workers : f # e => Keeps(f)
    BY <1>3, <1>t DEF Load, ExecTypeOK, Keeps, Phases
  <2>4. Covered(e)'
    BY <2>1, <2>2, <1>t, StepsAssumption DEF Covered, StoreSound, Exists, Orders, Rows
  <2>5. cur'[e] = 0
    BY <1>3, <2>2, <1>t DEF Load, PhaseSound
  <2>6. PhaseSound(e, pc[e])'
    BY <2>2, <2>4, <2>5 DEF PhaseSound, InStep, AtEnd, Cancelling, Gating
  <2>7. WorkerSound(e)'
    BY <2>1, <2>2, <2>5, <2>6, <1>t DEF WorkerSound, Found, Exists, Reached
  <2> QED
    BY <2>1, <2>3, <2>7 DEF Progress, WorkerMoves
<1>4. CASE Start(e)
  <2>1. Writes /\ UNCHANGED <<stepOrder, done, go>>
    BY <1>4, <1>t, PlainWrites DEF Start, Writes, Alive, RunStatus, UpdateRunStatus
  <2>2. /\ pc[e] = "start" /\ pc'[e] = "story_running" /\ local'[e] = meta
        /\ UNCHANGED <<todo, cur, stage, prev>>
    BY <1>4, <1>t DEF Start, ExecTypeOK
  <2>3. ExecTypeOK' /\ \A f \in Workers : f # e => Keeps(f)
    BY <1>4, <1>t DEF Start, ExecTypeOK, Keeps, Phases, StoreTypeOK
  <2>4. PhaseSound(e, pc[e])'
    BY <2>1, <2>2, <1>t DEF PhaseSound, InStep, AtEnd, Cancelling, Gating, Covered
  <2>5. WorkerSound(e)'
    BY <2>1, <2>2, <2>4, <1>t DEF WorkerSound, StoreSound, Found, Exists, Reached
  <2> QED
    BY <2>1, <2>3, <2>5 DEF Progress, WorkerMoves
<1>5. CASE StoryRunning(e)
  <2>1. Writes
    BY <1>5, <1>t, PlainWrites, FailsWrites DEF StoryRunning, Try, Alive, Writes, StoryStatus
  <2>2. PhaseSound(e, "loop")
    BY <1>5, <1>t DEF StoryRunning, PhaseSound, InStep, AtEnd, Cancelling, Gating
  <2> QED
    BY <1>5, <2>1, <2>2, StepByGoto DEF StoryRunning, Phases
<1>6. CASE HardError(e)
  BY <1>6, FailsWrites, StepByReturn DEF HardError
<1> QED
  BY <1>1, <1>2, <1>3, <1>4, <1>5, <1>6

(* Visiting the next step in order. *)
LEMMA VisitProgress ==
    ASSUME Sound, NEW e \in Workers, Writes, pc[e] = "loop",
           NEW r \in Front(todo[e]), NEW p \in Phases, Visit(e, r, p),
           p \in {"step", "exit", "cancel_step"},
           p = "step" => StageOf[stepOrder[r]] = stage[e]
    PROVE  Progress(e)
<1> USE DEF Sound, TypeOK, ViewsSound
<1>t. /\ StoreTypeOK /\ ExecTypeOK /\ StoreSound /\ WorkerSound(e)
      /\ PhaseSound(e, pc[e])
  BY DEF WorkerSound
<1>g. Grows
  BY <1>t, StoreGrows DEF Writes
<1>1. r \in Rows /\ r \in todo[e] /\ Exists(r) /\ cur[e] = 0 /\ Covered(e)
  BY <1>t DEF Front, ExecTypeOK, WorkerSound, PhaseSound
<1>2. Found(r)
  <2>1. SUFFICES ASSUME NEW k \in 1..(stepOrder[r] - 1), k \notin done
                 PROVE  FALSE
    BY <1>1 DEF Found, Reached
  <2>2. k \in Orders
    BY <1>1, <1>t, StepsAssumption DEF StoreTypeOK, Orders
  <2>3. k \in todo[e]
    BY <2>1, <2>2, <1>1, StepsAssumption DEF Covered, Orders
  <2>4. stepOrder[r] <= k
    BY <2>2, <2>3, <1>t DEF Front, StoreSound
  <2> QED
    BY <2>4, <1>1, <1>t, StepsAssumption DEF StoreTypeOK
<1>3. /\ pc'[e] = p /\ todo'[e] = todo[e] \ {r} /\ cur'[e] = r
      /\ UNCHANGED <<stage, prev, local>>
  BY <1>t DEF Visit, ExecTypeOK
<1>4. ExecTypeOK' /\ \A f \in Workers : f # e => Keeps(f)
  BY <1>t, <1>1 DEF Visit, ExecTypeOK, Keeps
<1>5. r # 0
  BY <1>1, StepsAssumption DEF Rows
<1>6. Covered(e)'
  BY <1>1, <1>3, <1>g, StepsAssumption DEF Covered, Grows, Orders
<1>7. CurStage(e)' = StageOf[stepOrder[r]]
  BY <1>1, <1>3, <1>g DEF CurStage, Grows, Exists
<1>8. PhaseSound(e, pc[e])'
  BY <1>3, <1>5, <1>6, <1>7 DEF PhaseSound, InStep, AtEnd, Cancelling, Gating
<1>9. Found(cur[e])' /\ (prev'[e] # 0 => Found(prev[e])')
  BY <1>2, <1>3, <1>t, <1>1, <1>g, FoundStays DEF WorkerSound, ExecTypeOK, Found, Exists
<1>10. \A x \in todo'[e] : Exists(x)'
  BY <1>3, <1>t, <1>g DEF WorkerSound, Exists, ExecTypeOK, Grows
<1>11. WorkerSound(e)'
  BY <1>3, <1>8, <1>9, <1>10, <1>t, <1>g DEF WorkerSound, Grows
<1> QED
  BY <1>4, <1>11 DEF Progress, WorkerMoves

LEMMA PollingProgress ==
    ASSUME Sound, NEW e \in Workers,
           PollPaused(e) \/ PollNext(e) \/ PollExpired(e) \/ PollEnd(e)
    PROVE  Progress(e)
<1> USE DEF Sound, TypeOK, ViewsSound
<1>t. StoreTypeOK /\ PhaseSound(e, pc[e]) /\ budget \in Nat
  BY DEF StoreTypeOK, WorkerSound
<1>1. CASE PollPaused(e)
  <2>1. Writes
    BY <1>1, <1>t, PlainWrites DEF PollPaused, Writes, Alive
  <2> QED
    BY <1>1, <2>1, StepByReturn DEF PollPaused
<1>2. CASE PollNext(e)
  <2>1. Writes
    BY <1>2, <1>t, PlainWrites, FaultWrites DEF PollNext, Writes
  <2>2. PICK r \in Front(todo[e]) :
          Visit(e, r, IF StageOf[stepOrder[r]] = stage[e] THEN "step" ELSE "exit")
    BY <1>2 DEF PollNext
  <2>3. pc[e] = "loop" /\ "step" \in Phases /\ "exit" \in Phases
    BY <1>2 DEF PollNext, Phases, InStep, AtBoundary
  <2>4. CASE StageOf[stepOrder[r]] = stage[e]
    BY <2>1, <2>2, <2>3, <2>4, VisitProgress
  <2>5. CASE StageOf[stepOrder[r]] # stage[e]
    BY <2>1, <2>2, <2>3, <2>5, VisitProgress
  <2> QED
    BY <2>4, <2>5
<1>3. CASE PollExpired(e)
  <2>1. Writes
    BY <1>3, <1>t, PlainWrites DEF PollExpired, Writes
  <2>2. pc[e] = "loop" /\ "cancel_step" \in Phases
    BY <1>3 DEF PollExpired, Phases, Cancelling
  <2> QED
    BY <1>3, <2>1, <2>2, VisitProgress DEF PollExpired
<1>4. CASE PollEnd(e)
  <2>1. Writes
    BY <1>4, <1>t, PlainWrites DEF PollEnd, Writes
  <2>2. PhaseSound(e, "exit") /\ "exit" \in Phases
    BY <1>4, <1>t DEF PollEnd, PhaseSound, InStep, AtEnd, Cancelling, Gating, Phases, AtBoundary
  <2> QED
    BY <1>4, <2>1, <2>2, StepByGoto DEF PollEnd
<1> QED
  BY <1>1, <1>2, <1>3, <1>4

(* Leaving a stage. *)
LEMMA GatingProgress ==
    ASSUME Sound, NEW e \in Workers,
           \/ GatePass(e) \/ GateHeld(e) \/ GateMissing(e)
           \/ GateCreate(e) \/ GateAnchor(e) \/ GateRun(e)
    PROVE  Progress(e)
<1> USE DEF Sound, TypeOK, ViewsSound
<1>t. /\ StoreTypeOK /\ ExecTypeOK /\ WorkerSound(e) /\ PhaseSound(e, pc[e])
      /\ budget \in Nat
  BY DEF StoreTypeOK, WorkerSound
<1>a. pc[e] \in Gating => prev[e] \in Rows /\ Found(prev[e])
  BY <1>t DEF PhaseSound, WorkerSound, ExecTypeOK
<1>1. CASE GatePass(e)
  <2>1. Writes
    BY <1>1, <1>t, PlainWrites DEF GatePass, Writes
  <2>2. PhaseSound(e, AfterGate(e)) /\ AfterGate(e) \in Phases
    BY <1>1, <1>t DEF GatePass, AfterGate, PhaseSound, InStep, AtEnd, Cancelling,
       Gating, Phases, AtBoundary
  <2> QED
    BY <1>1, <2>1, <2>2, StepByGoto DEF GatePass
<1>2. CASE GateHeld(e)
  <2>1. Writes
    BY <1>2, <1>t, PlainWrites DEF GateHeld, Writes
  <2> QED
    BY <1>2, <2>1, StepByReturn DEF GateHeld
<1>3. CASE GateMissing(e)
  <2>1. Writes
    BY <1>3, <1>t, PlainWrites, FailsWrites DEF GateMissing, Writes
  <2>2. PhaseSound(e, "gate_create") /\ "gate_create" \in Phases
    BY <1>3, <1>t DEF GateMissing, NeedsGate, PhaseSound, InStep, AtEnd, Cancelling,
       Gating, Phases, AtBoundary
  <2> QED
    BY <1>3, <2>1, <2>2, StepByGoto DEF GateMissing
<1>4. CASE GateCreate(e)
  <2>1. Writes
    BY <1>4, <1>t, <1>a, GuardedWrites DEF GateCreate, Writes, Alive, Gating
  <2>2. PhaseSound(e, "gate_step") /\ "gate_step" \in Phases
    BY <1>4, <1>t DEF GateCreate, PhaseSound, InStep, AtEnd, Cancelling,
       Gating, Phases, AtBoundary
  <2> QED
    BY <1>4, <2>1, <2>2, StepByGoto DEF GateCreate
<1>5. CASE GateAnchor(e)
  <2>1. Writes
    BY <1>5, <1>t, <1>a, GuardedWrites DEF GateAnchor, Writes, Alive, Gating, StepStatus
  <2>2. PhaseSound(e, "gate_run") /\ "gate_run" \in Phases
    BY <1>5, <1>t DEF GateAnchor, PhaseSound, InStep, AtEnd, Cancelling,
       Gating, Phases, AtBoundary
  <2> QED
    BY <1>5, <2>1, <2>2, StepByGoto DEF GateAnchor
<1>6. CASE GateRun(e)
  <2>1. Writes
    BY <1>6, <1>t, PlainWrites DEF GateRun, Writes, Alive, RunStatus
  <2> QED
    BY <1>6, <2>1, StepByReturn DEF GateRun
<1> QED
  BY <1>1, <1>2, <1>3, <1>4, <1>5, <1>6

(* Entering a stage, or parking before it. *)
LEMMA EnteringProgress ==
    ASSUME Sound, NEW e \in Workers,
           Enter(e) \/ ParkMeta(e) \/ ParkRun(e) \/ ParkStory(e)
    PROVE  Progress(e)
<1> USE DEF Sound, TypeOK, ViewsSound
<1>t. /\ StoreTypeOK /\ ExecTypeOK /\ WorkerSound(e) /\ PhaseSound(e, pc[e])
      /\ budget \in Nat
  BY DEF StoreTypeOK, WorkerSound
<1>s. pc[e] \in {"enter", "park_run", "park_story"} => CurStage(e) \in Stages
  BY <1>t, StagesAssumption, StepsAssumption
     DEF PhaseSound, WorkerSound, ExecTypeOK, CurStage, Found, Exists, StoreTypeOK, Orders
<1>1. CASE Enter(e)
  <2>1. Writes /\ UNCHANGED <<stepOrder, done, go>>
    BY <1>1, <1>t, <1>s, PlainWrites, FailsWrites, FailsWritesNothing
       DEF Enter, Try, Alive, Writes, UpdateStoryCurrentStage, NoWrite, storeVars
  <2>2. /\ pc[e] = "enter" /\ pc'[e] = "step" /\ stage'[e] = CurStage(e)
        /\ UNCHANGED <<todo, cur, prev, local>>
    BY <1>1, <1>t DEF Enter, ExecTypeOK
  <2>3. ExecTypeOK' /\ \A f \in Workers : f # e => Keeps(f)
    BY <1>1, <1>t, <1>s DEF Enter, ExecTypeOK, Keeps, Phases, InStep
  <2>4. CurStage(e)' = CurStage(e)
    BY <2>1, <2>2 DEF CurStage
  <2>5. PhaseSound(e, pc[e])'
    BY <2>1, <2>2, <2>4, <1>t DEF PhaseSound, InStep, AtEnd, Cancelling, Gating, Covered
  <2>6. Transition[CurStage(e)] = "manual" => CurStage(e) \in go
    BY <1>1, <1>t DEF Enter, AwaitsGo, WorkerSound
  <2>7. WorkerSound(e)'
    BY <2>1, <2>2, <2>5, <2>6, <1>t DEF WorkerSound, Found, Exists, Reached
  <2> QED
    BY <2>1, <2>3, <2>7 DEF Progress, WorkerMoves
<1>2. CASE ParkMeta(e)
  <2> DEFINE m == [started |-> local[e].started, parked |-> CurStage(e)]
  <2>1. m \in Metadata /\ m.started \subseteq go
    BY <1>2, <1>t, <1>s DEF ParkMeta, WorkerSound, ExecTypeOK, Metadata
  <2>2. UpdateRunMetadata(m) => StoreNext
    BY <2>1 DEF StoreNext
  <2>3. Writes
    BY <1>2, <2>2, <1>t, FailsWrites DEF ParkMeta, Try, Alive, Writes
  <2>4. PhaseSound(e, "park_run") /\ "park_run" \in Phases
    BY <1>2, <1>t DEF ParkMeta, PhaseSound, InStep, AtEnd, Cancelling, Gating,
       Phases, AtBoundary
  <2> QED
    BY <1>2, <2>3, <2>4, StepByGoto DEF ParkMeta
<1>3. CASE ParkRun(e)
  <2>1. Writes
    BY <1>3, <1>t, PlainWrites DEF ParkRun, Writes, Alive, RunStatus
  <2>2. PhaseSound(e, "park_story") /\ "park_story" \in Phases
    BY <1>3, <1>t DEF ParkRun, PhaseSound, InStep, AtEnd, Cancelling, Gating,
       Phases, AtBoundary
  <2> QED
    BY <1>3, <2>1, <2>2, StepByGoto DEF ParkRun
<1>4. CASE ParkStory(e)
  <2>1. Writes
    BY <1>4, <1>t, <1>s, PlainWrites, FailsWrites DEF ParkStory, Try, Alive, Writes
  <2> QED
    BY <1>4, <2>1, StepByReturn DEF ParkStory
<1> QED
  BY <1>1, <1>2, <1>3, <1>4

(* Inside a step every phase makes the same demands. *)
LEMMA WithinStep ==
    ASSUME Sound, NEW e \in Workers, pc[e] \in InStep
    PROVE  /\ cur[e] \in Rows /\ Found(cur[e])
           /\ \A p \in InStep : p \in Phases /\ PhaseSound(e, p)
<1>1. ExecTypeOK /\ WorkerSound(e) /\ PhaseSound(e, pc[e])
  BY DEF Sound, TypeOK, ViewsSound, WorkerSound
<1> QED
  BY <1>1 DEF ExecTypeOK, WorkerSound, PhaseSound, InStep, AtEnd, Cancelling, Gating, Phases

(* Executing a step. *)
LEMMA SteppingProgress ==
    ASSUME Sound, NEW e \in Workers,
           \/ StartStep(e) \/ ActSucceeds(e) \/ ActFails(e)
           \/ ActRequest(e) \/ ActWait(e) \/ ActPause(e)
           \/ PersistMetadata(e) \/ RefetchSuspended(e) \/ Refetch(e)
           \/ CompleteFails(e)
    PROVE  Progress(e)
<1>t. /\ StoreTypeOK /\ ExecTypeOK /\ WorkerSound(e) /\ budget \in Nat
  BY DEF Sound, TypeOK, ViewsSound, StoreTypeOK, WorkerSound
<1>i. /\ pc[e] \in InStep
      /\ cur[e] \in Rows /\ Found(cur[e])
      /\ \A p \in InStep : p \in Phases /\ PhaseSound(e, p)
  BY WithinStep DEF StartStep, ActSucceeds, ActFails, ActRequest, ActWait,
     ActPause, PersistMetadata, RefetchSuspended, Refetch, CompleteFails, InStep
<1>1. CASE StartStep(e)
  <2>1. Writes
    BY <1>1, <1>t, <1>i, GuardedWrites, FailsWrites DEF StartStep, Alive, Writes, StepStatus
  <2> QED
    BY <1>1, <2>1, <1>i, StepByGoto DEF StartStep, InStep
<1>2. CASE ActSucceeds(e)
  <2>1. Writes
    BY <1>2, <1>t, PlainWrites DEF ActSucceeds, Writes
  <2> QED
    BY <1>2, <2>1, <1>i, StepByGoto DEF ActSucceeds, InStep
<1>3. CASE ActFails(e)
  <2>1. Writes
    BY <1>3, <1>t, PlainWrites, FailsWrites DEF ActFails, Writes
  <2> QED
    BY <1>3, <2>1, <1>i, StepByGoto DEF ActFails, InStep
<1>4. CASE ActRequest(e)
  <2>1. Writes
    BY <1>4, <1>t, <1>i, GuardedWrites DEF ActRequest, Alive, Writes
  <2> QED
    BY <1>4, <2>1, <1>i, StepByGoto DEF ActRequest, InStep
<1>5. CASE ActWait(e)
  <2>1. Writes
    BY <1>5, <1>t, <1>i, GuardedWrites DEF ActWait, Alive, Writes, StepStatus
  <2> QED
    BY <1>5, <2>1, <1>i, StepByGoto DEF ActWait, InStep
<1>6. CASE ActPause(e)
  <2>1. Writes
    BY <1>6, <1>t, PlainWrites DEF ActPause, Alive, Writes, RunStatus
  <2> QED
    BY <1>6, <2>1, <1>i, StepByGoto DEF ActPause, InStep
<1>7. CASE PersistMetadata(e)
  <2>1. local[e] \in Metadata /\ local[e].started \subseteq go
    BY <1>t DEF ExecTypeOK, WorkerSound
  <2>2. UpdateRunMetadata(local[e]) => StoreNext
    BY <2>1 DEF StoreNext
  <2>3. Writes
    BY <1>7, <2>2, <1>t, FailsWrites DEF PersistMetadata, Try, Alive, Writes
  <2> QED
    BY <1>7, <2>3, <1>i, StepByGoto DEF PersistMetadata, InStep
<1>8. CASE RefetchSuspended(e)
  <2>1. Writes
    BY <1>8, <1>t, PlainWrites DEF RefetchSuspended, Alive, Writes
  <2> QED
    BY <1>8, <2>1, StepByReturn DEF RefetchSuspended
<1>9. CASE Refetch(e)
  <2>1. Writes
    BY <1>9, <1>t, PlainWrites, FailsWrites DEF Refetch, Alive, Writes
  <2> QED
    BY <1>9, <2>1, <1>i, StepByGoto DEF Refetch, InStep
<1>10. CASE CompleteFails(e)
  BY <1>10, <1>i, FailsWrites, StepByGoto DEF CompleteFails, InStep
<1> QED
  BY <1>1, <1>2, <1>3, <1>4, <1>5, <1>6, <1>7, <1>8, <1>9, <1>10

(* Completing a step: the step leaves the worker's view and enters done. *)
LEMMA CompletingProgress ==
    ASSUME Sound, NEW e \in Workers, CompleteStep(e)
    PROVE  Progress(e)
<1>t. /\ StoreTypeOK /\ ExecTypeOK /\ StoreSound /\ WorkerSound(e)
      /\ PhaseSound(e, pc[e]) /\ budget \in Nat
  BY DEF Sound, TypeOK, ViewsSound, StoreTypeOK, WorkerSound
<1>i. cur[e] \in Rows /\ Found(cur[e]) /\ Covered(e)
  BY <1>t, WithinStep DEF CompleteStep, InStep, PhaseSound
<1>1. Writes
  BY <1>t, <1>i, GuardedWrites DEF CompleteStep, Alive, Writes, StepStatus
<1>g. Grows
  BY <1>1, <1>t, StoreGrows DEF Writes
<1>2. /\ pc'[e] = "loop" /\ cur'[e] = 0 /\ prev'[e] = cur[e]
      /\ UNCHANGED <<todo, stage, local>>
      /\ done' = done \cup {stepOrder[cur[e]]}
  BY <1>t DEF CompleteStep, ExecTypeOK, UpdateRunStepStatus
<1>3. ExecTypeOK' /\ \A f \in Workers : f # e => Keeps(f)
  BY <1>t DEF CompleteStep, ExecTypeOK, Keeps, Phases
<1>4. Covered(e)'
  BY <1>2, <1>i, <1>t DEF Covered, StoreSound
<1>5. PhaseSound(e, pc[e])'
  BY <1>2, <1>4 DEF PhaseSound, InStep, AtEnd, Cancelling, Gating
<1>6. Found(prev[e])'
  BY <1>2, <1>i, <1>t, <1>g, FoundStays DEF Found, Exists
<1>7. \A x \in todo'[e] : Exists(x)'
  BY <1>2, <1>t, <1>g DEF WorkerSound, Exists, ExecTypeOK, Grows
<1>8. WorkerSound(e)'
  BY <1>2, <1>5, <1>6, <1>7, <1>t, <1>g DEF WorkerSound, Grows
<1> QED
  BY <1>1, <1>3, <1>8 DEF Progress, WorkerMoves

(* Failing, cancelling and finishing; the run is completed only when the   *)
(* worker has no step left to visit, which is when all of them are done.   *)
LEMMA EndingProgress ==
    ASSUME Sound, NEW e \in Workers,
           \/ HandleFailureStep(e) \/ HandleFailureRun(e) \/ StoryFailed(e)
           \/ HandleCancellationStep(e) \/ HandleCancellationRun(e)
           \/ StoryBacklog(e)
           \/ ClearStage(e) \/ Finish(e) \/ StoryDone(e)
    PROVE  Progress(e)
<1>t. /\ StoreTypeOK /\ ExecTypeOK /\ WorkerSound(e) /\ PhaseSound(e, pc[e])
      /\ budget \in Nat
  BY DEF Sound, TypeOK, ViewsSound, StoreTypeOK, WorkerSound
<1>1. CASE HandleFailureStep(e)
  <2>1. Writes
    BY <1>1, <1>t, WithinStep, GuardedWrites, FailsWrites
       DEF HandleFailureStep, Try, Alive, Writes, StepStatus, InStep
  <2> QED
    BY <1>1, <2>1, WithinStep, StepByGoto DEF HandleFailureStep, InStep
<1>2. CASE HandleFailureRun(e)
  <2>1. Writes
    BY <1>2, <1>t, PlainWrites, FailsWrites DEF HandleFailureRun, Try, Alive, Writes, RunStatus
  <2> QED
    BY <1>2, <2>1, WithinStep, StepByGoto DEF HandleFailureRun, InStep
<1>3. CASE StoryFailed(e)
  <2>1. Writes
    BY <1>3, <1>t, PlainWrites, FailsWrites DEF StoryFailed, Try, Alive, Writes, StoryStatus
  <2> QED
    BY <1>3, <2>1, StepByReturn DEF StoryFailed
<1>4. CASE HandleCancellationStep(e)
  <2>1. cur[e] \in Rows
    BY <1>4, <1>t DEF HandleCancellationStep, PhaseSound, Cancelling, ExecTypeOK
  <2>2. Writes
    BY <1>4, <2>1, <1>t, PlainWrites, FaultWrites
       DEF HandleCancellationStep, BestEffort, Writes, StepStatus
  <2>3. PhaseSound(e, "cancel_run") /\ "cancel_run" \in Phases
    BY <1>4, <1>t DEF HandleCancellationStep, PhaseSound, InStep, AtEnd, Cancelling,
       Gating, Phases
  <2> QED
    BY <1>4, <2>2, <2>3, StepByGoto DEF HandleCancellationStep
<1>5. CASE HandleCancellationRun(e)
  <2>1. Writes
    BY <1>5, <1>t, PlainWrites, FaultWrites
       DEF HandleCancellationRun, BestEffort, Writes, RunStatus
  <2>2. PhaseSound(e, "story_backlog") /\ "story_backlog" \in Phases
    BY <1>5, <1>t DEF HandleCancellationRun, PhaseSound, InStep, AtEnd, Cancelling,
       Gating, Phases
  <2> QED
    BY <1>5, <2>1, <2>2, StepByGoto DEF HandleCancellationRun
<1>6. CASE StoryBacklog(e)
  <2>1. Writes
    BY <1>6, <1>t, PlainWrites, FaultWrites DEF StoryBacklog, BestEffort, Writes, StoryStatus
  <2> QED
    BY <1>6, <2>1, StepByReturn DEF StoryBacklog
<1>7. CASE ClearStage(e)
  <2>1. Writes
    BY <1>7, <1>t, PlainWrites, FailsWrites DEF ClearStage, Try, Alive, Writes
  <2>2. PhaseSound(e, "finish") /\ "finish" \in Phases
    BY <1>7, <1>t DEF ClearStage, PhaseSound, InStep, AtEnd, Cancelling, Gating, Phases
  <2> QED
    BY <1>7, <2>1, <2>2, StepByGoto DEF ClearStage
<1>8. CASE Finish(e)
  <2>1. done = Orders
    <3>1. cur[e] = 0 /\ todo[e] = {} /\ Covered(e)
      BY <1>8, <1>t DEF Finish, PhaseSound, AtEnd
    <3>2. \A k \in Orders : k # 0
      BY StepsAssumption DEF Orders
    <3>3. Orders \subseteq done
      BY <3>1, <3>2 DEF Covered
    <3> QED
      BY <3>3, <1>t DEF StoreTypeOK
  <2>2. Writes
    BY <1>8, <2>1, <1>t DEF Finish, Alive, Writes, RunStatus, StoreNext
  <2>3. PhaseSound(e, "story_done") /\ "story_done" \in Phases
    BY <1>8, <1>t DEF Finish, PhaseSound, InStep, AtEnd, Cancelling, Gating, Phases
  <2> QED
    BY <1>8, <2>2, <2>3, StepByGoto DEF Finish
<1>9. CASE StoryDone(e)
  <2>1. Writes
    BY <1>9, <1>t, PlainWrites, FailsWrites DEF StoryDone, Try, Alive, Writes, StoryStatus
  <2> QED
    BY <1>9, <2>1, StepByReturn DEF StoryDone
<1> QED
  BY <1>1, <1>2, <1>3, <1>4, <1>5, <1>6, <1>7, <1>8, <1>9

(* The end of the context is noticed by nobody yet. *)
LEMMA ExpireProgress ==
    ASSUME Sound, NEW e \in Workers, Expire(e)
    PROVE  Progress(e)
<1>t. /\ StoreTypeOK /\ ExecTypeOK /\ WorkerSound(e) /\ budget \in Nat
  BY DEF Sound, TypeOK, ViewsSound, StoreTypeOK
<1>1. Writes
  BY <1>t, PlainWrites DEF Expire, Spend, Writes
<1>2. ExecTypeOK' /\ \A f \in Workers : Keeps(f)
  BY <1>t DEF Expire, ExecTypeOK, Keeps
<1>3. WorkerSound(e)'
  BY <1>t, <1>1, <1>2, StoreGrows, WorkerStays DEF Writes
<1> QED
  BY <1>1, <1>2, <1>3 DEF Progress, WorkerMoves

(* Every step of a worker. *)
LEMMA WorkerProgress ==
    ASSUME Sound, NEW e \in Workers, ExecuteRun(e) \/ Expire(e)
    PROVE  Progress(e)
  BY TakingProgress, PollingProgress, GatingProgress, EnteringProgress,
     SteppingProgress, CompletingProgress, EndingProgress, ExpireProgress
     DEF ExecuteRun

-----------------------------------------------------------------------------
(* The steps of a session.                                                 *)

(* What a call at step s may rely on about its argument a. *)
Demands(s, a) ==
    /\ s \in OnRequest => a \in Reqs /\ hitl[a].status # "absent"
    /\ s \in OnRow => a \in Rows /\ Exists(a)
    /\ s \in OnFound => Reached(a)

SessionMoves(c) == /\ SessionTypeOK'
                   /\ \A d \in Clients : d # c => KeepsSession(d)
                   /\ SessionSound(c)'

Advance(c) == Writes /\ SessionMoves(c)

LEMMA DemandsStay ==
    ASSUME StoreTypeOK, Grows, NEW c \in Clients, NEW s, NEW a,
           op'[c] = s, arg'[c] = a, Demands(s, a)
    PROVE  SessionSound(c)'
<1>1. a \in Rows /\ Exists(a) => Exists(arg[c])'
  BY DEF Exists, Grows
<1>2. a \in Rows /\ Exists(a) /\ Reached(a) => Reached(arg[c])'
  BY DEF Exists, Reached, Grows
<1>3. OnFound \subseteq OnRow
  BY DEF OnFound, OnRow
<1> QED
  BY <1>1, <1>2, <1>3 DEF Demands, SessionSound, Grows

LEMMA StepByThen ==
    ASSUME Sound, NEW c \in Clients, Writes,
           NEW s \in SessionStep, Then(c, s), Demands(s, arg[c])
    PROVE  Advance(c)
<1>1. StoreTypeOK /\ SessionTypeOK /\ Grows
  BY StoreGrows DEF Sound, TypeOK, Writes
<1>2. SessionTypeOK' /\ \A d \in Clients : d # c => KeepsSession(d)
  BY <1>1 DEF Then, SessionTypeOK, KeepsSession
<1>3. op'[c] = s /\ arg'[c] = arg[c]
  BY <1>1 DEF Then, SessionTypeOK
<1> QED
  BY <1>1, <1>2, <1>3, DemandsStay DEF Advance, SessionMoves

LEMMA StepByThenOn ==
    ASSUME Sound, NEW c \in Clients, Writes,
           NEW s \in SessionStep, NEW a \in Nat, ThenOn(c, s, a), Demands(s, a)
    PROVE  Advance(c)
<1>1. StoreTypeOK /\ SessionTypeOK /\ Grows
  BY StoreGrows DEF Sound, TypeOK, Writes
<1>2. SessionTypeOK' /\ \A d \in Clients : d # c => KeepsSession(d)
  BY <1>1 DEF ThenOn, SessionTypeOK, KeepsSession
<1>3. op'[c] = s /\ arg'[c] = a
  BY <1>1 DEF ThenOn, SessionTypeOK
<1> QED
  BY <1>1, <1>2, <1>3, DemandsStay DEF Advance, SessionMoves

LEMMA StepByBegin ==
    ASSUME Sound, NEW c \in Clients, NEW o,
           NEW s \in SessionStep, NEW a \in Nat, Begin(c, o, s, a), Demands(s, a)
    PROVE  Advance(c)
<1>1. StoreTypeOK /\ SessionTypeOK /\ budget \in Nat
  BY DEF Sound, TypeOK, StoreTypeOK
<1>2. Writes /\ Grows
  BY <1>1, PlainWrites, StoreGrows DEF Begin, Spend, Writes
<1>3. SessionTypeOK' /\ \A d \in Clients : d # c => KeepsSession(d)
  BY <1>1 DEF Begin, SessionTypeOK, KeepsSession
<1>4. op'[c] = s /\ arg'[c] = a
  BY <1>1 DEF Begin, SessionTypeOK
<1> QED
  BY <1>1, <1>2, <1>3, <1>4, DemandsStay DEF Advance, SessionMoves

LEMMA StepByEnd ==
    ASSUME Sound, NEW c \in Clients, Writes, End(c)
    PROVE  Advance(c)
<1>1. StoreTypeOK /\ SessionTypeOK /\ Grows
  BY StoreGrows DEF Sound, TypeOK, Writes
<1>2. SessionTypeOK' /\ \A d \in Clients : d # c => KeepsSession(d)
  BY <1>1 DEF End, SessionTypeOK, KeepsSession, SessionStep, RunStatus, Blank, Metadata
<1>3. op'[c] = "idle" /\ arg'[c] = 0
  BY <1>1 DEF End, SessionTypeOK
<1>4. Demands("idle", 0)
  BY DEF Demands, OnRequest, OnRow, OnFound
<1> QED
  BY <1>1, <1>2, <1>3, <1>4, DemandsStay DEF Advance, SessionMoves

LEMMA StepByRead ==
    ASSUME Sound, NEW c \in Clients,
           NEW s \in SessionStep, ReadRun(c, s), Demands(s, arg[c])
    PROVE  Advance(c)
<1>1. StoreTypeOK /\ SessionTypeOK /\ budget \in Nat
  BY DEF Sound, TypeOK, StoreTypeOK
<1>2. Writes /\ Grows
  BY <1>1, PlainWrites, StoreGrows DEF ReadRun, Writes
<1>3. SessionTypeOK' /\ \A d \in Clients : d # c => KeepsSession(d)
  BY <1>1 DEF ReadRun, SessionTypeOK, KeepsSession, StoreTypeOK
<1>4. op'[c] = s /\ arg'[c] = arg[c]
  BY <1>1 DEF ReadRun, SessionTypeOK
<1> QED
  BY <1>1, <1>2, <1>3, <1>4, DemandsStay DEF Advance, SessionMoves

(* Steps that work on nothing in particular make no demands. *)
LEMMA NoDemands ==
    ASSUME NEW s \in {"idle", "set_paused", "set_running", "enqueue", "start_meta",
                      "cancel_list", "cancel_steps", "cancel_story",
                      "resume_read", "hitl_running", "fail_run"},
           NEW a
    PROVE  s \in SessionStep /\ Demands(s, a)
  BY DEF Demands, OnRequest, OnRow, OnFound, SessionStep

(* The steps that several handlers share. *)
LEMMA SharedAdvance ==
    ASSUME Sound, NEW c \in Clients, SharedStep(c)
    PROVE  Advance(c)
<1>t. /\ StoreTypeOK /\ SessionTypeOK /\ SessionSound(c) /\ budget \in Nat
  BY DEF Sound, TypeOK, ViewsSound, StoreTypeOK
<1>1. CASE SetPaused(c)
  <2>1. Writes
    BY <1>1, <1>t, PlainWrites, FaultWrites DEF SetPaused, BestEffort, Writes, RunStatus
  <2> QED
    BY <1>1, <2>1, StepByEnd DEF SetPaused
<1>2. CASE SetRunning(c)
  <2>1. CASE UpdateRunStatus("running") /\ UNCHANGED budget /\ Then(c, "enqueue")
    <3>1. Writes
      BY <2>1, <1>t, PlainWrites DEF Writes, RunStatus
    <3> QED
      BY <2>1, <3>1, NoDemands, StepByThen
  <2>2. CASE Fault /\ End(c)
    BY <2>2, FaultWrites, StepByEnd
  <2> QED
    BY <1>2, <2>1, <2>2 DEF SetRunning
<1>3. CASE Enqueue(c)
  <2>1. Writes
    BY <1>3, <1>t, PlainWrites, FaultWrites DEF Enqueue, BestEffort, Writes
  <2> QED
    BY <1>3, <2>1, StepByEnd DEF Enqueue
<1>4. CASE FailStep(c)
  <2>1. arg[c] \in Rows
    BY <1>4, <1>t DEF FailStep, SessionSound, OnRow
  <2>2. Writes
    BY <1>4, <2>1, <1>t, PlainWrites, FaultWrites DEF FailStep, BestEffort, Writes, StepStatus
  <2> QED
    BY <1>4, <2>2, NoDemands, StepByThen DEF FailStep
<1>5. CASE FailRun(c)
  <2>1. Writes
    BY <1>5, <1>t, PlainWrites, FaultWrites DEF FailRun, BestEffort, Writes, RunStatus
  <2> QED
    BY <1>5, <2>1, StepByEnd DEF FailRun
<1> QED
  BY <1>1, <1>2, <1>3, <1>4, <1>5 DEF SharedStep

(* The run API. *)
LEMMA RunServiceAdvance ==
    ASSUME Sound, NEW c \in Clients, RunServiceStep(c)
    PROVE  Advance(c)
<1>t. /\ StoreTypeOK /\ SessionTypeOK /\ StoreSound /\ SessionSound(c) /\ budget \in Nat
  BY DEF Sound, TypeOK, ViewsSound, StoreTypeOK
<1>1. CASE PauseRun(c)
  BY <1>1, NoDemands, StepByBegin DEF PauseRun
<1>2. CASE ResumeRun(c)
  BY <1>2, NoDemands, StepByBegin DEF ResumeRun
<1>3. CASE StartStage(c)
  <2>1. Writes /\ Grows
    BY <1>3, <1>t, PlainWrites, StoreGrows DEF StartStage, Spend, Writes
  <2>2. [started |-> meta.started \cup {meta.parked}, parked |-> 0] \in Metadata
    BY <1>3, <1>t DEF StartStage, StoreTypeOK, Metadata
  <2>3. SessionTypeOK' /\ \A d \in Clients : d # c => KeepsSession(d)
    BY <1>3, <2>2, <1>t DEF StartStage, SessionTypeOK, KeepsSession, SessionStep
  <2>4. op'[c] = "start_meta"
    BY <1>3, <1>t DEF StartStage, SessionTypeOK
  <2> QED
    BY <2>1, <2>3, <2>4, <1>t, NoDemands, DemandsStay DEF Advance, SessionMoves
<1>4. CASE StartStageMetadata(c)
  <2>1. snap[c] \in Metadata
    BY <1>t DEF SessionTypeOK
  <2>2. CASE UpdateRunMetadataGo(snap[c]) /\ UNCHANGED budget /\ Then(c, "set_running")
    <3>1. Writes
      BY <2>1, <2>2, <1>t DEF Writes, StoreNext
    <3> QED
      BY <2>2, <3>1, NoDemands, StepByThen
  <2>3. CASE Fault /\ End(c)
    BY <2>3, FaultWrites, StepByEnd
  <2> QED
    BY <1>4, <2>2, <2>3 DEF StartStageMetadata
<1>5. CASE CancelRun(c)
  BY <1>5, NoDemands, StepByBegin DEF CancelRun
<1>6. CASE CancelRunList(c)
  <2>1. Writes /\ Grows
    BY <1>6, <1>t, PlainWrites, StoreGrows DEF CancelRunList, Writes
  <2>2. SessionTypeOK' /\ \A d \in Clients : d # c => KeepsSession(d)
    BY <1>6, <1>t DEF CancelRunList, SessionTypeOK, KeepsSession, SessionStep
  <2>3. op'[c] = "cancel_steps"
    BY <1>6, <1>t DEF CancelRunList, SessionTypeOK
  <2> QED
    BY <2>1, <2>2, <2>3, <1>t, NoDemands, DemandsStay DEF Advance, SessionMoves
<1>7. CASE CancelRunStep(c)
  <2>1. PICK r \in batch[c] : CancelListed(c, r)
    BY <1>7 DEF CancelRunStep
  <2>2. CASE /\ UpdateRunStepStatus(r, "cancelled")
             /\ batch' = [batch EXCEPT ![c] = batch[c] \ {r}]
             /\ UNCHANGED <<budget, op, arg, saw, snap>>
    <3>1. r \in Rows
      BY <1>t DEF SessionTypeOK
    <3>2. Writes /\ Grows
      BY <2>2, <3>1, <1>t, PlainWrites, StoreGrows DEF Writes, StepStatus
    <3>3. SessionTypeOK' /\ \A d \in Clients : KeepsSession(d)
      BY <2>2, <1>t DEF SessionTypeOK, KeepsSession
    <3> QED
      BY <3>2, <3>3, <1>t, SessionStays DEF Advance, SessionMoves
  <2>3. CASE Fault /\ End(c)
    BY <2>3, FaultWrites, StepByEnd
  <2> QED
    BY <2>1, <2>2, <2>3 DEF CancelListed
<1>8. CASE CancelRunWrite(c)
  <2>1. CASE UpdateRunStatus("cancelled") /\ UNCHANGED budget /\ Then(c, "cancel_story")
    <3>1. Writes
      BY <2>1, <1>t, PlainWrites DEF Writes, RunStatus
    <3> QED
      BY <2>1, <3>1, NoDemands, StepByThen
  <2>2. CASE Fault /\ End(c)
    BY <2>2, FaultWrites, StepByEnd
  <2> QED
    BY <1>8, <2>1, <2>2 DEF CancelRunWrite
<1>9. CASE TransitionStoryToBacklog(c)
  <2>1. Writes
    BY <1>9, <1>t, PlainWrites, FaultWrites
       DEF TransitionStoryToBacklog, BestEffort, Writes, StoryStatus
  <2> QED
    BY <1>9, <2>1, StepByEnd DEF TransitionStoryToBacklog
<1>10. CASE RetryStep(c)
  <2>1. Writes /\ Grows
    BY <1>10, <1>t, PlainWrites, StoreGrows DEF RetryStep, Spend, Writes
  <2>2. PICK r \in Rows : Exists(r) /\ arg' = [arg EXCEPT ![c] = r]
    BY <1>10 DEF RetryStep
  <2>3. r \in Nat
    BY StepsAssumption DEF Rows
  <2>4. SessionTypeOK' /\ \A d \in Clients : d # c => KeepsSession(d)
    BY <1>10, <2>2, <2>3, <1>t
       DEF RetryStep, SessionTypeOK, KeepsSession, SessionStep, StoreTypeOK
  <2>5. op'[c] = "retry_check" /\ arg'[c] = r
    BY <1>10, <2>2, <1>t DEF RetryStep, SessionTypeOK
  <2>6. Demands("retry_check", r)
    BY <2>2 DEF Demands, OnRequest, OnRow, OnFound
  <2> QED
    BY <2>1, <2>4, <2>5, <2>6, <1>t, DemandsStay DEF Advance, SessionMoves
<1>11. CASE RetryStepCheck(c)
  <2>1. Writes
    BY <1>11, <1>t, PlainWrites DEF RetryStepCheck, Writes
  <2>2. Demands("retry_create", arg[c]) /\ "retry_create" \in SessionStep
    BY <1>11, <1>t DEF RetryStepCheck, SessionSound, Demands, OnRequest, OnRow, OnFound,
       SessionStep
  <2>3. Then(c, "retry_create") \/ End(c)
    BY <1>11 DEF RetryStepCheck
  <2> QED
    BY <2>1, <2>2, <2>3, StepByThen, StepByEnd
<1>12. CASE RetryStepCreate(c)
  <2>1. stepOrder[arg[c]] \in Orders
    BY <1>12, <1>t DEF RetryStepCreate, SessionSound, OnRow, StoreTypeOK, Exists, Orders
  <2>2. CASE /\ CreateRetryRunStep(stepOrder[arg[c]])
             /\ Then(c, IF saw[c] = "failed" THEN "set_running" ELSE "enqueue")
             /\ UNCHANGED budget
    <3>1. Writes
      BY <2>1, <2>2, <1>t DEF Writes, StoreNext
    <3>2. Then(c, "set_running") \/ Then(c, "enqueue")
      BY <2>2
    <3> QED
      BY <3>1, <3>2, NoDemands, StepByThen
  <2>3. CASE Fault /\ End(c)
    BY <2>3, FaultWrites, StepByEnd
  <2> QED
    BY <1>12, <2>2, <2>3 DEF RetryStepCreate
<1> QED
  BY <1>1, <1>2, <1>3, <1>4, <1>5, <1>6, <1>7, <1>8, <1>9, <1>10, <1>11, <1>12
     DEF RunServiceStep

(* Human decisions and the watchdog. *)
LEMMA HITLServiceAdvance ==
    ASSUME Sound, NEW c \in Clients, HITLServiceStep(c)
    PROVE  Advance(c)
<1>t. /\ StoreTypeOK /\ SessionTypeOK /\ StoreSound /\ SessionSound(c) /\ budget \in Nat
  BY DEF Sound, TypeOK, ViewsSound, StoreTypeOK
<1>n. Rows \subseteq Nat /\ Reqs \subseteq Nat
  BY StepsAssumption DEF Rows, Reqs
<1>q. \A q \in Reqs, s \in OnRequest :
        hitl[q].status # "absent" => s \in SessionStep /\ Demands(s, q)
  BY DEF Demands, OnRequest, OnRow, OnFound, SessionStep
<1>r. \A r \in Rows, s \in OnRow :
        Found(r) => s \in SessionStep /\ Demands(s, r)
  BY DEF Demands, OnRequest, OnRow, OnFound, SessionStep, Found
<1>w. ASSUME NEW s \in HITLStatus \ {"absent"}, op[c] \in OnRequest,
             UpdateHITLRequestStatus(arg[c], s), UNCHANGED budget
      PROVE  Writes
  BY <1>w, <1>t DEF SessionSound, Writes, StoreNext
<1>h. op[c] \in OnRequest => hitl[arg[c]].row \in Rows /\ Found(hitl[arg[c]].row)
  BY <1>t DEF SessionSound, StoreSound
<1>1. CASE Approve(c)
  BY <1>1, <1>n, <1>q, StepByBegin DEF Approve, Pending, OnRequest
<1>2. CASE ApproveWrite(c)
  <2>1. CASE Fault /\ End(c)
    BY <2>1, FaultWrites, StepByEnd
  <2>2. CASE /\ UpdateHITLRequestStatus(arg[c], "approved")
             /\ ThenOn(c, "complete_step", hitl[arg[c]].row)
             /\ UNCHANGED budget
    <3>1. op[c] \in OnRequest /\ "complete_step" \in OnRow
      BY <1>2 DEF ApproveWrite, OnRequest, OnRow, OnFound
    <3>2. Writes
      BY <2>2, <3>1, <1>w DEF HITLStatus
    <3> QED
      BY <2>2, <3>1, <3>2, <1>n, <1>r, <1>h, StepByThenOn
  <2> QED
    BY <1>2, <2>1, <2>2 DEF ApproveWrite
<1>3. CASE CompleteGateStep(c)
  <2>1. arg[c] \in Rows /\ Found(arg[c])
    BY <1>3, <1>t DEF CompleteGateStep, SessionSound, OnFound, OnRow, Found
  <2>2. Writes
    BY <1>3, <2>1, <1>t, GuardedWrites, FaultWrites
       DEF CompleteGateStep, BestEffort, Writes, StepStatus
  <2> QED
    BY <1>3, <2>2, NoDemands, StepByThen DEF CompleteGateStep
<1>4. CASE ResumeRead(c)
  BY <1>4, NoDemands, StepByRead DEF ResumeRead
<1>5. CASE ResumeWrite(c)
  <2>1. Writes
    BY <1>5, <1>t, PlainWrites, FaultWrites DEF ResumeWrite, BestEffort, Writes, RunStatus
  <2> QED
    BY <1>5, <2>1, NoDemands, StepByThen DEF ResumeWrite
<1>6. CASE Reject(c)
  BY <1>6, <1>n, <1>q, StepByBegin DEF Reject, Pending, OnRequest
<1>7. CASE RejectWrite(c)
  <2>1. CASE Fault /\ End(c)
    BY <2>1, FaultWrites, StepByEnd
  <2>2. CASE /\ UpdateHITLRequestStatus(arg[c], "rejected")
             /\ ThenOn(c, "reject_step", hitl[arg[c]].row)
             /\ UNCHANGED budget
    <3>1. op[c] \in OnRequest /\ "reject_step" \in OnRow
      BY <1>7 DEF RejectWrite, OnRequest, OnRow, OnFound
    <3>2. Writes
      BY <2>2, <3>1, <1>w DEF HITLStatus
    <3> QED
      BY <2>2, <3>1, <3>2, <1>n, <1>r, <1>h, StepByThenOn
  <2> QED
    BY <1>7, <2>1, <2>2 DEF RejectWrite
<1>8. CASE RejectStep(c)
  <2>1. arg[c] \in Rows
    BY <1>8, <1>t DEF RejectStep, SessionSound, OnRow
  <2>2. Writes
    BY <1>8, <2>1, <1>t, PlainWrites, FaultWrites
       DEF RejectStep, BestEffort, Writes, StepStatus
  <2> QED
    BY <1>8, <2>2, StepByEnd DEF RejectStep
<1>9. CASE Resolve(c)
  BY <1>9, <1>n, <1>q, StepByBegin DEF Resolve, Pending, OnRequest
<1>10. CASE ResolveWrite(c)
  <2>1. CASE Fault /\ End(c)
    BY <2>1, FaultWrites, StepByEnd
  <2>2. CASE /\ UpdateHITLRequestStatus(arg[c], "resolved")
             /\ ThenOn(c, AfterResolve(op[c]), hitl[arg[c]].row)
             /\ UNCHANGED budget
    <3>1. op[c] \in OnRequest
      BY <1>10 DEF ResolveWrite, OnRequest
    <3>2. Writes
      BY <2>2, <3>1, <1>w DEF HITLStatus
    <3>3. AfterResolve(op[c]) \in {"resume_read"} \cup OnRow
      BY <1>10 DEF ResolveWrite, AfterResolve, OnRow, OnFound
    <3>4. hitl[arg[c]].row \in Nat
      BY <3>1, <1>h, <1>n
    <3>5. /\ AfterResolve(op[c]) \in SessionStep
          /\ Demands(AfterResolve(op[c]), hitl[arg[c]].row)
      BY <3>1, <3>3, <1>r, <1>h, NoDemands
    <3> QED
      BY <2>2, <3>2, <3>4, <3>5, StepByThenOn
  <2> QED
    BY <1>10, <2>1, <2>2 DEF ResolveWrite
<1>11. CASE SendBackStep(c)
  <2>1. arg[c] \in Rows
    BY <1>11, <1>t DEF SendBackStep, SessionSound, OnRow
  <2>2. Writes
    BY <1>11, <2>1, <1>t, PlainWrites, FaultWrites
       DEF SendBackStep, BestEffort, Writes, StepStatus
  <2> QED
    BY <1>11, <2>2, StepByEnd DEF SendBackStep
<1>12. CASE WatchdogBreach(c)
  <2>1. PICK r \in Rows :
          /\ stepStatus[r] = "running"
          /\ Begin(c, "halt", "halt_check", r) \/ Begin(c, "breach", "fail_step", r)
    BY <1>12 DEF WatchdogBreach
  <2>2. Found(r)
    BY <2>1, <1>t DEF StoreSound
  <2>3. "halt_check" \in OnRow /\ "fail_step" \in OnRow
    BY DEF OnRow, OnFound
  <2> QED
    BY <2>1, <2>2, <2>3, <1>n, <1>r, StepByBegin
<1>h1. op[c] \in OnFound => arg[c] \in Rows /\ Found(arg[c])
  BY <1>t DEF SessionSound, OnFound, OnRow, Found
<1>13. CASE RaiseProbeHaltCheck(c)
  <2>1. Writes
    BY <1>13, <1>t, PlainWrites DEF RaiseProbeHaltCheck, Writes
  <2>2. "halt_read" \in SessionStep /\ Demands("halt_read", arg[c])
    BY <1>13, <1>h1, <1>r DEF RaiseProbeHaltCheck, OnRow, OnFound
  <2>3. End(c) \/ Then(c, "halt_read")
    BY <1>13 DEF RaiseProbeHaltCheck
  <2> QED
    BY <2>1, <2>2, <2>3, StepByThen, StepByEnd
<1>14. CASE RaiseProbeHaltRead(c)
  <2>1. "halt_create" \in SessionStep /\ Demands("halt_create", arg[c])
    BY <1>14, <1>h1, <1>r DEF RaiseProbeHaltRead, OnRow, OnFound
  <2> QED
    BY <1>14, <2>1, StepByRead DEF RaiseProbeHaltRead
<1>15. CASE RaiseProbeHaltCreate(c)
  <2>1. CASE Fault /\ End(c)
    BY <2>1, FaultWrites, StepByEnd
  <2>2. CASE /\ CreateHITLRequest(arg[c], "probe_halt")
             /\ IF saw[c] = "running" THEN Then(c, "set_paused") ELSE End(c)
             /\ UNCHANGED budget
    <3>1. arg[c] \in Rows /\ Found(arg[c])
      BY <1>15, <1>h1 DEF RaiseProbeHaltCreate, OnFound
    <3>2. Writes
      BY <2>2, <3>1, <1>t, GuardedWrites DEF Writes
    <3> QED
      BY <2>2, <3>2, NoDemands, StepByThen, StepByEnd
  <2> QED
    BY <1>15, <2>1, <2>2 DEF RaiseProbeHaltCreate
<1> QED
  BY <1>1, <1>2, <1>3, <1>4, <1>5, <1>6, <1>7, <1>8, <1>9, <1>10, <1>11, <1>12,
     <1>13, <1>14, <1>15 DEF HITLServiceStep

-----------------------------------------------------------------------------
(* The system.                                                             *)

LEMMA InitSound ==
    ASSUME Init
    PROVE  Sound
<1> USE StepsAssumption, StagesAssumption
<1>1. StoreTypeOK
  BY DEF Init, StoreInit, StoreTypeOK, RunStatus, StepStatus, StoryStatus, HITLStatus,
     Metadata, NoRequest, Rows, Orders
<1>2. ExecTypeOK
  BY DEF Init, ExecInit, ExecTypeOK, Phases, NoMetadata, Metadata
<1>3. SessionTypeOK
  BY DEF Init, SessionInit, SessionTypeOK, SessionStep, RunStatus, Blank, Metadata
<1>4. StoreSound
  BY DEF Init, StoreInit, StoreSound, NoRequest, Rows, Orders
<1>5. \A e \in Workers : WorkerSound(e)
  BY DEF Init, ExecInit, WorkerSound, PhaseSound, NoMetadata, InStep, AtEnd, Cancelling,
     Gating
<1>6. \A c \in Clients : SessionSound(c)
  BY DEF Init, SessionInit, SessionSound, OnRequest, OnRow, OnFound
<1> QED
  BY <1>1, <1>2, <1>3, <1>4, <1>5, <1>6 DEF Sound, TypeOK, ViewsSound

(* A step of a worker: the others keep what they rely on. *)
LEMMA ExecutorKeepsSound ==
    ASSUME Sound, ExecutorNext
    PROVE  Sound' /\ Writes
<1>1. PICK e \in Workers : (ExecuteRun(e) \/ Expire(e)) /\ UNCHANGED sessionVars
  BY DEF ExecutorNext
<1>2. Progress(e)
  BY <1>1, WorkerProgress
<1>3. StoreTypeOK' /\ StoreSound' /\ Grows
  BY <1>2, StoreTyped, StoreStaysSound, StoreGrows
     DEF Progress, Writes, Sound, TypeOK, ViewsSound
<1>4. ExecTypeOK' /\ \A f \in Workers : WorkerSound(f)'
  BY <1>2, <1>3, WorkerStays DEF Progress, WorkerMoves, Sound, TypeOK, ViewsSound
<1>5. SessionTypeOK' /\ \A c \in Clients : KeepsSession(c)
  BY <1>1 DEF Sound, TypeOK, SessionTypeOK, sessionVars, KeepsSession
<1>6. \A c \in Clients : SessionSound(c)'
  BY <1>3, <1>5, SessionStays DEF Sound, TypeOK, ViewsSound
<1> QED
  BY <1>2, <1>3, <1>4, <1>5, <1>6 DEF Sound, TypeOK, ViewsSound, Progress

(* A step of a session, likewise. *)
LEMMA SessionKeepsSound ==
    ASSUME Sound, SessionNext
    PROVE  Sound' /\ Writes
<1>1. PICK c \in Clients : /\ SharedStep(c) \/ RunServiceStep(c) \/ HITLServiceStep(c)
                           /\ UNCHANGED execVars
  BY DEF SessionNext
<1>2. Advance(c)
  BY <1>1, SharedAdvance, RunServiceAdvance, HITLServiceAdvance
<1>3. StoreTypeOK' /\ StoreSound' /\ Grows
  BY <1>2, StoreTyped, StoreStaysSound, StoreGrows
     DEF Advance, Writes, Sound, TypeOK, ViewsSound
<1>4. SessionTypeOK' /\ \A d \in Clients : SessionSound(d)'
  BY <1>2, <1>3, SessionStays DEF Advance, SessionMoves, Sound, TypeOK, ViewsSound
<1>5. ExecTypeOK' /\ \A e \in Workers : Keeps(e)
  BY <1>1 DEF Sound, TypeOK, ExecTypeOK, execVars, Keeps
<1>6. \A e \in Workers : WorkerSound(e)'
  BY <1>3, <1>5, WorkerStays DEF Sound, TypeOK, ViewsSound
<1> QED
  BY <1>2, <1>3, <1>4, <1>5, <1>6 DEF Sound, TypeOK, ViewsSound, Advance

(* A crash forgets every local. *)
LEMMA CrashKeepsSound ==
    ASSUME Sound, Crash
    PROVE  Sound' /\ Writes
<1>1. StoreTypeOK /\ StoreSound /\ budget \in Nat
  BY DEF Sound, TypeOK, ViewsSound, StoreTypeOK
<1>2. Writes
  BY <1>1, PlainWrites DEF Crash, Spend, Writes
<1>3. StoreTypeOK' /\ StoreSound'
  BY <1>1, <1>2, StoreTyped, StoreStaysSound DEF Writes
<1>4. ExecTypeOK'
  BY DEF Crash, ExecTypeOK, Phases, NoMetadata, Metadata
<1>5. SessionTypeOK'
  BY DEF Crash, SessionTypeOK, SessionStep, RunStatus, Blank, Metadata
<1>6. \A e \in Workers : WorkerSound(e)'
  BY DEF Crash, WorkerSound, PhaseSound, NoMetadata, InStep, AtEnd, Cancelling, Gating
<1>7. \A c \in Clients : SessionSound(c)'
  BY DEF Crash, SessionSound, OnRequest, OnRow, OnFound
<1> QED
  BY <1>2, <1>3, <1>4, <1>5, <1>6, <1>7 DEF Sound, TypeOK, ViewsSound

(* Steps that change nothing. *)
LEMMA StutterKeepsSound ==
    ASSUME Sound, UNCHANGED vars
    PROVE  Sound' /\ NoWrite
<1>1. NoWrite /\ UNCHANGED budget /\ UNCHANGED execVars /\ UNCHANGED sessionVars
  BY DEF vars, NoWrite
<1>2. StoreTypeOK /\ StoreSound /\ Writes
  BY <1>1, PlainWrites DEF Sound, TypeOK, ViewsSound, StoreTypeOK, Writes
<1>3. StoreTypeOK' /\ StoreSound' /\ Grows
  BY <1>2, StoreTyped, StoreStaysSound, StoreGrows DEF Writes
<1>4. /\ ExecTypeOK' /\ SessionTypeOK'
      /\ \A e \in Workers : Keeps(e)
      /\ \A c \in Clients : KeepsSession(c)
  BY <1>1 DEF Sound, TypeOK, ExecTypeOK, SessionTypeOK, execVars, sessionVars, Keeps,
     KeepsSession
<1>5. /\ \A e \in Workers : WorkerSound(e)'
      /\ \A c \in Clients : SessionSound(c)'
  BY <1>3, <1>4, WorkerStays, SessionStays DEF Sound, TypeOK, ViewsSound
<1> QED
  BY <1>1, <1>3, <1>4, <1>5 DEF Sound, TypeOK, ViewsSound

LEMMA NextKeepsSound ==
    ASSUME Sound, [Next]_vars
    PROVE  Sound' /\ StoreNext
<1>1. NoWrite => StoreNext
  BY DEF StoreNext
<1> QED
  BY <1>1, ExecutorKeepsSound, SessionKeepsSound, CrashKeepsSound, StutterKeepsSound
     DEF Next, Writes

(* RunViewsSound: the inductive invariant holds of every run: what         *)
(* executors and handlers carry from earlier reads stays safe to act on.   *)
THEOREM RunViewsSound == Spec => [](TypeOK /\ ViewsSound)
<1>1. Init => Sound
  BY InitSound
<1>2. Sound /\ [Next]_vars => Sound'
  BY NextKeepsSound
<1>3. Sound <=> TypeOK /\ ViewsSound
  BY DEF Sound
<1> QED
  BY <1>1, <1>2, <1>3, PTL DEF Spec

(* RunTypeCorrect: no interleaving of executors, handlers, faults and      *)
(* crashes takes a variable outside its type; in particular the queue      *)
(* never owes a job.                                                       *)
THEOREM RunTypeCorrect == Spec => []TypeOK
  BY RunViewsSound, PTL

(* RunStartsInOrder: executors only ever execute a step whose              *)
(* predecessors have all been completed, for every pipeline and every      *)
(* number of concurrent executions of the run.                             *)
THEOREM RunStartsInOrder == Spec => []StartsInOrder
<1>1. ASSUME TypeOK /\ ViewsSound PROVE StartsInOrder
  <2>1. SUFFICES ASSUME NEW e \in Workers, Executing(e)
                 PROVE  Reached(cur[e])
    BY DEF StartsInOrder
  <2>2. pc[e] \in InStep
    BY <2>1 DEF Executing, InStep
  <2> QED
    BY <1>1, <2>2, WithinStep DEF Sound, Found
<1> QED
  BY <1>1, RunViewsSound, PTL

(* RunCompletedMeansAllDone: a run marked completed has had every step of  *)
(* its pipeline completed.                                                 *)
THEOREM RunCompletedMeansAllDone == Spec => []CompletedMeansAllDone
<1>1. ASSUME TypeOK /\ ViewsSound PROVE CompletedMeansAllDone
  BY <1>1 DEF ViewsSound, StoreSound, CompletedMeansAllDone
<1> QED
  BY <1>1, RunViewsSound, PTL

(* RunManualRespected: no step of a manual stage is executed before that   *)
(* stage got its Go, although the flags travel in stale copies.            *)
THEOREM RunManualRespected == Spec => []ManualRespected
<1>1. ASSUME TypeOK /\ ViewsSound PROVE ManualRespected
  <2>1. SUFFICES ASSUME NEW e \in Workers, Executing(e),
                        Transition[CurStage(e)] = "manual"
                 PROVE  CurStage(e) \in go
    BY DEF ManualRespected
  <2>2. pc[e] \in InStep /\ WorkerSound(e) /\ cur[e] # 0
    BY <1>1, <2>1 DEF Executing, InStep, ViewsSound, WorkerSound, PhaseSound
  <2>3. CurStage(e) = stage[e]
    BY <2>2 DEF WorkerSound, PhaseSound
  <2>4. stage[e] # 0
    <3>1. stepOrder[cur[e]] \in Orders
      BY <1>1, <2>2, StepsAssumption
         DEF TypeOK, StoreTypeOK, ExecTypeOK, WorkerSound, Found, Exists, Orders
    <3> QED
      BY <2>3, <3>1, StagesAssumption, StepsAssumption DEF CurStage, Stages
  <2> QED
    BY <2>1, <2>2, <2>3, <2>4 DEF WorkerSound
<1> QED
  BY <1>1, RunViewsSound, PTL

-----------------------------------------------------------------------------
(* Refinement.                                                             *)

(* A statement ticks the next step off the ledger, declares a status, or   *)
(* leaves the ledger as it is.                                             *)
LEMMA StoreNextRefines ==
    ASSUME StoreTypeOK, StoreSound, StoreNext
    PROVE  [Ledger!Next]_(Ledger!ledger)
<1>1. CASE \E s \in RunStatus : UpdateRunStatus(s) /\ (s = "completed" => done = Orders)
  BY <1>1 DEF UpdateRunStatus, Ledger!Next, Ledger!Declare, Orders
<1>2. CASE \E r \in Rows, s \in StepStatus :
             UpdateRunStepStatus(r, s) /\ (s \in {"running", "completed"} => Found(r))
  <2>1. PICK r \in Rows, s \in StepStatus :
             UpdateRunStepStatus(r, s) /\ (s \in {"running", "completed"} => Found(r))
    BY <1>2
  <2>2. CASE s = "completed" /\ stepOrder[r] \notin done
    <3>1. stepOrder[r] \in 1..NumSteps /\ 1..(stepOrder[r] - 1) \subseteq done
      BY <2>1, <2>2, StepsAssumption DEF StoreTypeOK, Found, Exists, Reached
    <3> QED
      BY <2>1, <2>2, <3>1 DEF UpdateRunStepStatus, Ledger!Next, Ledger!Tick
  <2>3. CASE s # "completed" \/ stepOrder[r] \in done
    BY <2>1, <2>3 DEF UpdateRunStepStatus, Ledger!ledger
  <2> QED
    BY <2>2, <2>3
<1>3. CASE UNCHANGED <<done, status>>
  BY <1>3 DEF Ledger!ledger
<1> QED
  BY <1>1, <1>2, <1>3 DEF StoreNext, NoWrite, storeVars, UpdateRunMetadata,
     UpdateRunMetadataGo, CreateRetryRunStep, CreateHITLRequest,
     UpdateHITLRequestStatus, UpdateStory, UpdateStoryCurrentStage,
     EnqueueExecuteRun, TakeJob

(* RunImplementsLedger: every run, whoever executes it and however often   *)
(* it is interrupted, ticks its steps off in order, never takes one back,  *)
(* and is declared completed only when all are ticked.                     *)
THEOREM RunImplementsLedger == Spec => LedgerSpec
<1>1. Init => Ledger!Init
  BY DEF Init, StoreInit, Ledger!Init
<1>2. TypeOK /\ ViewsSound /\ [Next]_vars => [Ledger!Next]_(Ledger!ledger)
  BY NextKeepsSound, StoreNextRefines DEF Sound, TypeOK, ViewsSound
<1> QED
  BY <1>1, <1>2, RunViewsSound, PTL DEF Spec, LedgerSpec, Ledger!Spec

-----------------------------------------------------------------------------
(* What overlapping handler calls can do to a decision and to the number of *)
(* retries of a step, for every pipeline, every number of workers and every *)
(* environment.                                                             *)
(*                                                                          *)
(* Approve, Reject and Resolve look at a request and write it later, and so *)
(* does RetryStep with the retries of a step.  Decisions are final and the  *)
(* retry policy is kept as long as no two calls are between the look and    *)
(* the write on the same request or the same step; how far the policy can   *)
(* be overrun otherwise is bounded by the number of calls in progress.      *)

(* The calls that have counted the retries of order k and found room.       *)
Retrying(k) == {c \in Clients : op[c] = "retry_create" /\ stepOrder[arg[c]] = k}

(* No two calls in progress work on the same request or retry the same      *)
(* step: what a lock on the row would give and the code does not take.      *)
Apart ==
    \A c, d \in Clients : c # d =>
      /\ op[c] \in OnRequest /\ op[d] \in OnRequest => arg[c] # arg[d]
      /\ op[c] = "retry_create" /\ op[d] = "retry_create" =>
           stepOrder[arg[c]] # stepOrder[arg[d]]

(* A decision about to be written is about a request still pending.         *)
DecidesPending == \A c \in Clients : op[c] \in OnRequest => Pending(arg[c])

(* A retry about to be created is within the policy.                        *)
RoomToRetry ==
    \A k \in Orders :
      /\ Cardinality(RetriesOf(k)) <= MaxRetries
      /\ Retrying(k) # {} => Cardinality(RetriesOf(k)) < MaxRetries

(* Retries made and retries decided on, taken together.                     *)
RetriesCovered ==
    \A k \in Orders : Cardinality(RetriesOf(k)) + Cardinality(Retrying(k))
                        < MaxRetries + Cardinality(Clients)

(* RetryOvershoot: calls that overlap exceed the retry policy of a step by  *)
(* less than their number (RetryStep).                                      *)
RetryOvershoot ==
    \A k \in Orders : Cardinality(RetriesOf(k)) < MaxRetries + Cardinality(Clients)

-----------------------------------------------------------------------------
(* What a step can do to the orders of the rows and to the requests.        *)

(* No row appears and no request that exists changes.                       *)
Steady == /\ stepOrder' = stepOrder
          /\ \A q \in Reqs : hitl[q].status # "absent" => hitl'[q] = hitl[q]

LEMMA SteadyWrites ==
  ASSUME StoreTypeOK
  PROVE  /\ NoWrite => Steady
         /\ \A s : UpdateRunStatus(s) => Steady
         /\ \A m : UpdateRunMetadata(m) => Steady
         /\ \A m : UpdateRunMetadataGo(m) => Steady
         /\ \A r, s : UpdateRunStepStatus(r, s) => Steady
         /\ \A r, g : CreateHITLRequest(r, g) => Steady
         /\ \A s : UpdateStory(s) => Steady
         /\ \A s : UpdateStoryCurrentStage(s) => Steady
         /\ EnqueueExecuteRun => Steady
         /\ TakeJob => Steady
         /\ Fault => Steady
BY DEF StoreTypeOK, NoWrite, storeVars, UpdateRunStatus, UpdateRunMetadata, UpdateRunMetadataGo,
       UpdateRunStepStatus, CreateHITLRequest, UpdateStory, UpdateStoryCurrentStage,
       EnqueueExecuteRun, TakeJob, Fault, Spend, Steady

LEMMA WorkersAreSteady ==
  ASSUME StoreTypeOK, NEW e \in Workers, ExecuteRun(e) \/ Expire(e)
  PROVE  Steady
BY SteadyWrites DEF ExecuteRun, Expire, Take, RefuseByBreaker, Load, Start, StoryRunning,
   HardError, PollPaused, PollNext, PollExpired, PollEnd, GatePass, GateHeld, GateMissing,
   GateCreate, GateAnchor, GateRun, Enter, ParkMeta, ParkRun, ParkStory, StartStep,
   ActSucceeds, ActFails, ActRequest, ActWait, ActPause, PersistMetadata, RefetchSuspended,
   Refetch, CompleteStep, CompleteFails, HandleFailureStep, HandleFailureRun, StoryFailed,
   HandleCancellationStep, HandleCancellationRun, StoryBacklog, ClearStage, Finish, StoryDone,
   Try, Fails, BestEffort

-----------------------------------------------------------------------------
(* A step of a call does one of three things: it leaves rows and requests   *)
(* alone, it writes the decision it was about to, or it adds the retry.     *)

Elsewhere(c) == \A d \in Clients : d # c => op'[d] = op[d] /\ arg'[d] = arg[d]

Settled(c) == op'[c] \notin OnRequest \cup {"retry_create"}

Calm(c) ==
    /\ Steady /\ Elsewhere(c)
    /\ op'[c] \in OnRequest => arg'[c] \in Reqs /\ Pending(arg'[c])
    /\ op'[c] = "retry_create" => op[c] # "retry_create" /\ arg'[c] = arg[c] /\ CanRetry(arg[c])

Decides(c) ==
    /\ op[c] \in OnRequest
    /\ Settled(c) /\ Elsewhere(c)
    /\ stepOrder' = stepOrder
    /\ \A q \in Reqs : q # arg[c] => hitl'[q] = hitl[q]

Retries(c) ==
    /\ op[c] = "retry_create"
    /\ Settled(c) /\ Elsewhere(c)
    /\ hitl' = hitl
    /\ \E r \in Rows : /\ r > NumSteps /\ ~Exists(r)
                       /\ stepOrder' = [stepOrder EXCEPT ![r] = stepOrder[arg[c]]]

LEMMA BeginIsCalm ==
  ASSUME StoreTypeOK, SessionTypeOK, NEW c \in Clients, NEW o, NEW s, NEW a, Begin(c, o, s, a),
         s # "retry_create", s \in OnRequest => a \in Reqs /\ Pending(a)
  PROVE  Calm(c)
BY SteadyWrites DEF Begin, Calm, Elsewhere, SessionTypeOK

LEMMA QuietMoves ==
  ASSUME SessionTypeOK, NEW c \in Clients, NEW s,
         \/ Then(c, s) \/ (\E a : ThenOn(c, s, a)) \/ ReadRun(c, s) \/ (End(c) /\ s = "idle"),
         s \notin OnRequest \cup {"retry_create"}
  PROVE  Settled(c) /\ Elsewhere(c)
BY DEF Then, ThenOn, ReadRun, End, Settled, Elsewhere, SessionTypeOK

LEMMA SteadyIsCalm ==
  ASSUME NEW c \in Clients, Steady, Settled(c), Elsewhere(c)
  PROVE  Calm(c)
BY DEF Settled, Calm

LEMMA SharedIsCalm ==
  ASSUME StoreTypeOK, SessionTypeOK, NEW c \in Clients, SharedStep(c)
  PROVE  Calm(c)
<1>1. Steady
  BY SteadyWrites DEF SharedStep, SetPaused, SetRunning, Enqueue, FailStep, FailRun, BestEffort
<1>2. Settled(c) /\ Elsewhere(c)
  <2> "idle" \notin OnRequest \cup {"retry_create"} /\ "enqueue" \notin OnRequest \cup {"retry_create"}
      /\ "fail_run" \notin OnRequest \cup {"retry_create"}
    BY DEF OnRequest
  <2> QED
    BY QuietMoves DEF SharedStep, SetPaused, SetRunning, Enqueue, FailStep, FailRun
<1> QED BY <1>1, <1>2, SteadyIsCalm

LEMMA RunServiceCases ==
  ASSUME Sound, NEW c \in Clients, RunServiceStep(c)
  PROVE  Calm(c) \/ Retries(c)
<1> USE DEF OnRequest
<1>t. StoreTypeOK /\ SessionTypeOK /\ StoreSound /\ SessionSound(c)
  BY DEF Sound, TypeOK, ViewsSound
<1>1. CASE PauseRun(c) \/ ResumeRun(c) \/ CancelRun(c)
  BY <1>1, <1>t, BeginIsCalm DEF PauseRun, ResumeRun, CancelRun
<1>2. CASE StartStage(c) \/ StartStageMetadata(c)
  <2>1. Steady
    BY <1>2, <1>t, SteadyWrites DEF StartStage, StartStageMetadata
  <2>2. Settled(c) /\ Elsewhere(c)
    BY <1>2, <1>t, QuietMoves DEF StartStage, StartStageMetadata, Settled, Elsewhere, SessionTypeOK
  <2> QED BY <2>1, <2>2, SteadyIsCalm
<1>3. CASE CancelRunList(c) \/ CancelRunStep(c) \/ CancelRunWrite(c) \/ TransitionStoryToBacklog(c)
  <2>1. Steady
    BY <1>3, <1>t, SteadyWrites DEF CancelRunList, CancelRunStep, CancelListed, CancelRunWrite,
       TransitionStoryToBacklog, BestEffort
  <2>2. Settled(c) /\ Elsewhere(c)
    <3>1. CASE CancelRunList(c)
      BY <3>1, <1>t DEF CancelRunList, Settled, Elsewhere, SessionTypeOK
    <3>2. CASE CancelRunStep(c)
      BY <3>2, <1>t, QuietMoves DEF CancelRunStep, CancelListed, Settled, Elsewhere, SessionTypeOK
    <3>3. CASE CancelRunWrite(c) \/ TransitionStoryToBacklog(c)
      BY <3>3, <1>t, QuietMoves DEF CancelRunWrite, TransitionStoryToBacklog
    <3> QED BY <1>3, <3>1, <3>2, <3>3
  <2> QED BY <2>1, <2>2, SteadyIsCalm
<1>4. CASE RetryStep(c) \/ RetryStepCheck(c)
  <2>1. Steady
    BY <1>4, <1>t, SteadyWrites DEF RetryStep, RetryStepCheck
  <2>2. CASE RetryStep(c)
    BY <2>1, <2>2, <1>t DEF RetryStep, Calm, Elsewhere, SessionTypeOK
  <2>3. CASE RetryStepCheck(c)
    BY <2>1, <2>3, <1>t DEF RetryStepCheck, Calm, Elsewhere, SessionTypeOK, Then, End
  <2> QED BY <1>4, <2>2, <2>3
<1>5. CASE RetryStepCreate(c)
  <2>1. CASE Fault /\ End(c)
    BY <2>1, <1>t, SteadyWrites, QuietMoves, SteadyIsCalm
  <2>2. CASE /\ CreateRetryRunStep(stepOrder[arg[c]])
             /\ Then(c, IF saw[c] = "failed" THEN "set_running" ELSE "enqueue")
    <3>1. Settled(c) /\ Elsewhere(c)
      BY <2>2, <1>t, QuietMoves
    <3>2. \A r \in Rows : ~Exists(r) => r > NumSteps
      BY <1>t, StepsAssumption DEF StoreSound, Exists, Rows, Orders
    <3> QED BY <1>5, <2>2, <3>1, <3>2 DEF Retries, CreateRetryRunStep, RetryStepCreate
  <2> QED BY <1>5, <2>1, <2>2 DEF RetryStepCreate
<1> QED BY <1>1, <1>2, <1>3, <1>4, <1>5 DEF RunServiceStep

LEMMA HITLServiceCases ==
  ASSUME Sound, NEW c \in Clients, HITLServiceStep(c)
  PROVE  Calm(c) \/ Decides(c)
<1> USE DEF OnRequest
<1>t. StoreTypeOK /\ SessionTypeOK /\ SessionSound(c)
  BY DEF Sound, TypeOK, ViewsSound
<1>1. CASE Approve(c) \/ Reject(c) \/ Resolve(c) \/ WatchdogBreach(c)
  BY <1>1, <1>t, BeginIsCalm DEF Approve, Reject, Resolve, WatchdogBreach
<1>2. CASE ApproveWrite(c) \/ RejectWrite(c) \/ ResolveWrite(c)
  <2>1. op[c] \in OnRequest
    BY <1>2 DEF ApproveWrite, RejectWrite, ResolveWrite
  <2>2. \A a : \/ ThenOn(c, "complete_step", a) \/ ThenOn(c, "reject_step", a)
               \/ ThenOn(c, "resume_read", a) \/ ThenOn(c, "send_back_step", a)
               \/ ThenOn(c, "fail_step", a)
               => Settled(c) /\ Elsewhere(c)
    BY <1>t DEF ThenOn, Settled, Elsewhere, SessionTypeOK
  <2>3. \A a : (op[c] \in {"resolve_resume", "resolve_complete",
                           "resolve_send_back", "resolve_abort"}
                /\ ThenOn(c, AfterResolve(op[c]), a)) => Settled(c) /\ Elsewhere(c)
    BY <2>2 DEF AfterResolve
  <2>4. Fault /\ End(c) => Calm(c)
    BY <1>t, SteadyWrites, QuietMoves, SteadyIsCalm
  <2>5. \A s : UpdateHITLRequestStatus(arg[c], s) =>
                 stepOrder' = stepOrder /\ \A q \in Reqs : q # arg[c] => hitl'[q] = hitl[q]
    BY <1>t DEF UpdateHITLRequestStatus, StoreTypeOK
  <2> QED BY <1>2, <2>1, <2>2, <2>3, <2>4, <2>5 DEF ApproveWrite, RejectWrite, ResolveWrite, Decides
<1>3. CASE \/ CompleteGateStep(c) \/ ResumeRead(c) \/ ResumeWrite(c) \/ RejectStep(c)
           \/ SendBackStep(c) \/ RaiseProbeHaltCheck(c) \/ RaiseProbeHaltRead(c)
           \/ RaiseProbeHaltCreate(c)
  <2>1. Steady
    BY <1>3, <1>t, SteadyWrites DEF CompleteGateStep, ResumeRead, ResumeWrite, RejectStep,
       SendBackStep, RaiseProbeHaltCheck, RaiseProbeHaltRead, RaiseProbeHaltCreate, BestEffort,
       ReadRun
  <2>2. Settled(c) /\ Elsewhere(c)
    BY <1>3, <1>t, QuietMoves DEF CompleteGateStep, ResumeRead, ResumeWrite, RejectStep,
       SendBackStep, RaiseProbeHaltCheck, RaiseProbeHaltRead, RaiseProbeHaltCreate
  <2> QED BY <2>1, <2>2, SteadyIsCalm
<1> QED BY <1>1, <1>2, <1>3 DEF HITLServiceStep

(* A step of the whole system, as far as rows and requests are concerned.   *)
Idled == Steady /\ \A d \in Clients : op'[d] \in OnRequest \cup {"retry_create"} =>
                                        op'[d] = op[d] /\ arg'[d] = arg[d]

LEMMA SystemCases ==
  ASSUME Sound, [Next]_vars
  PROVE  Idled \/ \E c \in Clients : Calm(c) \/ Decides(c) \/ Retries(c)
<1>t. StoreTypeOK /\ SessionTypeOK
  BY DEF Sound, TypeOK
<1>1. CASE ExecutorNext
  BY <1>1, <1>t, WorkersAreSteady DEF ExecutorNext, Idled, sessionVars
<1>2. CASE SessionNext
  BY <1>2, <1>t, SharedIsCalm, RunServiceCases, HITLServiceCases DEF SessionNext
<1>3. CASE Crash
  BY <1>3, <1>t, SteadyWrites DEF Crash, Idled, OnRequest
<1>4. CASE UNCHANGED vars
  BY <1>4 DEF vars, storeVars, sessionVars, Idled, Steady
<1> QED BY <1>1, <1>2, <1>3, <1>4 DEF Next

-----------------------------------------------------------------------------
(* Decisions.                                                               *)

LEMMA PendingKept ==
  ASSUME Sound, Apart, DecidesPending, [Next]_vars
  PROVE  DecidesPending'
<1> SUFFICES ASSUME NEW d \in Clients, op'[d] \in OnRequest
             PROVE  Pending(arg[d])'
  BY DEF DecidesPending
<1>t. op[d] \in OnRequest => arg[d] \in Reqs /\ Pending(arg[d])
  BY DEF Sound, ViewsSound, SessionSound, DecidesPending
<1>1. CASE Idled
  BY <1>1, <1>t DEF Idled, Steady, Pending
<1>2. CASE \E c \in Clients : Calm(c)
  BY <1>2, <1>t DEF Calm, Elsewhere, Steady, Pending
<1>3. CASE \E c \in Clients : Decides(c)
  BY <1>3, <1>t DEF Decides, Settled, Elsewhere, Pending, Apart
<1>4. CASE \E c \in Clients : Retries(c)
  BY <1>4, <1>t DEF Retries, Settled, Elsewhere, Pending
<1> QED BY <1>1, <1>2, <1>3, <1>4, SystemCases

LEMMA DecisionKept ==
  ASSUME Sound, DecidesPending, [Next]_vars,
         NEW q \in Reqs, hitl[q].status \in {"approved", "rejected", "resolved"}
  PROVE  hitl'[q].status = hitl[q].status
<1>1. CASE Steady
  BY <1>1 DEF Steady
<1>2. CASE \E c \in Clients : Decides(c)
  BY <1>2 DEF Decides, DecidesPending, Pending
<1>3. CASE \E c \in Clients : Retries(c)
  BY <1>3 DEF Retries
<1> QED BY <1>1, <1>2, <1>3, SystemCases DEF Idled, Calm

(* DecisionsAreFinal: while no two calls are in the middle of deciding the  *)
(* same request, an approved, rejected or resolved request keeps that       *)
(* decision, whatever executors, faults and crashes do (Approve, Reject,    *)
(* Resolve).                                                                *)
THEOREM DecisionsAreFinal == Spec /\ []Apart => DecisionFinal
<1>1. Init => DecidesPending
  BY DEF Init, SessionInit, DecidesPending, OnRequest
<1>2. TypeOK /\ ViewsSound /\ Apart /\ DecidesPending /\ [Next]_vars => DecidesPending'
  BY PendingKept DEF Sound
<1>3. TypeOK /\ ViewsSound /\ DecidesPending /\ [Next]_vars
      => [\A q \in Reqs : hitl[q].status \in {"approved", "rejected", "resolved"}
                            => hitl'[q].status = hitl[q].status]_vars
  BY DecisionKept DEF Sound
<1> QED
  BY <1>1, <1>2, <1>3, RunViewsSound, PTL DEF Spec, DecisionFinal

(* SerialDecisionsAreFinal: in particular when calls never overlap.         *)
THEOREM SerialDecisionsAreFinal ==
  ASSUME \A c, d \in Clients : c = d
  PROVE  Spec => DecisionFinal
<1>1. Apart
  BY DEF Apart
<1> QED BY <1>1, DecisionsAreFinal, PTL

-----------------------------------------------------------------------------
(* Retries.                                                                 *)

LEMMA RetriesAreFinite ==
  ASSUME NEW k
  PROVE  /\ IsFiniteSet(RetriesOf(k)) /\ Cardinality(RetriesOf(k)) \in Nat
         /\ IsFiniteSet(Retrying(k)) /\ Cardinality(Retrying(k)) \in Nat
         /\ Cardinality(Retrying(k)) <= Cardinality(Clients)
         /\ Cardinality(Clients) \in Nat \ {0}
<1>1. IsFiniteSet(Rows)
  BY StepsAssumption, FS_Interval DEF Rows
<1>2. IsFiniteSet(RetriesOf(k)) /\ Cardinality(RetriesOf(k)) \in Nat
  BY <1>1, FS_Subset, FS_CardinalityType DEF RetriesOf
<1>3. /\ IsFiniteSet(Retrying(k)) /\ Cardinality(Retrying(k)) \in Nat
      /\ Cardinality(Retrying(k)) <= Cardinality(Clients)
  BY ClientsAssumption, FS_Subset, FS_CardinalityType DEF Retrying
<1>4. Cardinality(Clients) \in Nat \ {0}
  BY ClientsAssumption, FS_CardinalityType, FS_EmptySet
<1> QED BY <1>2, <1>3, <1>4

(* Either the retries of an order stay and the calls that may add one are   *)
(* the same or fewer, or the policy still left room for the call that       *)
(* joined them, or one of them has added its retry.                         *)
Unmoved(k) == RetriesOf(k)' = RetriesOf(k) /\ Retrying(k)' \subseteq Retrying(k)

Joined(k) == RetriesOf(k)' = RetriesOf(k) /\ Cardinality(RetriesOf(k)) < MaxRetries

Added(k) ==
    \E c \in Retrying(k) :
      /\ Retrying(k)' \subseteq Retrying(k) \ {c}
      /\ \E r \in Rows : r \notin RetriesOf(k) /\ RetriesOf(k)' = RetriesOf(k) \cup {r}

LEMMA RetryCases ==
  ASSUME Sound, [Next]_vars, NEW k \in Orders
  PROVE  Unmoved(k) \/ Joined(k) \/ Added(k)
<1>t. \A c \in Clients : op[c] = "retry_create" => arg[c] \in Rows /\ Exists(arg[c])
  BY DEF Sound, ViewsSound, SessionSound, OnRow
<1>s. stepOrder \in [Rows -> 0..NumSteps]
  BY DEF Sound, TypeOK, StoreTypeOK
<1>1. CASE Idled
  BY <1>1 DEF Idled, Steady, Unmoved, RetriesOf, Retrying
<1>2. CASE \E c \in Clients : Decides(c)
  BY <1>2 DEF Decides, Settled, Elsewhere, Unmoved, RetriesOf, Retrying
<1>3. ASSUME NEW c \in Clients, Calm(c) PROVE Unmoved(k) \/ Joined(k)
  <2>1. stepOrder' = stepOrder
    BY <1>3 DEF Calm, Steady
  <2>2. RetriesOf(k)' = RetriesOf(k)
    BY <2>1 DEF RetriesOf
  <2>3. CASE op'[c] = "retry_create" /\ stepOrder[arg[c]] = k
    BY <1>3, <2>2, <2>3 DEF Calm, CanRetry, Joined
  <2>4. CASE ~(op'[c] = "retry_create" /\ stepOrder[arg[c]] = k)
    BY <1>3, <2>1, <2>2, <2>4 DEF Calm, Elsewhere, Retrying, Unmoved
  <2> QED BY <2>3, <2>4
<1>4. ASSUME NEW c \in Clients, Retries(c) PROVE Unmoved(k) \/ Added(k)
  <2>1. PICK r \in Rows : /\ r > NumSteps /\ ~Exists(r)
                          /\ stepOrder' = [stepOrder EXCEPT ![r] = stepOrder[arg[c]]]
    BY <1>4 DEF Retries
  <2>2. k # 0
    BY StepsAssumption DEF Orders
  <2>3. \A d \in Clients : op[d] = "retry_create" => stepOrder'[arg[d]] = stepOrder[arg[d]]
    BY <1>t, <1>s, <2>1 DEF Exists
  <2>4. Retrying(k)' \subseteq Retrying(k) \ {c}
    BY <1>4, <2>3 DEF Retries, Settled, Elsewhere, Retrying
  <2>5. CASE stepOrder[arg[c]] = k
    <3>1. RetriesOf(k)' = RetriesOf(k) \cup {r} /\ r \notin RetriesOf(k)
      BY <1>s, <2>1, <2>2, <2>5 DEF RetriesOf, Exists
    <3>2. c \in Retrying(k)
      BY <1>4, <2>5 DEF Retries, Retrying
    <3> QED BY <2>1, <2>4, <3>1, <3>2 DEF Added
  <2>6. CASE stepOrder[arg[c]] # k
    <3>1. RetriesOf(k)' = RetriesOf(k)
      BY <1>s, <2>1, <2>2, <2>6 DEF RetriesOf, Exists
    <3> QED BY <2>4, <3>1 DEF Unmoved
  <2> QED BY <2>5, <2>6
<1> QED BY <1>1, <1>2, <1>3, <1>4, SystemCases

LEMMA AddedCounts ==
  ASSUME NEW k, Added(k)
  PROVE  /\ Cardinality(RetriesOf(k)') = Cardinality(RetriesOf(k)) + 1
         /\ Cardinality(Retrying(k)') < Cardinality(Retrying(k))
<1>1. PICK c \in Retrying(k) : /\ Retrying(k)' \subseteq Retrying(k) \ {c}
                               /\ \E r \in Rows : /\ r \notin RetriesOf(k)
                                                  /\ RetriesOf(k)' = RetriesOf(k) \cup {r}
  BY DEF Added
<1>2. Cardinality(RetriesOf(k)') = Cardinality(RetriesOf(k)) + 1
  BY <1>1, RetriesAreFinite, FS_AddElement
<1>3. /\ IsFiniteSet(Retrying(k) \ {c})
      /\ Cardinality(Retrying(k) \ {c}) = Cardinality(Retrying(k)) - 1
  BY RetriesAreFinite, FS_RemoveElement
<1>4. Cardinality(Retrying(k)') <= Cardinality(Retrying(k) \ {c})
      /\ Cardinality(Retrying(k)') \in Nat
  BY <1>1, <1>3, FS_Subset, FS_CardinalityType
<1> QED BY <1>2, <1>3, <1>4, RetriesAreFinite

LEMMA RoomKept ==
  ASSUME Sound, Apart, RoomToRetry, [Next]_vars
  PROVE  RoomToRetry'
<1> SUFFICES ASSUME NEW k \in Orders
             PROVE  /\ Cardinality(RetriesOf(k)') <= MaxRetries
                    /\ Retrying(k)' # {} => Cardinality(RetriesOf(k)') < MaxRetries
  BY DEF RoomToRetry
<1>f. Cardinality(RetriesOf(k)) \in Nat /\ MaxRetries \in Nat
  BY RetriesAreFinite, StepsAssumption
<1>i. /\ Cardinality(RetriesOf(k)) <= MaxRetries
      /\ Retrying(k) # {} => Cardinality(RetriesOf(k)) < MaxRetries
  BY DEF RoomToRetry
<1>1. CASE Unmoved(k)
  BY <1>1, <1>i DEF Unmoved
<1>2. CASE Joined(k)
  BY <1>2, <1>f DEF Joined
<1>3. CASE Added(k)
  <2>1. Retrying(k)' = {}
    BY <1>3 DEF Added, Apart, Retrying
  <2> QED BY <1>3, <1>f, <1>i, <2>1, AddedCounts DEF Added
<1> QED BY <1>1, <1>2, <1>3, RetryCases

LEMMA InitRetries ==
  ASSUME Init, NEW k
  PROVE  Cardinality(Retrying(k)) = 0 /\ (k \in Orders => Cardinality(RetriesOf(k)) = 0)
<1>1. Retrying(k) = {}
  BY DEF Init, SessionInit, Retrying
<1>2. k \in Orders => RetriesOf(k) = {}
  BY StepsAssumption DEF Init, StoreInit, RetriesOf, Rows, Orders
<1> QED BY <1>1, <1>2, FS_EmptySet

(* RetriesStayWithinPolicy: while no two calls are in the middle of         *)
(* retrying the same step, a step never has more retries than its policy    *)
(* allows (RetryStep, RETRY_MAX_EXCEEDED).                                  *)
THEOREM RetriesStayWithinPolicy == Spec /\ []Apart => []RetryBound
<1>1. Init => RoomToRetry
  BY InitRetries, FS_EmptySet, StepsAssumption DEF RoomToRetry, Init, SessionInit, Retrying
<1>2. TypeOK /\ ViewsSound /\ Apart /\ RoomToRetry /\ [Next]_vars => RoomToRetry'
  BY RoomKept DEF Sound
<1>3. RoomToRetry => RetryBound
  BY DEF RoomToRetry, RetryBound
<1> QED
  BY <1>1, <1>2, <1>3, RunViewsSound, PTL DEF Spec

(* SerialRetriesStayWithinPolicy: in particular when calls never overlap.   *)
THEOREM SerialRetriesStayWithinPolicy ==
  ASSUME \A c, d \in Clients : c = d
  PROVE  Spec => []RetryBound
<1>1. Apart
  BY DEF Apart
<1> QED BY <1>1, RetriesStayWithinPolicy, PTL

LEMMA CoverKept ==
  ASSUME Sound, RetriesCovered, [Next]_vars
  PROVE  RetriesCovered'
<1> SUFFICES ASSUME NEW k \in Orders
             PROVE  Cardinality(RetriesOf(k)') + Cardinality(Retrying(k)')
                      < MaxRetries + Cardinality(Clients)
  BY DEF RetriesCovered
<1>f. /\ Cardinality(RetriesOf(k)) \in Nat /\ Cardinality(Retrying(k)) \in Nat
      /\ Cardinality(Clients) \in Nat /\ MaxRetries \in Nat
  BY RetriesAreFinite, StepsAssumption
<1>g. /\ IsFiniteSet(Retrying(k)') /\ Cardinality(Retrying(k)') \in Nat
      /\ Cardinality(Retrying(k)') <= Cardinality(Clients)
  BY ClientsAssumption, FS_Subset, FS_CardinalityType DEF Retrying
<1>i. Cardinality(RetriesOf(k)) + Cardinality(Retrying(k)) < MaxRetries + Cardinality(Clients)
  BY DEF RetriesCovered
<1>1. CASE Unmoved(k)
  <2>1. Cardinality(Retrying(k)') <= Cardinality(Retrying(k))
    BY <1>1, RetriesAreFinite, FS_Subset DEF Unmoved
  <2> QED BY <1>1, <1>f, <1>g, <1>i, <2>1 DEF Unmoved
<1>2. CASE Joined(k)
  BY <1>2, <1>f, <1>g DEF Joined
<1>3. CASE Added(k)
  BY <1>3, <1>f, <1>g, <1>i, AddedCounts
<1> QED BY <1>1, <1>2, <1>3, RetryCases

(* OvershootIsBounded: however calls overlap, a step has fewer retries than *)
(* its policy allows plus the calls in progress at once (RetryStep).        *)
THEOREM OvershootIsBounded == Spec => []RetryOvershoot
<1>1. Init => RetriesCovered
  BY InitRetries, RetriesAreFinite, StepsAssumption DEF RetriesCovered
<1>2. TypeOK /\ ViewsSound /\ RetriesCovered /\ [Next]_vars => RetriesCovered'
  BY CoverKept DEF Sound
<1>3. RetriesCovered => RetryOvershoot
  BY RetriesAreFinite, StepsAssumption DEF RetriesCovered, RetryOvershoot
<1> QED
  BY <1>1, <1>2, <1>3, RunViewsSound, PTL DEF Spec
=============================================================================
