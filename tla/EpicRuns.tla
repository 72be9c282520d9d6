------------------------------ MODULE EpicRuns ------------------------------
(* Launching stories, one by one and epic by epic: LaunchRun, the epic run  *)
(* service and the parallel group executor.  Of ExecuteRun only what its    *)
(* callers see of it is here; PipelineExecutor has the rest.                *)
EXTENDS Scheduler, Sequences

CONSTANTS Stories,    \* the epic's stories, numbered in key order
          Plans,      \* epics with the operations and outcomes allowed on them
          MaxRuns     \* runs that can be created

Active == {"pending", "running", "paused"}
RunTerminal == {"completed", "failed", "cancelled"}

VARIABLES plan,     \* deps, files, config, gated, fails, refused, polite, ops
          dag,      \* the last answer of BuildDAG
          story,    \* stories.status
          runs,     \* the run rows: story, status, steps done, gate approved
          queue,    \* runs with a queued execute_run job
          act,      \* what each goroutine, the user's request and the worker do
          epic,     \* epic_runs.status
          rows,     \* epic_run_stories: status, run_id
          group,    \* the layer under way
          cancelled,\* the context of the layer's errgroup is done
          ops       \* operations left to users

vars == <<plan, dag, story, runs, queue, act, epic, rows, group, cancelled, ops>>

(* The goroutine of a story goes by the story; two more actors follow them. *)
User == 100
Worker == 101
Actors == Stories \cup {User, Worker}

ASSUME StoriesAssumption == /\ IsFiniteSet(Stories) /\ Stories \subseteq Nat
                            /\ User \notin Stories /\ Worker \notin Stories

(* What a polite plan rules out: a failed or cancelled run that is set      *)
(* running again, by a retry or by a second executor that parks it at its   *)
(* gate, while another run of the story has taken its place.                *)
ASSUME PlansAssumption ==
    \A p \in Plans :
      /\ DOMAIN p.deps = Stories /\ DOMAIN p.files = Stories
      /\ p.ops \in [epic : BOOLEAN, launch : Nat, pause : Nat, resume : Nat, retry : Nat, cancel : Nat]
      /\ p.polite => /\ p.ops.retry = 0 /\ p.ops.cancel = 0
                     /\ p.gated = {} \/ ~p.ops.epic \/ p.ops.launch = 0

NoRun == 0
NoDAG == [error |-> "none"]
Idle == [at |-> "off", story |-> 0, run |-> NoRun, next |-> 0]
Layer(g) == {s \in Stories : dag.layer[s] = g}
Steps(s) == IF s \in plan.gated THEN 2 ELSE 1

Init ==
    /\ plan \in Plans
    /\ dag = NoDAG
    /\ story = [s \in Stories |-> "backlog"]
    /\ runs = <<>>
    /\ queue = {}
    /\ act = [a \in Actors |-> [Idle EXCEPT !.story = IF a \in Stories THEN a ELSE 0]]
    /\ epic = "none"
    /\ rows = [s \in Stories |-> [status |-> "absent", run |-> NoRun]]
    /\ group = 0
    /\ cancelled = FALSE
    /\ ops = plan.ops

(***************************************************************************)
(* The statements.                                                         *)
(***************************************************************************)
ContextDone(a) == a \in Stories /\ cancelled

(* Mutant of GetActiveRunByStory. *)
GetActiveUnpaused(s) == {r \in DOMAIN runs : runs[r].story = s /\ runs[r].status \in {"pending", "running"}}

GetActiveRunByStory(s) == {r \in DOMAIN runs : runs[r].story = s /\ runs[r].status \in Active}

CreateRun(s) == runs' = Append(runs, [story |-> s, status |-> "pending", done |-> 0, approved |-> FALSE])

UpdateRunStatus(r, status) == runs' = [runs EXCEPT ![r].status = status]

UpdateStory(s, status) == story' = [story EXCEPT ![s] = status]

CreateEpicRun == epic' = "pending"

InsertEpicRunStory == rows' = [s \in Stories |-> [status |-> "pending", run |-> NoRun]]

UpdateEpicRunStatus(status) == epic' = status

(* On the errgroup's context: a no-op once a sibling has failed.            *)
UpdateEpicRunStoryStatus(s, status, r) ==
    rows' = IF cancelled THEN rows ELSE [rows EXCEPT ![s] = [status |-> status, run |-> r]]

Go(a, at) == act' = [act EXCEPT ![a].at = at]

(***************************************************************************)
(* runStory: what its two callees return to it.  The first error of a      *)
(* goroutine ends the context of its group.                                *)
(***************************************************************************)
StoryCompleted(s) ==
    /\ UpdateEpicRunStoryStatus(s, "completed", act[s].run)
    /\ Go(s, "done")
    /\ UNCHANGED cancelled

StoryFailed(s, r) ==
    /\ UpdateEpicRunStoryStatus(s, "failed", r)
    /\ Go(s, "failed")
    /\ cancelled' = TRUE

Off(a) == act' = [act EXCEPT ![a] = Idle] /\ UNCHANGED <<rows, cancelled>>

LaunchReturnsError(a) == IF a = User THEN Off(a) ELSE StoryFailed(a, NoRun)

ExecuteReturns(a, err) ==
    CASE a = Worker -> Off(a)
      [] a # Worker /\ err -> StoryFailed(a, act[a].run)
      [] OTHER -> StoryCompleted(a)

(***************************************************************************)
(* LaunchRun, for a request or for a goroutine of the epic.                *)
(***************************************************************************)
(* In a polite plan no two launches of a story overlap.                     *)
Alone(a) ==
    plan.polite => \A b \in DOMAIN act \ {a} :
      act[b].story = act[a].story => act[b].at \notin {"active", "create"}

LaunchStory(a) ==
    /\ act[a].at = "story" /\ Alone(a)
    /\ IF ContextDone(a) \/ story[act[a].story] = "done"
       THEN LaunchReturnsError(a)
       ELSE Go(a, "active") /\ UNCHANGED <<rows, cancelled>>
    /\ UNCHANGED <<plan, dag, story, runs, queue, epic, group, ops>>

LaunchActive(a) ==
    /\ act[a].at = "active"
    /\ IF ContextDone(a) \/ GetActiveRunByStory(act[a].story) # {}
       THEN LaunchReturnsError(a)
       ELSE Go(a, "create") /\ UNCHANGED <<rows, cancelled>>
    /\ UNCHANGED <<plan, dag, story, runs, queue, epic, group, ops>>

(* The pipeline config, its agents and their stacks are there or the launch *)
(* is refused; the run's step rows are part of the run.                     *)
LaunchCreate(a) ==
    /\ act[a].at = "create"
    /\ IF ContextDone(a) \/ plan.config # "ok"
       THEN LaunchReturnsError(a) /\ UNCHANGED runs
       ELSE /\ Len(runs) < MaxRuns
            /\ CreateRun(act[a].story)
            /\ act' = [act EXCEPT ![a].at = "enqueue", ![a].run = Len(runs) + 1]
            /\ UNCHANGED <<rows, cancelled>>
    /\ UNCHANGED <<plan, dag, story, queue, epic, group, ops>>

(* Mutant of LaunchEnqueue. *)
EnqueueUnlessBusy(a) ==
    /\ act[a].at = "enqueue"
    /\ queue' = IF act[Worker].at = "off" THEN queue \cup {act[a].run} ELSE queue
    /\ IF a = User THEN Off(a) ELSE Go(a, "mark") /\ UNCHANGED <<rows, cancelled>>
    /\ UNCHANGED <<plan, dag, story, runs, epic, group, ops>>

LaunchEnqueue(a) ==
    /\ act[a].at = "enqueue"
    /\ IF ContextDone(a)
       THEN LaunchReturnsError(a) /\ UNCHANGED queue
       ELSE /\ queue' = queue \cup {act[a].run}
            /\ IF a = User THEN Off(a) ELSE Go(a, "mark") /\ UNCHANGED <<rows, cancelled>>
    /\ UNCHANGED <<plan, dag, story, runs, epic, group, ops>>

Launch(a) == LaunchStory(a) \/ LaunchActive(a) \/ LaunchCreate(a) \/ LaunchEnqueue(a)

(***************************************************************************)
(* ExecuteRun, by the goroutine that launched the run or by the worker     *)
(* that takes its job.                                                     *)
(***************************************************************************)
WorkerTakes(r) ==
    /\ act[Worker].at = "off" /\ r \in queue
    /\ queue' = queue \ {r}
    /\ act' = [act EXCEPT ![Worker] = [at |-> "start", story |-> runs[r].story, run |-> r, next |-> 0]]
    /\ UNCHANGED <<plan, dag, story, runs, epic, rows, group, cancelled, ops>>

ExecStart(a) ==
    /\ act[a].at = "start"
    /\ LET r == act[a].run IN
         \/ /\ ContextDone(a) \/ runs[r].status \in RunTerminal
            /\ ExecuteReturns(a, ContextDone(a))
            /\ UNCHANGED <<runs, story>>
         \/ /\ ~ContextDone(a) /\ runs[r].status \notin RunTerminal /\ plan.refused
            /\ UpdateRunStatus(r, "failed")
            /\ ExecuteReturns(a, TRUE)
            /\ UNCHANGED story
         \/ /\ ~ContextDone(a) /\ runs[r].status \notin RunTerminal /\ ~plan.refused
            /\ UpdateRunStatus(r, "running")
            /\ UpdateStory(act[a].story, "running")
            /\ act' = [act EXCEPT ![a].at = "poll", ![a].next = runs[r].done + 1]
            /\ UNCHANGED <<rows, cancelled>>
    /\ UNCHANGED <<plan, dag, queue, epic, group, ops>>

ExecPoll(a) ==
    /\ act[a].at = "poll"
    /\ LET r == act[a].run IN
         \/ /\ ContextDone(a)
            /\ UpdateRunStatus(r, "cancelled")
            /\ UpdateStory(act[a].story, "backlog")
            /\ ExecuteReturns(a, TRUE)
         \/ /\ ~ContextDone(a)
            /\ IF runs[r].status = "paused"
               THEN ExecuteReturns(a, TRUE)
               ELSE /\ Go(a, IF act[a].next > Steps(act[a].story) THEN "finish" ELSE "step")
                    /\ UNCHANGED <<rows, cancelled>>
            /\ UNCHANGED <<runs, story>>
    /\ UNCHANGED <<plan, dag, queue, epic, group, ops>>

(* A gated story parks its run after the first step until it is approved.   *)
Suspends(a) ==
    act[a].story \in plan.gated /\ act[a].next = 1 /\ ~runs[act[a].run].approved

(* Mutant of StepDone. *)
StepDoneTwice(a) ==
    runs' = [runs EXCEPT ![act[a].run].done = @ + 1,
                         ![act[a].run].status = IF Suspends(a) THEN "paused" ELSE @]

StepDone(a) ==
    LET r == act[a].run IN
      runs' = [runs EXCEPT ![r].done = IF @ < act[a].next THEN act[a].next ELSE @,
                           ![r].status = IF Suspends(a) THEN "paused" ELSE @]

(* The agent has come to an end.  Under a context that is done nothing of   *)
(* it is written.                                                           *)
ExecStep(a) ==
    /\ act[a].at = "step"
    /\ \/ /\ ContextDone(a)
          /\ ExecuteReturns(a, TRUE)
          /\ UNCHANGED <<runs, story>>
       \/ /\ ~ContextDone(a) /\ act[a].story \in plan.fails
          /\ UpdateRunStatus(act[a].run, "failed")
          /\ UpdateStory(act[a].story, "failed")
          /\ ExecuteReturns(a, TRUE)
       \/ /\ ~ContextDone(a)
          /\ StepDone(a)
          /\ IF Suspends(a)
             THEN ExecuteReturns(a, FALSE)
             ELSE /\ act' = [act EXCEPT ![a].next = @ + 1,
                                        ![a].at = IF act[a].next = Steps(act[a].story) THEN "finish" ELSE "poll"]
                  /\ UNCHANGED <<rows, cancelled>>
          /\ UNCHANGED story
    /\ UNCHANGED <<plan, dag, queue, epic, group, ops>>

ExecFinish(a) ==
    /\ act[a].at = "finish"
    /\ IF ContextDone(a)
       THEN ExecuteReturns(a, TRUE) /\ UNCHANGED <<runs, story>>
       ELSE /\ UpdateRunStatus(act[a].run, "completed")
            /\ UpdateStory(act[a].story, "done")
            /\ ExecuteReturns(a, FALSE)
    /\ UNCHANGED <<plan, dag, queue, epic, group, ops>>

ExecuteRun(a) == ExecStart(a) \/ ExecPoll(a) \/ ExecStep(a) \/ ExecFinish(a)

RunStoryRunning(s) ==
    /\ act[s].at = "mark"
    /\ UpdateEpicRunStoryStatus(s, "running", act[s].run)
    /\ Go(s, "start")
    /\ UNCHANGED <<plan, dag, story, runs, queue, epic, group, cancelled, ops>>

(***************************************************************************)
(* LaunchEpicRun and Execute.                                              *)
(***************************************************************************)
LaunchEpicRun ==
    /\ epic = "none" /\ dag = NoDAG /\ plan.ops.epic
    /\ dag' = BuildDAG(plan.deps, plan.files)
    /\ IF "error" \in DOMAIN dag'
       THEN UNCHANGED <<epic, rows>>
       ELSE CreateEpicRun /\ InsertEpicRunStory
    /\ UNCHANGED <<plan, story, runs, queue, act, group, cancelled, ops>>

(* The epic's page: the same layers, nothing is created.                    *)
GetEpicDAG ==
    /\ dag = NoDAG /\ ~plan.ops.epic
    /\ dag' = BuildDAG(plan.deps, plan.files)
    /\ UNCHANGED <<plan, story, runs, queue, act, epic, rows, group, cancelled, ops>>

StartGroup(g) ==
    /\ group' = g
    /\ cancelled' = FALSE
    /\ act' = [a \in DOMAIN act |->
                 IF a \in Layer(g) THEN [act[a] EXCEPT !.at = "story"] ELSE act[a]]

ExecuteStarts ==
    /\ epic = "pending"
    /\ UpdateEpicRunStatus("running")
    /\ StartGroup(0)
    /\ UNCHANGED <<plan, dag, story, runs, queue, rows, ops>>

(* Mutant of GroupOver. *)
GroupOverAtFirst == \E s \in Layer(group) : act[s].at \in {"done", "failed"}

(* Mutant of GroupOver. *)
GroupOverWhenDone == \A s \in Layer(group) : act[s].at = "done"

GroupOver == \A s \in Layer(group) : act[s].at \in {"done", "failed"}

(* Mutant of GroupFailed. *)
GroupFailedNever == FALSE

GroupFailed == \E s \in Layer(group) : act[s].at = "failed"

ExecuteGoesOn ==
    /\ epic = "running" /\ GroupOver
    /\ IF GroupFailed
       THEN UpdateEpicRunStatus("failed") /\ UNCHANGED <<group, cancelled, act>>
       ELSE IF Layer(group + 1) # {}
            THEN StartGroup(group + 1) /\ UNCHANGED epic
            ELSE UpdateEpicRunStatus("completed") /\ UNCHANGED <<group, cancelled, act>>
    /\ UNCHANGED <<plan, dag, story, runs, queue, rows, ops>>

(***************************************************************************)
(* The users' operations on single stories and runs.                       *)
(***************************************************************************)
UserLaunches(s) ==
    /\ ops.launch > 0 /\ act[User].at = "off"
    /\ ops' = [ops EXCEPT !.launch = @ - 1]
    /\ act' = [act EXCEPT ![User] = [Idle EXCEPT !.at = "story", !.story = s]]
    /\ UNCHANGED <<plan, dag, story, runs, queue, epic, rows, group, cancelled>>

PauseRun(r) ==
    /\ ops.pause > 0 /\ runs[r].status = "running"
    /\ ops' = [ops EXCEPT !.pause = @ - 1]
    /\ UpdateRunStatus(r, "paused")
    /\ UNCHANGED <<plan, dag, story, queue, act, epic, rows, group, cancelled>>

(* An approval of the gate or a resume: the run is set running and queued.  *)
ResumeRun(r) ==
    /\ ops.resume > 0 /\ runs[r].status = "paused"
    /\ ops' = [ops EXCEPT !.resume = @ - 1]
    /\ runs' = [runs EXCEPT ![r].status = "running", ![r].approved = TRUE]
    /\ queue' = queue \cup {r}
    /\ UNCHANGED <<plan, dag, story, act, epic, rows, group, cancelled>>

(* RetryStep: a failed run is set running again and queued.                 *)
RetryStep(r) ==
    /\ ops.retry > 0 /\ runs[r].status = "failed"
    /\ ops' = [ops EXCEPT !.retry = @ - 1]
    /\ UpdateRunStatus(r, "running")
    /\ queue' = queue \cup {r}
    /\ UNCHANGED <<plan, dag, story, act, epic, rows, group, cancelled>>

CancelRun(r) ==
    /\ ops.cancel > 0 /\ runs[r].status \in Active
    /\ ops' = [ops EXCEPT !.cancel = @ - 1]
    /\ UpdateRunStatus(r, "cancelled")
    /\ UpdateStory(runs[r].story, "backlog")
    /\ UNCHANGED <<plan, dag, queue, act, epic, rows, group, cancelled>>

EpicStep == LaunchEpicRun \/ ExecuteStarts \/ ExecuteGoesOn
GoroutineStep(s) == Launch(s) \/ RunStoryRunning(s) \/ ExecuteRun(s)
WorkerStep == (\E r \in queue : WorkerTakes(r)) \/ ExecuteRun(Worker)
UserStep ==
    \/ GetEpicDAG
    \/ \E s \in Stories : UserLaunches(s)
    \/ \E r \in DOMAIN runs : PauseRun(r) \/ ResumeRun(r) \/ RetryStep(r) \/ CancelRun(r)

Next == EpicStep \/ (\E s \in Stories : GoroutineStep(s)) \/ WorkerStep \/ Launch(User) \/ UserStep

Spec == Init /\ [][Next]_vars

(* The server's goroutines run on: none of them waits for a person, and an  *)
(* agent's step ends, if only at its timeout.                               *)
FairSpec ==
    /\ Spec
    /\ WF_vars(EpicStep) /\ WF_vars(WorkerStep) /\ WF_vars(Launch(User))
    /\ \A s \in Stories : WF_vars(GoroutineStep(s))

-----------------------------------------------------------------------------
TypeOK ==
    /\ DOMAIN dag \in {{"error"}, {"layer"}}
    /\ story \in [Stories -> {"backlog", "running", "done", "failed"}]
    /\ \A r \in DOMAIN runs : runs[r].story \in Stories
                              /\ runs[r].status \in Active \cup RunTerminal
                              /\ runs[r].done \in 0..Steps(runs[r].story)
    /\ queue \subseteq DOMAIN runs
    /\ epic \in {"none", "pending", "running", "completed", "failed"}
    /\ \A s \in Stories : rows[s].status \in {"absent", "pending", "running", "completed", "failed"}
                          /\ rows[s].run \in DOMAIN runs \cup {NoRun}
    /\ cancelled \in BOOLEAN

(* An order of the stories exists unless some of them wait for each other.  *)
Waits(s, S) ==
    \E t \in S :
      \/ t \in plan.deps[s]
      \/ t < s /\ \E f \in plan.files[t] \cap plan.files[s] :
                    \A u \in Stories : t < u /\ u < s => f \notin plan.files[u]

(* BuildDAG refuses an epic exactly when some of its stories wait for each  *)
(* other, directly or around a cycle of dependencies and shared files.      *)
CycleIffRefused ==
    dag # NoDAG =>
      (("error" \in DOMAIN dag)
         <=> \E S \in (SUBSET Stories) \ {{}} : \A s \in S : Waits(s, S))

(* In the layers of BuildDAG a story comes after the stories it depends on, *)
(* no two stories of a layer touch the same file, and no layer is empty.    *)
LayersSound ==
    "layer" \in DOMAIN dag =>
      /\ \A s \in Stories : \A d \in plan.deps[s] \cap Stories : dag.layer[d] < dag.layer[s]
      /\ \A s, t \in Stories :
           s # t /\ plan.files[s] \cap plan.files[t] # {} => dag.layer[s] # dag.layer[t]
      /\ \A s \in Stories : \A i \in 0..dag.layer[s] : Layer(i) # {}

(* Fail-fast, as the rows tell it: a story of a layer is touched only when  *)
(* every story of the layers before it is marked completed.                 *)
GroupsInOrder ==
    \A s, t \in Stories :
      ("layer" \in DOMAIN dag /\ rows[s].status # "absent" /\ dag.layer[t] < dag.layer[s]
         /\ (rows[s].status # "pending" \/ act[s].at # "off"))
      => rows[t].status = "completed"

(* The verdict of an epic run fits its rows, the rows name runs of their    *)
(* own stories, and no goroutine of it is left when the verdict is written. *)
EpicVerdict ==
    /\ epic = "completed" => \A s \in Stories : rows[s].status = "completed"
    /\ epic = "failed" => \E s \in Stories : act[s].at = "failed"
    /\ epic \in {"completed", "failed"} =>
         \A s \in Stories : act[s].at \in {"off", "done", "failed"}
    /\ \A s \in Stories : rows[s].run # NoRun => runs[rows[s].run].story = s

(* When launches of a story do not overlap and no run is retried or         *)
(* cancelled, a story has at most one run pending, running or paused.       *)
OneActiveRun ==
    plan.polite => \A s \in Stories : Cardinality(GetActiveRunByStory(s)) <= 1

(* A pending run has a job, or somebody about to give it one or to execute  *)
(* it, unless the layer it was launched for has been cut short.             *)
PendingServed ==
    \A r \in DOMAIN runs :
      runs[r].status = "pending" =>
        \/ r \in queue
        \/ \E a \in DOMAIN act : act[a].run = r /\ act[a].at \in {"enqueue", "mark", "start"}
        \/ cancelled

(* An epic run that was started is completed or failed in the end, whatever *)
(* the people at its stories' runs do or leave undone.                      *)
EpicSettles == (epic = "pending") ~> (epic \in {"completed", "failed"})

(* Two agents never edit the same file concurrently.                        *)
FilesExclusive ==
    \A a, b \in DOMAIN act :
      (act[a].at = "step" /\ act[b].at = "step" /\ act[a].story # act[b].story)
      => plan.files[act[a].story] \cap plan.files[act[b].story] = {}
=============================================================================
