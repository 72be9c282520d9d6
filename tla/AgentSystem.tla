---------------------------- MODULE AgentSystem ----------------------------
(* One run whose step is an agent: executions of the step, the agents in    *)
(* their containers, the background services, the people and services that  *)
(* halt, resume, retry and cancel, the clock, and crashes of the API.       *)
EXTENDS Reapers

vars == <<dockerVars, rowVars, env, memVars, ag, jobs, ops, up, reaperVars>>

Init == DockerInit /\ AgentInit /\ rp = Idle /\ gc = FALSE

Takes(o) == o \in env.allowed /\ ops > 0 /\ ops' = ops - 1
KeepExec == UNCHANGED <<pc, row, res, token, chan, buf, hold>>

-----------------------------------------------------------------------------
(* The clock: 60 seconds, 30 minutes and two hours since started_at, and    *)
(* the hour after which the GC takes a network for old.                     *)

Ages(x) ==
    /\ \E e \in Execs : /\ row[e] = x
                        /\ Live(e) \/ pc[e] = "dead" \/ cs[Agent(e)] # "absent"
    /\ step[x].age < env.clock
    /\ step' = [step EXCEPT ![x].age = @ + 1]
    /\ UNCHANGED <<dockerVars, run, env, memVars, ag, jobs, ops, up, reaperVars>>

NetAges ==
    /\ net = "new" /\ net' = "old"
    /\ \E x \in Execs : step[x].age >= 2
    /\ UNCHANGED <<cs, exit, api, faults, abandoned, rowVars, env, memVars, ag, jobs,
                   ops, up, reaperVars>>

-----------------------------------------------------------------------------
(* Operations on the run.                                                   *)

(* The job's 45 minutes are over.                                           *)
Expire(e) ==
    /\ Takes("expire") /\ Live(e) /\ ~ctx[e]
    /\ ctx' = [ctx EXCEPT ![e] = TRUE]
    /\ KeepExec /\ UNCHANGED <<dockerVars, rowVars, env, ag, jobs, up, reaperVars>>

(* The watchdog raises a probe halt: the step waits, the run is paused, the *)
(* container keeps running.                                                 *)
Halt(x) ==
    /\ Takes("halt") /\ up
    /\ step[x].status = "running"
    /\ UpdateRunStepStatus(x, "waiting") /\ UpdateRunStatus("paused")
    /\ UNCHANGED <<dockerVars, env, memVars, ag, jobs, up, reaperVars>>

(* HITLService.Resolve with "resume": the same row is executed again.       *)
Resume(x) ==
    /\ Takes("resume") /\ up
    /\ step[x].status = "waiting"
    /\ step' = [step EXCEPT ![x].status = "pending"]
    /\ UpdateRunStatus("running")
    /\ jobs' = jobs \cup {x}
    /\ UNCHANGED <<dockerVars, env, memVars, ag, up, reaperVars>>

(* RunService.RetryStep: a new row, a new job.                              *)
RetryStep(x) ==
    /\ Takes("retry") /\ up
    /\ run = "failed" /\ step[x].status = "failed"
    /\ \E y \in Execs : /\ step[y].status = "absent"
                        /\ step' = [step EXCEPT ![y].status = "pending"]
                        /\ jobs' = jobs \cup {y}
    /\ UpdateRunStatus("running")
    /\ UNCHANGED <<dockerVars, env, memVars, ag, up, reaperVars>>

(* RunService.CancelRun: the execution named by container_id is stopped and *)
(* removed, then step and run are cancelled.                                *)
CancelRun(x) ==
    /\ Takes("cancel") /\ up
    /\ run \in {"running", "paused"}
    /\ step[x].status \in {"running", "waiting"}
    /\ IF step[x].cid = None
       THEN UNCHANGED <<dockerVars, ag>>
       ELSE /\ StopAndRemove(Agent(step[x].cid))
            /\ AgentFollows(step[x].cid)
            /\ UNCHANGED <<net, api>>
    /\ UpdateRunStepStatus(x, "cancelled") /\ UpdateRunStatus("cancelled")
    /\ UNCHANGED <<env, memVars, jobs, up, reaperVars>>

-----------------------------------------------------------------------------
(* The API process dies and comes back.  Jobs in progress are not repeated. *)

Crash ==
    /\ Takes("crash") /\ up
    /\ up' = FALSE
    /\ pc' = [e \in Execs |-> IF Live(e) THEN "dead" ELSE pc[e]]
    /\ token' = {}
    /\ chan' = [x \in Execs |-> None]
    /\ buf' = [k \in Chans |-> Empty]
    /\ hold' = [e \in Execs |-> None]
    /\ rp' = Idle /\ gc' = FALSE
    /\ abandoned' = {c \in Containers : cs[c] # "absent"} \cup (IF net = "absent" THEN {} ELSE {Net})
    /\ UNCHANGED <<cs, exit, net, api, faults, rowVars, env, row, res, ctx, ag, jobs>>

Boot ==
    /\ ~up /\ up' = TRUE
    /\ rp' = [Idle EXCEPT !.at = "boot"]
    /\ UNCHANGED <<dockerVars, rowVars, env, memVars, ag, jobs, ops, gc>>

(* Execution steps leave the background services alone.                     *)
Executing(e) == (Execute(e) \/ CommandEnds(e) \/ AgentProcess(e)) /\ UNCHANGED reaperVars

Next ==
    \/ \E e \in Execs : Executing(e) \/ Expire(e)
    \/ \E x \in Execs : Ages(x) \/ Halt(x) \/ Resume(x) \/ RetryStep(x) \/ CancelRun(x)
    \/ NetAges \/ Reaper \/ Collector \/ Crash \/ Boot

Spec == Init /\ [][Next]_vars

(* Goroutines are scheduled, the clock advances, and the service manager    *)
(* restarts the API.  The agent's work itself need not end.                 *)
Fairness ==
    /\ \A e \in Execs : WF_vars(Execute(e) /\ UNCHANGED reaperVars)
    /\ \A e \in Execs : WF_vars(PostStatus(e) /\ UNCHANGED reaperVars)
    /\ \A e \in Execs : WF_vars(AgentExits(e) /\ UNCHANGED reaperVars)
    /\ \A x \in Execs : WF_vars(Ages(x))
    /\ WF_vars(Reaper)
    /\ WF_vars(Boot)

FairSpec == Spec /\ Fairness

-----------------------------------------------------------------------------
ReaperStates ==
    [at : {"idle", "stop", "failstep", "failrun", "reconcile", "evaluate", "mark", "boot", "clean"},
     todo : SUBSET Execs, cur : Execs \cup {None},
     live : SUBSET Execs, found : SUBSET Containers]

TypeOK == DockerTypeOK /\ AgentTypeOK /\ rp \in ReaperStates /\ gc \in BOOLEAN

(* A step ends well only when an agent that worked on this very step has    *)
(* reported success (awaitCallbackOrCrash, finishCallbackStatus).           *)
OutcomeReported ==
    env.mode = "callback" =>
      \A e \in Execs : res[e] = "ok" =>
        \E d \in Execs : row[d] = row[e] /\ ag[d].verdict = 0

(* Whatever path an execution leaves by, no container it started outlives   *)
(* it, unless the daemon refused the removal or the process died (the       *)
(* deferred Stop, removeEphemeral, Cleanup and the rollback of Launch).     *)
NothingLeaks ==
    \A c \in Containers : cs[c] # "absent" => Live(c[2]) \/ c \in abandoned

(* The network of the run is removed by the last execution that leaves      *)
(* (Cleanup, RemoveNetwork).                                                *)
NetworkNotLeaked ==
    net # "absent" => Net \in abandoned \/ \E e \in Execs : Live(e)

(* No agent runs for ever: whether its execution, the API or a write        *)
(* failed, the timeout enforcer gets to it (CheckTimeouts).                 *)
AgentStops ==
    \A e \in Execs :
      (env.clock >= 2 /\ cs[Agent(e)] = "running") ~> cs[Agent(e)] # "running"

(* When the API died under an agent, the run does not stay running: the     *)
(* reconciler or the enforcer fails it after the restart.                   *)
Bereft(e) ==
    /\ pc[e] = "dead" /\ run = "running"
    /\ cs[Agent(e)] # "absent"
    /\ step[row[e]].status = "running"

DeadSettles == \A e \in Execs : (env.clock >= 2 /\ Bereft(e)) ~> ~Bereft(e)
=============================================================================
