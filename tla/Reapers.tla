------------------------------ MODULE Reapers ------------------------------
(* The background services that look after containers from outside: the     *)
(* timeout enforcer with the orphan reconciler on its tick, the orphan      *)
(* cleaner and the reconciler at boot, and the sidecar GC.  The first three *)
(* run one after the other on one goroutine (rp); the GC has its own.       *)
EXTENDS AgentRun

VARIABLES rp,   \* the reaper: where it is, what it still has to look at
          gc    \* the GC holds a network it took for an orphan

reaperVars == <<rp, gc>>
Idle == [at |-> "idle", todo |-> {}, cur |-> None, live |-> {}, found |-> {}]
AgentsIn(S) == {e \in Execs : Agent(e) \in S}

RpGoto(l) == rp' = [Idle EXCEPT !.at = l]
KeepAll == UNCHANGED <<memVars, jobs, ops, up, env, gc>>
KeepDocker == UNCHANGED <<cs, exit, net, api, abandoned, ag>>

-----------------------------------------------------------------------------
(* TimeoutEnforcer.CheckTimeouts: only agents carry a step_id label.        *)

LateRunning == {e \in AgentsIn(ListContainers) :
                  step[row[e]].age >= 2 /\ step[row[e]].status = "running"}

(* The listing and, container by container, the age of the step's row: what *)
(* is not late now is looked at again on the next tick.                     *)
Late == {e \in AgentsIn(ListContainers) : step[row[e]].age >= 2}

(* On to the next container, or to the reconciler.                          *)
NextLate(rest) ==
    rp' = [Idle EXCEPT !.at = IF rest = {} THEN "reconcile" ELSE "stop", !.todo = rest]

CheckTimeouts ==
    /\ up /\ rp.at = "idle"
    /\ \/ NoFault /\ NextLate(Late)
       \/ Fault /\ RpGoto("reconcile")
    /\ KeepAll /\ KeepDocker /\ UNCHANGED rowVars

StopTimedOut ==
    /\ rp.at = "stop"
    /\ \E e \in rp.todo :
         \/ /\ NoFault /\ Stop(Agent(e)) /\ AgentFollows(e)
            /\ rp' = [rp EXCEPT !.at = "failstep", !.cur = e, !.todo = @ \ {e}]
         \/ /\ IF cs[Agent(e)] = "absent" THEN NoFault ELSE Fault
            /\ NextLate(rp.todo \ {e})
            /\ UNCHANGED <<cs, exit, ag>>
    /\ KeepAll /\ UNCHANGED <<net, api, abandoned, rowVars>>

FailTimedOutStep ==
    /\ rp.at = "failstep"
    /\ \/ NoFault /\ UpdateRunStepStatus(row[rp.cur], "failed")
       \/ Fault /\ UNCHANGED step
    /\ rp' = [rp EXCEPT !.at = "failrun"]
    /\ KeepAll /\ KeepDocker /\ UNCHANGED run

FailTimedOutRun ==
    /\ rp.at = "failrun"
    /\ \/ NoFault /\ UpdateRunStatus("failed")
       \/ Fault /\ UNCHANGED run
    /\ NextLate(rp.todo)
    /\ KeepAll /\ KeepDocker /\ UNCHANGED step

-----------------------------------------------------------------------------
(* OrphanReconciler.ReconcileOrphanedRuns.                                  *)

ListLive ==
    /\ rp.at = "reconcile"
    /\ \/ NoFault /\ rp' = [Idle EXCEPT !.at = "evaluate",
                                        !.live = AgentsIn(ListRunningContainers)]
       \/ Fault /\ RpGoto("idle")
    /\ KeepAll /\ KeepDocker /\ UNCHANGED rowVars

(* A running step past the grace window whose container is not in the list. *)
IsOrphaned(live) ==
    \E x \in Execs : /\ step[x].status = "running"
                     /\ step[x].cid # None
                     /\ step[x].age >= 1
                     /\ step[x].cid \notin live

Evaluate ==
    /\ rp.at = "evaluate"
    /\ RpGoto(IF run = "running" /\ IsOrphaned(rp.live) THEN "mark" ELSE "idle")
    /\ NoFault /\ KeepAll /\ KeepDocker /\ UNCHANGED rowVars

MarkOrphaned ==
    /\ rp.at = "mark"
    /\ \/ NoFault /\ MarkRunOrphanedIfRunning
       \/ Fault /\ UNCHANGED run
    /\ RpGoto("idle")
    /\ KeepAll /\ KeepDocker /\ UNCHANGED step

-----------------------------------------------------------------------------
(* OrphanCleaner.CleanupOrphans, once at boot, with the job queue already   *)
(* serving.                                                                 *)

CleanupOrphans ==
    /\ rp.at = "boot"
    /\ \/ NoFault /\ rp' = [Idle EXCEPT !.at = "clean", !.found = ListContainers]
       \/ Fault /\ RpGoto("reconcile")
    /\ KeepAll /\ KeepDocker /\ UNCHANGED rowVars

RemoveOrphan ==
    /\ rp.at = "clean"
    /\ IF rp.found = {}
       THEN /\ RpGoto("reconcile")
            /\ UNCHANGED <<cs, exit, ag, abandoned>> /\ NoFault
       ELSE \E c \in rp.found :
              /\ rp' = [rp EXCEPT !.found = @ \ {c}]
              /\ IF run \in {"running", "pending"}
                 THEN UNCHANGED <<cs, exit, ag, abandoned>> /\ NoFault
                 ELSE \/ /\ Remove(c) /\ NoFault
                         /\ abandoned' = abandoned \ {c}
                         /\ AgentFollows(c[2])
                      \/ UNCHANGED <<cs, exit, ag, abandoned>> /\ Fault
    /\ KeepAll /\ UNCHANGED <<net, api, rowVars>>

Reaper ==
    \/ CheckTimeouts \/ StopTimedOut \/ FailTimedOutStep \/ FailTimedOutRun
    \/ ListLive \/ Evaluate \/ MarkOrphaned
    \/ CleanupOrphans \/ RemoveOrphan

-----------------------------------------------------------------------------
(* SidecarManager.GC.                                                       *)

KeepForGC == UNCHANGED <<memVars, jobs, ops, up, env, rp, ag, rowVars>>

(* A network older than the window, listed while no container of its run is *)
(* running.                                                                 *)
ListOrphanNetworks ==
    /\ up /\ ~gc
    /\ net = "old" /\ ListRunningContainers = {}
    /\ gc' = TRUE
    /\ KeepForGC /\ UNCHANGED dockerVars

GcNetwork ==
    /\ gc
    /\ gc' = FALSE
    /\ \/ DisconnectContainer /\ RemoveNetwork
       \/ net = "absent" /\ NoFault /\ UNCHANGED <<net, api, abandoned>>
    /\ KeepForGC /\ UNCHANGED <<cs, exit>>

(* A command container older than the window has outlived its 30 minutes,   *)
(* so nobody waits for it any more.                                         *)
GcCommandContainers ==
    /\ up
    /\ \E e \in Execs : /\ cs[Command(e)] \in {"created", "exited"}
                        /\ pc[e] # "commandwait"
                        /\ Remove(Command(e))
                        /\ abandoned' = abandoned \ {Command(e)}
    /\ NoFault /\ KeepForGC /\ UNCHANGED <<net, api, gc>>

Collector == ListOrphanNetworks \/ GcNetwork \/ GcCommandContainers
=============================================================================
