------------------------------- MODULE Docker -------------------------------
(* The containers and the network of one run in the Docker daemon, as       *)
(* adapter/docker/container_manager.go drives it, and the rows of the run   *)
(* that the agent's lifecycle reads and writes.                             *)
(*                                                                          *)
(* An execution of the agent_run action owns up to three containers: the    *)
(* agent, a container for the environment's setup commands, and a sidecar   *)
(* (one stands for all services).  The network is named after the run and   *)
(* shared by its executions.                                                *)
EXTENDS Naturals, FiniteSets

CONSTANTS Execs,       \* executions of agent_run for this run, 1..n
          Scenarios    \* see ScenariosAssumption

ASSUME ExecsAssumption ==
    IsFiniteSet(Execs) /\ Execs # {} /\ Execs = 1..Cardinality(Execs)

Kinds == {"agent", "command", "sidecar"}
Containers == Kinds \X Execs
None == 0
Net == <<"net", 0>>

(* A scenario is the environment of the project (services, setup commands,  *)
(* run isolation, how the agent reports) and what may happen: how many      *)
(* calls fail, how many operations come from outside and of which kind, and *)
(* how far the clock runs (60 seconds, 30 minutes, two hours).              *)
ASSUME ScenariosAssumption ==
    \A s \in Scenarios :
      /\ {s.services, s.commands, s.isolate} \subseteq BOOLEAN
      /\ s.mode \in {"callback", "legacy"}
      /\ s.faults \in Nat /\ s.ops \in Nat /\ s.clock \in 0..3
      /\ s.allowed \subseteq {"expire", "halt", "resume", "retry", "cancel", "crash"}

VARIABLES cs,         \* state of each container
          exit,       \* exit code of each exited container
          net,        \* the run network; "old" once past the GC window
          api,        \* the API container is attached to the run network
          faults,     \* failures left
          abandoned,  \* history: what a failed removal or a crash left behind
          env,        \* the scenario, fixed
          run,        \* runs.status
          step        \* run_steps: status, container_id, age since started_at

dockerVars == <<cs, exit, net, api, faults, abandoned>>
rowVars == <<run, step>>

Fault == faults > 0 /\ faults' = faults - 1
NoFault == UNCHANGED faults

NetworkUsed == env.services \/ env.isolate

(* Containers whose endpoint keeps the network from being removed. *)
Attached == {c \in Containers : cs[c] = "running"}

-----------------------------------------------------------------------------
(* One operator per method of the ContainerManager.                         *)

Create(c) == cs' = [cs EXCEPT ![c] = "created"] /\ UNCHANGED exit

Start(c) == cs' = [cs EXCEPT ![c] = "running"] /\ UNCHANGED exit

(* docker stop: SIGTERM, then SIGKILL; a stopped container stays stopped.   *)
StoppedForm(c) == IF cs[c] = "running" THEN "exited" ELSE cs[c]

Stop(c) ==
    /\ cs[c] # "absent"
    /\ cs' = [cs EXCEPT ![c] = StoppedForm(c)]
    /\ exit' = [exit EXCEPT ![c] = IF cs[c] = "running" THEN 1 ELSE @]

Remove(c) ==
    /\ cs' = [cs EXCEPT ![c] = "absent"]
    /\ exit' = [exit EXCEPT ![c] = 0]

(* Stop, then Remove with force, both best effort: the container is gone    *)
(* unless the daemon fails, and then it is left as it was or stopped.       *)
StopAndRemove(c) ==
    \/ Remove(c) /\ NoFault /\ abandoned' = abandoned \ {c}
    \/ /\ cs[c] # "absent"
       /\ Fault
       /\ \E left \in {cs[c], StoppedForm(c)} : cs' = [cs EXCEPT ![c] = left]
       /\ exit' = [exit EXCEPT ![c] = 1]
       /\ abandoned' = abandoned \cup {c}

Wait(c) == IF cs[c] = "exited" THEN exit[c] ELSE 0

ListRunningContainers == {c \in Containers : cs[c] = "running"}

ListContainersRunning == ListRunningContainers

ListContainers == {c \in Containers : cs[c] # "absent"}

(* Idempotent: an existing network of this name is returned as it is.       *)
CreateNetwork == net' = IF net = "absent" THEN "new" ELSE net

ConnectContainer == api' = env.isolate

DisconnectContainer == api' = FALSE

(* The daemon refuses to remove a network with active endpoints.            *)
RemoveNetwork ==
    \/ /\ Attached = {}
       /\ net' = "absent" /\ NoFault /\ abandoned' = abandoned \ {Net}
    \/ /\ Attached # {}
       /\ UNCHANGED net /\ NoFault /\ abandoned' = abandoned \cup {Net}
    \/ /\ net # "absent" /\ Fault
       /\ UNCHANGED net /\ abandoned' = abandoned \cup {Net}

-----------------------------------------------------------------------------
(* Statements on the run's rows.  A row is named after the execution it was *)
(* created for; a resumed step is executed again on the same row.           *)

UpdateRunStepStatus(x, s) == step' = [step EXCEPT ![x].status = s]

UpdateRunStepContainerInfo(x, e) == step' = [step EXCEPT ![x].cid = e]

UpdateRunStatus(s) == run' = s

MarkRunOrphanedIfRunning == run' = IF run = "running" THEN "failed" ELSE run

DockerInit ==
    /\ cs = [c \in Containers |-> "absent"]
    /\ exit = [c \in Containers |-> 0]
    /\ net = "absent"
    /\ api = FALSE
    /\ abandoned = {}
    /\ env \in Scenarios
    /\ faults = env.faults
    /\ run = "pending"
    /\ step = [x \in Execs |-> [status |-> IF x = 1 THEN "pending" ELSE "absent",
                                cid |-> None, age |-> 0]]

ContainerStates == {"absent", "created", "running", "exited"}
RunStatuses == {"pending", "running", "paused", "completed", "failed", "cancelled"}
StepStatuses == {"absent", "pending", "running", "waiting", "completed", "failed", "cancelled"}
StepRows == [status : StepStatuses, cid : Execs \cup {None}, age : 0..3]

DockerTypeOK ==
    /\ cs \in [Containers -> ContainerStates]
    /\ exit \in [Containers -> {0, 1}]
    /\ net \in {"absent", "new", "old"}
    /\ api \in BOOLEAN
    /\ faults \in 0..env.faults
    /\ abandoned \subseteq Containers \cup {Net}
    /\ env \in Scenarios
    /\ run \in RunStatuses
    /\ step \in [Execs -> StepRows]
=============================================================================
