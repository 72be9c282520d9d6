------------------------------ MODULE AgentRun ------------------------------
(* The agent_run action (adapter/action/agent_run.go and its two siblings): *)
(* what one execution does, the two in-memory stores it shares with the     *)
(* callback endpoint, and the agent process inside the container            *)
(* (agent-runtime).  One action per call that another process can observe.  *)
EXTENDS Docker

VARIABLES up,     \* the API process is running
          pc,     \* control state of each execution
          row,    \* the run_steps row it executes
          res,    \* what it will return
          ctx,    \* its context is cancelled
          token,  \* executions whose callback token is valid
          chan,   \* CallbackStatusStore.channels: row -> channel
          buf,    \* the buffer of each channel
          hold,   \* the channel a WaitForStatus call reads from
          ag,     \* the agent process
          jobs,   \* rows for which a job is queued
          ops     \* operations left

memVars == <<pc, row, res, ctx, token, chan, buf, hold>>

(* As many names as can be registered and read from at once, and one more.  *)
Chans == 1..(2 * Cardinality(Execs) + 1)
Unknown == 2
Empty == [code |-> Unknown, from |-> None]
Agent(e) == <<"agent", e>>
Command(e) == <<"command", e>>
Sidecar(e) == <<"sidecar", e>>
Live(e) == pc[e] \notin {"idle", "done", "dead"}

(* The process is gone; what it had found remains as history.               *)
Off(e) == [ag EXCEPT ![e] = [@ EXCEPT !.at = "off", !.tries = 0]]

(* A container that was stopped takes its agent process with it.            *)
AgentFollows(e) == ag' = IF cs'[Agent(e)] = "running" THEN ag ELSE Off(e)

AgentInit ==
    /\ up = TRUE
    /\ pc = [e \in Execs |-> "idle"]
    /\ row = [e \in Execs |-> None]
    /\ res = [e \in Execs |-> "none"]
    /\ ctx = [e \in Execs |-> FALSE]
    /\ token = {}
    /\ chan = [x \in Execs |-> None]
    /\ buf = [k \in Chans |-> Empty]
    /\ hold = [e \in Execs |-> None]
    /\ ag = [e \in Execs |-> [at |-> "off", verdict |-> Unknown, tries |-> 0]]
    /\ jobs = {1}
    /\ ops = env.ops

-----------------------------------------------------------------------------
(* Control flow of Execute: the deferred calls run in reverse order.        *)

AfterSidecars ==
    IF env.commands THEN "command" ELSE IF env.mode = "legacy" THEN "launch" ELSE "mint"
AfterNetwork == IF env.services THEN "sidecar" ELSE AfterSidecars
AfterEnvironment == IF NetworkUsed THEN "network" ELSE AfterSidecars
Teardown == IF NetworkUsed THEN "unsidecar" ELSE "write"

Goto(e, l) == pc' = [pc EXCEPT ![e] = l]

Fail(e, l) ==
    /\ Goto(e, l)
    /\ res' = [res EXCEPT ![e] = IF ctx[e] THEN "cancelled" ELSE "failed"]

(* A call made with the execution's context fails when the context is       *)
(* cancelled and may fail otherwise.                                        *)
CallFails(e) == IF ctx[e] THEN NoFault ELSE Fault
CallWorks(e) == ~ctx[e] /\ NoFault

KeepMem == UNCHANGED <<row, ctx, token, chan, buf, hold>>
KeepRest == UNCHANGED <<ag, jobs, ops, up, env>>

(* ExecuteRun reaches the step: started_at is set, the container_id of an   *)
(* earlier execution of the row stays.                                      *)
Begin(e) ==
    /\ up /\ pc[e] = "idle"
    /\ \A d \in Execs : d < e => pc[d] # "idle"
    /\ \E x \in jobs :
         /\ jobs' = jobs \ {x}
         /\ row' = [row EXCEPT ![e] = x]
         /\ step' = [step EXCEPT ![x] = [@ EXCEPT !.status = "running", !.age = 0]]
    /\ run' = "running"
    /\ Goto(e, "environment")
    /\ UNCHANGED <<res, ctx, token, chan, buf, hold, ag, ops, up, env>>
    /\ UNCHANGED dockerVars

(* Story, project, prompt, image and environment are read; an error returns *)
(* before anything was started.                                             *)
ResolveEnvironment(e) ==
    /\ pc[e] = "environment"
    /\ \/ CallWorks(e) /\ Goto(e, AfterEnvironment) /\ UNCHANGED res
       \/ CallFails(e) /\ Fail(e, "write")
    /\ KeepMem /\ KeepRest
    /\ UNCHANGED <<cs, exit, net, api, abandoned, run, step>>

(* What a partial Launch started is torn down as Cleanup does it.           *)
Rollback(e) == Fail(e, "unsidecar")

(* SidecarManager.Launch: the network first.  A failed connect rolls back.  *)
LaunchNetwork(e) ==
    /\ pc[e] = "network"
    /\ \/ /\ CallWorks(e) /\ CreateNetwork /\ ConnectContainer
          /\ Goto(e, AfterNetwork) /\ UNCHANGED res
       \/ CallFails(e) /\ Fail(e, "write") /\ UNCHANGED <<net, api>>
       \/ /\ env.isolate /\ CallFails(e) /\ CreateNetwork
          /\ Rollback(e) /\ UNCHANGED api
    /\ KeepMem /\ KeepRest
    /\ UNCHANGED <<cs, exit, abandoned, run, step>>

(* launchService: create and start; on an error the service is left where   *)
(* it got to and the rollback takes it down.  Creating a container on a     *)
(* network that is gone is an error too.                                    *)
LaunchService(e) ==
    /\ pc[e] = "sidecar"
    /\ \/ /\ CallWorks(e) /\ net # "absent" /\ Start(Sidecar(e))
          /\ Goto(e, "ready") /\ UNCHANGED res
       \/ /\ IF net = "absent" THEN NoFault ELSE CallFails(e)
          /\ \/ UNCHANGED <<cs, exit>>
             \/ Create(Sidecar(e)) /\ net # "absent"
          /\ Rollback(e)
    /\ KeepMem /\ KeepRest
    /\ UNCHANGED <<net, api, abandoned, run, step>>

(* Polls the health of the service until it is good, bad or too late.       *)
WaitReady(e) ==
    /\ pc[e] = "ready"
    /\ \/ CallWorks(e) /\ Goto(e, AfterSidecars) /\ UNCHANGED res
       \/ CallFails(e) /\ Rollback(e)
    /\ KeepMem /\ KeepRest
    /\ UNCHANGED <<cs, exit, net, api, abandoned, run, step>>

(* runOneCommand: create and start the ephemeral container.                 *)
RunOneCommand(e) ==
    /\ pc[e] = "command"
    /\ \/ /\ CallWorks(e) /\ Start(Command(e))
          /\ Goto(e, "commandwait") /\ UNCHANGED res
       \/ CallFails(e) /\ UNCHANGED <<cs, exit>> /\ Fail(e, Teardown)
       \/ CallFails(e) /\ Create(Command(e)) /\ Fail(e, "uncommand")
    /\ KeepMem /\ KeepRest
    /\ UNCHANGED <<net, api, abandoned, run, step>>

(* The command container ends by itself, the 30-minute limit passes or the  *)
(* context ends.                                                            *)
CommandEnds(e) ==
    /\ cs[Command(e)] = "running"
    /\ cs' = [cs EXCEPT ![Command(e)] = "exited"]
    /\ \E c \in {0, 1} : exit' = [exit EXCEPT ![Command(e)] = c]
    /\ UNCHANGED <<net, api, faults, abandoned, rowVars, memVars>>
    /\ KeepRest

CommandFailureReturns(e) ==
    /\ pc[e] = "commandwait"
    /\ \/ /\ cs[Command(e)] = "exited" /\ exit[Command(e)] = 0
          /\ Goto(e, "uncommand") /\ UNCHANGED res
       \/ /\ \/ cs[Command(e)] = "exited" /\ exit[Command(e)] = 1
             \/ ctx[e]
             \/ step[row[e]].age >= 2
          /\ Fail(e, Teardown)
    /\ KeepMem /\ KeepRest
    /\ UNCHANGED <<dockerVars, rowVars>>

CommandWait(e) ==
    /\ pc[e] = "commandwait"
    /\ \/ /\ cs[Command(e)] = "exited" /\ exit[Command(e)] = 0
          /\ Goto(e, "uncommand") /\ UNCHANGED res
       \/ /\ \/ cs[Command(e)] = "exited" /\ exit[Command(e)] = 1
             \/ ctx[e]
             \/ step[row[e]].age >= 2
          /\ Fail(e, "uncommand")
    /\ KeepMem /\ KeepRest
    /\ UNCHANGED <<dockerVars, rowVars>>

(* defer removeEphemeral, then on to the agent or out.                      *)
RemoveEphemeral(e) ==
    /\ pc[e] = "uncommand"
    /\ StopAndRemove(Command(e))
    /\ Goto(e, IF res[e] # "none" THEN Teardown
               ELSE IF env.mode = "legacy" THEN "launch" ELSE "mint")
    /\ UNCHANGED <<res, net, api, rowVars>>
    /\ KeepMem /\ KeepRest

-----------------------------------------------------------------------------
(* ContainerTokenStore and the launch.                                      *)

PrepareCallback(e) ==
    /\ pc[e] = "mint"
    /\ token' = token \cup {e}
    /\ Goto(e, "launch")
    /\ UNCHANGED <<row, res, ctx, chan, buf, hold>> /\ KeepRest
    /\ UNCHANGED <<dockerVars, rowVars>>

(* Runtime.Launch: create, attach, start.  A failed start is torn down      *)
(* inline; a failed create leaves nothing, or the container whose           *)
(* attachment failed when its removal fails as well.                        *)
Launch(e) ==
    /\ pc[e] = "launch"
    /\ \/ /\ CallWorks(e) /\ (NetworkUsed => net # "absent")
          /\ Start(Agent(e))
          /\ ag' = [ag EXCEPT ![e].at = "work"]
          /\ Goto(e, "persist")
          /\ UNCHANGED <<res, abandoned>>
       \/ /\ IF NetworkUsed /\ net = "absent" THEN NoFault ELSE CallFails(e)
          /\ \/ UNCHANGED <<cs, abandoned>>
             \/ /\ NetworkUsed /\ ~env.isolate
                /\ cs' = [cs EXCEPT ![Agent(e)] = "created"]
                /\ abandoned' = abandoned \cup {Agent(e)}
          /\ UNCHANGED <<exit, ag>>
          /\ Fail(e, Teardown)
    /\ KeepMem
    /\ UNCHANGED <<net, api, rowVars, jobs, ops, up, env>>

PersistContainerID(e) ==
    /\ pc[e] = "persist"
    /\ \/ CallWorks(e) /\ UpdateRunStepContainerInfo(row[e], e)
       \/ CallFails(e) /\ UNCHANGED step
    /\ Goto(e, IF env.mode = "legacy" THEN "stream" ELSE "await")
    /\ UNCHANGED <<res, cs, exit, net, api, abandoned, run>>
    /\ KeepMem /\ KeepRest

-----------------------------------------------------------------------------
(* CallbackStatusStore.  A channel that is neither registered nor read from *)
(* is garbage and its name is free.                                         *)

FreeChan == CHOOSE k \in Chans :
               /\ \A x \in Execs : chan[x] # k
               /\ \A d \in Execs : hold[d] # k

GetOrCreate(x) == IF chan[x] = None THEN FreeChan ELSE chan[x]

(* A value sent to a channel that already holds one is dropped.             *)
SetStatus(x, v) ==
    LET k == GetOrCreate(x)
        old == IF chan[x] = None THEN Empty ELSE buf[k] IN
    /\ chan' = [chan EXCEPT ![x] = k]
    /\ buf' = [buf EXCEPT ![k] = IF old = Empty THEN v ELSE old]

WaitForStatus(e) ==
    LET k == GetOrCreate(row[e]) IN
    /\ pc[e] = "await"
    /\ chan' = [chan EXCEPT ![row[e]] = k]
    /\ buf' = [buf EXCEPT ![k] = IF chan[row[e]] = None THEN Empty ELSE @]
    /\ hold' = [hold EXCEPT ![e] = k]
    /\ Goto(e, "status")
    /\ UNCHANGED <<row, res, ctx, token, dockerVars, rowVars>> /\ KeepRest

(* WaitForStatus returns and unregisters whatever channel the row has now.  *)
Unregister(e) ==
    /\ chan' = [chan EXCEPT ![row[e]] = None]
    /\ hold' = [hold EXCEPT ![e] = None]

StatusArrives(e) ==
    /\ pc[e] \in {"status", "clean", "grace"}
    /\ buf[hold[e]] # Empty
    /\ buf' = [buf EXCEPT ![hold[e]] = Empty]
    /\ Unregister(e)
    /\ res' = [res EXCEPT ![e] = IF buf[hold[e]].code = 0 THEN "ok" ELSE "failed"]
    /\ Goto(e, "revoke")
    /\ UNCHANGED <<row, ctx, token, dockerVars, rowVars>> /\ KeepRest

(* The context ends, or two hours pass.                                     *)
StatusGivenUp(e) ==
    /\ pc[e] \in {"status", "clean", "grace"}
    /\ ctx[e] \/ step[row[e]].age = 3
    /\ Unregister(e)
    /\ Fail(e, "revoke")
    /\ UNCHANGED <<row, ctx, token, buf, dockerVars, rowVars>> /\ KeepRest

(* The crash detector: runtime.Wait returned.  An error of Wait counts as   *)
(* exit code 0, and 0 keeps waiting for the status.                         *)
ProcessExitTrusted(e) ==
    /\ pc[e] = "status"
    /\ cs[Agent(e)] # "running"
    /\ IF Wait(Agent(e)) = 0
       THEN /\ res' = [res EXCEPT ![e] = "ok"]
            /\ Goto(e, "revoke")
            /\ Unregister(e)
            /\ UNCHANGED <<row, ctx, token, buf>>
       ELSE Goto(e, "grace") /\ UNCHANGED res /\ KeepMem
    /\ UNCHANGED <<dockerVars, rowVars>> /\ KeepRest

ProcessExited(e) ==
    /\ pc[e] = "status"
    /\ cs[Agent(e)] # "running"
    /\ Goto(e, IF Wait(Agent(e)) = 0 THEN "clean" ELSE "grace")
    /\ UNCHANGED <<res, dockerVars, rowVars>>
    /\ KeepMem /\ KeepRest

GraceElapsed(e) ==
    /\ pc[e] = "grace"
    /\ Unregister(e)
    /\ Fail(e, "revoke")
    /\ UNCHANGED <<row, ctx, token, buf, dockerVars, rowVars>> /\ KeepRest

(* Legacy mode: the log stream ends with the container, when the daemon     *)
(* drops it, or with the context.                                           *)
StreamLogs(e) ==
    /\ pc[e] = "stream"
    /\ \/ cs[Agent(e)] # "running" /\ ~ctx[e] /\ NoFault /\ Goto(e, "exitcode") /\ UNCHANGED res
       \/ cs[Agent(e)] = "running" /\ ~ctx[e] /\ Fault /\ Goto(e, "exitcode") /\ UNCHANGED res
       \/ ctx[e] /\ NoFault /\ Fail(e, "stop")
    /\ KeepMem /\ KeepRest
    /\ UNCHANGED <<cs, exit, net, api, abandoned, rowVars>>

(* handleContainerExit asks for the exit code for 30 seconds; a container   *)
(* that still runs then closes the channel without a value, which           *)
(* streamAndWait reads as 0 unless its context has ended meanwhile.         *)
StreamAndWait(e) ==
    /\ pc[e] = "exitcode"
    /\ IF ctx[e]
       THEN Fail(e, "stop")
       ELSE /\ res' = [res EXCEPT ![e] = IF Wait(Agent(e)) = 0 THEN "ok" ELSE "failed"]
            /\ Goto(e, "stop")
    /\ KeepMem /\ KeepRest
    /\ UNCHANGED <<dockerVars, rowVars>>

-----------------------------------------------------------------------------
(* The deferred calls and the executor's two writes.                        *)

RevokeCallbackToken(e) ==
    /\ pc[e] = "revoke"
    /\ token' = token \ {e}
    /\ Goto(e, "stop")
    /\ UNCHANGED <<row, res, ctx, chan, buf, hold, dockerVars, rowVars>> /\ KeepRest

StopAgent(e) ==
    /\ pc[e] = "stop"
    /\ StopAndRemove(Agent(e))
    /\ AgentFollows(e)
    /\ Goto(e, Teardown)
    /\ UNCHANGED <<res, net, api, rowVars, jobs, ops, up, env>>
    /\ KeepMem

(* SidecarManager.Cleanup, and the rollback of a failed Launch.             *)
TeardownContainersOnly(e) ==
    /\ pc[e] = "unsidecar"
    /\ StopAndRemove(Sidecar(e))
    /\ Goto(e, "write")
    /\ UNCHANGED <<res, net, api, rowVars>>
    /\ KeepMem /\ KeepRest

TeardownSidecars(e) ==
    /\ pc[e] = "unsidecar"
    /\ StopAndRemove(Sidecar(e))
    /\ Goto(e, "unnetwork")
    /\ UNCHANGED <<res, net, api, rowVars>>
    /\ KeepMem /\ KeepRest

TeardownNetwork(e) ==
    /\ pc[e] = "unnetwork"
    /\ DisconnectContainer
    /\ RemoveNetwork
    /\ Goto(e, "write")
    /\ UNCHANGED <<res, cs, exit, rowVars>>
    /\ KeepMem /\ KeepRest

(* executeStep's write: a step that waits for an approval is left alone,    *)
(* and the executor returns; any other status is overwritten.  The context  *)
(* is of no consequence from here on.                                       *)
WriteStep(e) ==
    LET suspended == res[e] = "ok" /\ step[row[e]].status = "waiting" IN
    /\ pc[e] = "write"
    /\ IF suspended
       THEN UNCHANGED step
       ELSE UpdateRunStepStatus(row[e], IF res[e] = "ok" THEN "completed" ELSE res[e])
    /\ Goto(e, IF suspended THEN "done" ELSE "writerun")
    /\ ctx' = [ctx EXCEPT ![e] = FALSE]
    /\ UNCHANGED <<res, row, token, chan, buf, hold, run, dockerVars>> /\ KeepRest

WriteRun(e) ==
    /\ pc[e] = "writerun"
    /\ UpdateRunStatus(IF res[e] = "ok" THEN "completed" ELSE res[e])
    /\ Goto(e, "done")
    /\ UNCHANGED <<res, step, dockerVars>>
    /\ KeepMem /\ KeepRest

Execute(e) ==
    \/ Begin(e) \/ ResolveEnvironment(e) \/ LaunchNetwork(e) \/ LaunchService(e)
    \/ WaitReady(e)
    \/ RunOneCommand(e) \/ CommandWait(e) \/ RemoveEphemeral(e)
    \/ PrepareCallback(e) \/ Launch(e) \/ PersistContainerID(e)
    \/ WaitForStatus(e) \/ StatusArrives(e) \/ StatusGivenUp(e)
    \/ ProcessExited(e) \/ GraceElapsed(e) \/ StreamLogs(e) \/ StreamAndWait(e)
    \/ RevokeCallbackToken(e) \/ StopAgent(e)
    \/ TeardownSidecars(e) \/ TeardownNetwork(e)
    \/ WriteStep(e) \/ WriteRun(e)

-----------------------------------------------------------------------------
(* The agent process: agent-runtime's Run and its callback client.          *)

KeepApi == UNCHANGED <<up, pc, row, res, ctx, token, hold, jobs, ops, env, rowVars>>

(* Clone, provider, commit and push are done; a verdict is to be reported.  *)
AgentFinishes(e) ==
    /\ ag[e].at = "work"
    /\ \E v \in {0, 1} :
         ag' = [ag EXCEPT ![e] = [at |-> "post", verdict |-> v, tries |-> 0]]
    /\ UNCHANGED <<chan, buf, dockerVars>> /\ KeepApi

(* One attempt of postJSON against InternalAuth and HandleStatus.  A reply  *)
(* may be lost after the status was set; the client then sends it again.    *)
MaxRetries == 3

RetryUncapped(e) == [ag[e] EXCEPT !.tries = @ + 1]

Retry(e) ==
    [ag[e] EXCEPT !.tries = @ + 1, !.at = IF ag[e].tries + 1 = MaxRetries THEN "error" ELSE @]

PostStatus(e) ==
    /\ ag[e].at = "post"
    /\ env.mode = "callback"
    /\ \/ /\ up /\ e \in token
          /\ SetStatus(row[e], [code |-> ag[e].verdict, from |-> e])
          /\ \/ ag' = [ag EXCEPT ![e].at = "reported"] /\ NoFault
             \/ ag' = [ag EXCEPT ![e] = Retry(e)] /\ Fault
       \/ /\ up /\ e \notin token
          /\ ag' = [ag EXCEPT ![e].at = "error"]
          /\ NoFault /\ UNCHANGED <<chan, buf>>
       \/ /\ \/ ~up /\ NoFault
             \/ up /\ Fault
          /\ ag' = [ag EXCEPT ![e] = Retry(e)]
          /\ UNCHANGED <<chan, buf>>
    /\ UNCHANGED <<cs, exit, net, api, abandoned>> /\ KeepApi

(* The process exits: 0 once the provider's verdict was accepted, 1 when it *)
(* could not be delivered or when clone, start or push failed; a legacy     *)
(* image exits with its verdict.                                            *)
ExitCodes(e) ==
    IF env.mode = "legacy" THEN {ag[e].verdict}
    ELSE IF ag[e].at = "error" THEN {1}
    ELSE IF ag[e].verdict = 0 THEN {0} ELSE {0, 1}

AgentExits(e) ==
    /\ \/ ag[e].at \in {"reported", "error"}
       \/ ag[e].at = "post" /\ env.mode = "legacy"
    /\ ag' = Off(e)
    /\ cs' = [cs EXCEPT ![Agent(e)] = "exited"]
    /\ \E c \in ExitCodes(e) : exit' = [exit EXCEPT ![Agent(e)] = c]
    /\ UNCHANGED <<chan, buf, net, api, faults, abandoned>> /\ KeepApi

(* Killed for memory, or the daemon stopped it.                             *)
AgentDies(e) ==
    /\ ag[e].at # "off"
    /\ Fault
    /\ ag' = Off(e)
    /\ cs' = [cs EXCEPT ![Agent(e)] = "exited"]
    /\ exit' = [exit EXCEPT ![Agent(e)] = 1]
    /\ UNCHANGED <<chan, buf, net, api, abandoned>> /\ KeepApi

AgentProcess(e) == AgentFinishes(e) \/ PostStatus(e) \/ AgentExits(e) \/ AgentDies(e)

Labels == {"idle", "environment", "network", "sidecar", "ready", "command",
           "commandwait", "uncommand", "mint", "launch", "persist", "await", "status",
           "clean", "grace", "stream", "exitcode", "revoke", "stop", "unsidecar",
           "unnetwork", "write", "writerun", "done", "dead"}
Outcomes == {"none", "ok", "failed", "cancelled"}
Values == [code : 0..2, from : Execs \cup {None}]
AgentStates == [at : {"off", "work", "post", "reported", "error"},
                verdict : 0..2, tries : 0..MaxRetries]

AgentTypeOK ==
    /\ up \in BOOLEAN
    /\ pc \in [Execs -> Labels]
    /\ row \in [Execs -> Execs \cup {None}]
    /\ res \in [Execs -> Outcomes]
    /\ ctx \in [Execs -> BOOLEAN]
    /\ token \subseteq Execs
    /\ chan \in [Execs -> Chans \cup {None}]
    /\ buf \in [Chans -> Values]
    /\ hold \in [Execs -> Chans \cup {None}]
    /\ ag \in [Execs -> AgentStates]
    /\ jobs \subseteq Execs
    /\ ops \in 0..env.ops
=============================================================================
