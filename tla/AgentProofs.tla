---------------------------- MODULE AgentProofs ----------------------------
(* AgentSystem for any number of executions and every scenario: what an     *)
(* execution starts is taken down or accounted for, the network of the run  *)
(* goes with the last execution, and a step ends well only on the word of   *)
(* an agent that worked on it.                                              *)
(*                                                                          *)
(* None of this is inductive by itself.  A container is removed by the      *)
(* execution that started it, at one point of its way out, so the invariant *)
(* says at which points it may exist (Owned); the same for the network, for *)
(* which any execution may answer (NetOwned).  A good outcome comes out of  *)
(* a channel, so the invariant says whose word is in each channel           *)
(* (BuffersTrue), which needs that no two rows ever share one               *)
(* (ChannelsApart) and that a verdict, once reached, stays (Processes).     *)
EXTENDS AgentSystem, FiniteSetTheorems, TLAPS

(* The points of Execute before the agent is started, at which it waits for *)
(* a status, at which an agent, a setup container, a sidecar and the        *)
(* network may exist, and past which the outcome is settled.                *)
PreLaunch == {"idle", "environment", "network", "sidecar", "ready", "command",
              "commandwait", "uncommand", "mint", "launch"}
Waiting == {"status", "clean", "grace"}
AgentHome == {"persist", "await", "stream", "exitcode", "revoke", "stop"} \cup Waiting
CommandHome == {"commandwait", "uncommand"}
SidecarHome == {"ready", "command", "mint", "launch", "unsidecar"} \cup CommandHome \cup AgentHome
NetworkHome == {"sidecar", "unnetwork"} \cup SidecarHome
Leaving == {"revoke", "stop", "unsidecar", "unnetwork", "write", "writerun", "done"}

(* What the control state of an execution says of its other variables:      *)
(* Execute.                                                                 *)
Paths ==
    /\ \A e \in Execs : pc[e] # "idle" => row[e] \in Execs
    /\ \A e \in Execs : pc[e] \in Leaving => res[e] # "none"
    /\ \A e \in Execs : pc[e] = "idle" => res[e] = "none"
    /\ \A e \in Execs : pc[e] \in {"sidecar", "ready"} => env.services
    /\ \A e \in Execs : pc[e] = "network" => NetworkUsed
    /\ \A e \in Execs : pc[e] \in {"stream", "exitcode"} => env.mode = "legacy"
    /\ \A e \in Execs : pc[e] \in Waiting <=> hold[e] # None

(* The agent process is there only while its container runs, and knows a    *)
(* verdict from the moment its work is done: agent-runtime's Run.           *)
Processes ==
    \A e \in Execs :
      /\ pc[e] \in PreLaunch => ag[e].at = "off" /\ ag[e].verdict = Unknown
      /\ ag[e].at # "off" => cs[Agent(e)] = "running"
      /\ ag[e].at = "work" => ag[e].verdict = Unknown
      /\ ag[e].at \in {"post", "reported", "error"} => ag[e].verdict \in {0, 1}
      /\ ag[e].at = "post" => ag[e].tries < MaxRetries

(* A container exists only between its start and its removal by the         *)
(* execution that owns it, or is known to have been left behind: the        *)
(* deferred calls of Execute and runOneCommand.                             *)
Owned ==
    \A e \in Execs :
      /\ cs[Agent(e)] # "absent" => pc[e] \in AgentHome \/ Agent(e) \in abandoned
      /\ cs[Command(e)] # "absent" => pc[e] \in CommandHome \/ Command(e) \in abandoned
      /\ cs[Sidecar(e)] # "absent" =>
           \/ NetworkUsed /\ pc[e] \in SidecarHome
           \/ Sidecar(e) \in abandoned

(* While the network exists, some execution is before its TeardownSidecars, *)
(* or its removal failed.                                                   *)
NetOwned ==
    net # "absent" => \/ Net \in abandoned
                      \/ NetworkUsed /\ \E e \in Execs : pc[e] \in NetworkHome

(* A channel of the CallbackStatusStore belongs to one row: GetOrCreate and *)
(* the unregistering of WaitForStatus.                                      *)
ChannelsApart ==
    /\ \A x, y \in Execs : chan[x] # None /\ chan[x] = chan[y] => x = y
    /\ \A e, x \in Execs : hold[e] # None /\ hold[e] = chan[x] => row[e] = x
    /\ \A e, d \in Execs : hold[e] # None /\ hold[e] = hold[d] => row[e] = row[d]

(* What is buffered in a channel is the verdict of an agent of the row the  *)
(* channel belongs to: SetStatus.                                           *)
BuffersTrue ==
    /\ \A k \in Chans : buf[k] # Empty =>
          /\ buf[k].from \in Execs /\ buf[k].code \in {0, 1}
          /\ ag[buf[k].from].verdict = buf[k].code
    /\ \A x \in Execs : chan[x] # None /\ buf[chan[x]] # Empty => row[buf[chan[x]].from] = x
    /\ \A e \in Execs : hold[e] # None /\ buf[hold[e]] # Empty => row[buf[hold[e]].from] = row[e]

(* The inductive invariant.                                                 *)
IInv == /\ TypeOK /\ Paths /\ Processes /\ Owned /\ NetOwned
        /\ ChannelsApart /\ BuffersTrue /\ OutcomeReported

LEMMA ExecsInterval == \E n \in Nat \ {0} : Execs = 1..n
<1>1. Cardinality(Execs) \in Nat
  BY ExecsAssumption, FS_CardinalityType
<1>2. Cardinality(Execs) # 0
  BY ExecsAssumption, FS_EmptySet
<1> QED BY <1>1, <1>2, ExecsAssumption

LEMMA ExecsAreNumbers == Execs \subseteq Nat \ {0} /\ None \notin Execs
BY ExecsInterval DEF None

LEMMA ScenarioTypes ==
  ASSUME TypeOK
  PROVE  /\ env.services \in BOOLEAN /\ env.commands \in BOOLEAN /\ env.isolate \in BOOLEAN
         /\ env.mode \in {"callback", "legacy"}
         /\ env.faults \in Nat /\ env.ops \in Nat /\ env.clock \in 0..3
BY ScenariosAssumption DEF TypeOK, DockerTypeOK

(* Channels are named after the rows registered for them and the calls that *)
(* read from them, two at most for each execution, so one name is free.     *)
LEMMA FreeChanIsFree ==
  ASSUME TypeOK
  PROVE  /\ FreeChan \in Chans
         /\ \A x \in Execs : chan[x] # FreeChan
         /\ \A d \in Execs : hold[d] # FreeChan
<1> PICK n \in Nat \ {0} : Execs = 1..n
  BY ExecsInterval
<1> DEFINE g == [i \in 1..(2 * n) |-> IF i <= n THEN chan[i] ELSE hold[i - n]]
           Used == {g[i] : i \in 1..(2 * n)}
<1>1. Cardinality(Execs) = n
  BY FS_Interval
<1>2. Chans = 1..(2 * n + 1) /\ IsFiniteSet(Chans) /\ Cardinality(Chans) = 2 * n + 1
  <2>1. Chans = 1..(2 * n + 1) /\ 2 * n + 1 \in Int
    BY <1>1 DEF Chans
  <2>2. IsFiniteSet(1..(2 * n + 1))
        /\ Cardinality(1..(2 * n + 1)) = IF 1 > 2 * n + 1 THEN 0 ELSE (2 * n + 1) - 1 + 1
    BY <2>1, FS_Interval
  <2> QED BY <2>1, <2>2
<1>3. IsFiniteSet(1..(2 * n)) /\ Cardinality(1..(2 * n)) = 2 * n
  <2>1. 2 * n \in Int
    OBVIOUS
  <2>2. IsFiniteSet(1..(2 * n))
        /\ Cardinality(1..(2 * n)) = IF 1 > 2 * n THEN 0 ELSE 2 * n - 1 + 1
    BY <2>1, FS_Interval
  <2> QED BY <2>2
<1>4. IsFiniteSet(Used) /\ Cardinality(Used) <= 2 * n
  <2>1. g \in Surjection(1..(2 * n), Used)
    BY DEF Surjection
  <2> HIDE DEF g, Used
  <2> QED BY <1>3, <2>1, FS_Surjection
<1>5. PICK k \in Chans : k \notin Used
  <2>1. SUFFICES ASSUME Chans \subseteq Used PROVE FALSE
    OBVIOUS
  <2>2. Cardinality(Chans) <= Cardinality(Used) /\ Cardinality(Used) \in Nat
    <3> HIDE DEF Used
    <3> QED BY <1>4, <2>1, FS_Subset, FS_CardinalityType
  <2> HIDE DEF Used
  <2> QED BY <1>2, <1>4, <2>2
<1>6. \A x \in Execs : chan[x] # k /\ hold[x] # k
  <2> TAKE x \in Execs
  <2>1. x \in 1..(2 * n) /\ x + n \in 1..(2 * n)
    OBVIOUS
  <2>2. g[x] = chan[x] /\ g[x + n] = hold[x]
    BY <2>1
  <2> QED BY <1>5, <2>1, <2>2
<1> QED BY <1>5, <1>6 DEF FreeChan

-----------------------------------------------------------------------------
(* What the model's updates of a container, a row, an agent and a channel   *)
(* keep.                                                                    *)

LEMMA FaultsBounded ==
  ASSUME TypeOK, Fault \/ NoFault
  PROVE  faults' \in 0..env.faults
BY ScenarioTypes, SMT DEF Fault, NoFault, TypeOK, DockerTypeOK

LEMMA RowUpdates ==
  ASSUME TypeOK, NEW x
  PROVE  /\ \A s \in StepStatuses : UpdateRunStepStatus(x, s) => step' \in [Execs -> StepRows]
         /\ \A e \in Execs : UpdateRunStepContainerInfo(x, e) => step' \in [Execs -> StepRows]
         /\ \A a \in 0..3 : [step EXCEPT ![x].age = a] \in [Execs -> StepRows]
         /\ \A s \in StepStatuses, a \in 0..3 :
              [step EXCEPT ![x] = [@ EXCEPT !.status = s, !.age = a]] \in [Execs -> StepRows]
<1> USE DEF UpdateRunStepStatus, UpdateRunStepContainerInfo
<1> DEFINE Set(v) == [step EXCEPT ![x] = v]
<1>1. step \in [Execs -> StepRows]
  BY DEF TypeOK, DockerTypeOK
<1>2. \A v \in StepRows : Set(v) \in [Execs -> StepRows]
  BY <1>1
<1>4. CASE x \in Execs
  <2>1. step[x] \in StepRows
    BY <1>1, <1>4
  <2> DEFINE r == step[x]
  <2>2. /\ \A s \in StepStatuses : [r EXCEPT !.status = s] \in StepRows
        /\ \A e \in Execs \cup {None} : [r EXCEPT !.cid = e] \in StepRows
        /\ \A a \in 0..3 : [r EXCEPT !.age = a] \in StepRows
        /\ \A s \in StepStatuses, a \in 0..3 : [r EXCEPT !.status = s, !.age = a] \in StepRows
    <3>1. r \in StepRows
      BY <2>1
    <3> HIDE DEF r
    <3>2. \A s \in StepStatuses : [r EXCEPT !.status = s] \in StepRows
      BY <3>1 DEF StepRows
    <3>3. \A e \in Execs \cup {None} : [r EXCEPT !.cid = e] \in StepRows
      BY <3>1 DEF StepRows
    <3>4. \A a \in 0..3 : [r EXCEPT !.age = a] \in StepRows
      BY <3>1 DEF StepRows
    <3>5. \A s \in StepStatuses, a \in 0..3 : [r EXCEPT !.status = s, !.age = a] \in StepRows
      BY <3>1 DEF StepRows
    <3> QED BY <3>2, <3>3, <3>4, <3>5
  <2> QED BY <1>2, <2>2, Zenon
<1>5. CASE x \notin Execs
  <2>1. \A v : Set(v) = step
    BY <1>1, <1>5
  <2> QED BY <1>1, <2>1
<1> QED BY <1>4, <1>5, Zenon

LEMMA AgentUpdates ==
  ASSUME TypeOK, NEW e \in Execs
  PROVE  /\ Off(e) \in [Execs -> AgentStates]
         /\ \A l \in {"off", "work", "post", "reported", "error"} :
              [ag EXCEPT ![e].at = l] \in [Execs -> AgentStates]
<1>1. ag \in [Execs -> AgentStates] /\ ag[e] \in AgentStates
  BY DEF TypeOK, AgentTypeOK
<1>2. \A v \in AgentStates : [ag EXCEPT ![e] = v] \in [Execs -> AgentStates]
  BY <1>1
<1>3. \A r \in AgentStates, l \in {"off", "work", "post", "reported", "error"} :
        [r EXCEPT !.at = l] \in AgentStates
  BY DEF AgentStates
<1>4. \A r \in AgentStates : [r EXCEPT !.tries = 0] \in AgentStates
  BY DEF AgentStates, MaxRetries
<1>5. PICK r : r = [ag[e] EXCEPT !.at = "off"]
  OBVIOUS
<1>6. PICK u : u = [r EXCEPT !.tries = 0]
  OBVIOUS
<1>7. Off(e) = [ag EXCEPT ![e] = u]
  BY <1>5, <1>6 DEF Off
<1>8. u \in AgentStates
  BY <1>1, <1>3, <1>4, <1>5, <1>6, Zenon
<1> QED BY <1>1, <1>2, <1>3, <1>7, <1>8, Zenon

LEMMA FollowsTypes ==
  ASSUME TypeOK, NEW e \in Execs, AgentFollows(e)
  PROVE  ag' \in [Execs -> AgentStates]
<1>1. ag \in [Execs -> AgentStates]
  BY DEF TypeOK, AgentTypeOK
<1>2. ag' = ag \/ ag' = Off(e)
  BY DEF AgentFollows
<1> QED BY <1>1, <1>2, AgentUpdates, Zenon

LEMMA ContainerUpdates ==
  ASSUME TypeOK, NEW c \in Containers
  PROVE  /\ StoppedForm(c) \in ContainerStates
         /\ Remove(c) \/ Stop(c) \/ StopAndRemove(c) =>
              cs' \in [Containers -> ContainerStates] /\ exit' \in [Containers -> {0, 1}]
         /\ StopAndRemove(c) =>
              /\ abandoned' \in SUBSET (Containers \cup {Net})
              /\ Fault \/ NoFault
<1>1. cs \in [Containers -> ContainerStates] /\ exit \in [Containers -> {0, 1}]
  BY DEF TypeOK, DockerTypeOK
<1>2. StoppedForm(c) \in ContainerStates /\ cs[c] \in ContainerStates
  BY <1>1 DEF StoppedForm, ContainerStates
<1>3. /\ \A s \in ContainerStates : [cs EXCEPT ![c] = s] \in [Containers -> ContainerStates]
      /\ \A k \in {0, 1} : [exit EXCEPT ![c] = k] \in [Containers -> {0, 1}]
  BY <1>1
<1>4. "absent" \in ContainerStates
  BY DEF ContainerStates
<1>5. (IF cs[c] = "running" THEN 1 ELSE exit[c]) \in {0, 1}
  BY <1>1
<1>6. Remove(c) => cs' \in [Containers -> ContainerStates] /\ exit' \in [Containers -> {0, 1}]
  BY <1>3, <1>4 DEF Remove
<1>7. Stop(c) => cs' \in [Containers -> ContainerStates] /\ exit' \in [Containers -> {0, 1}]
  BY <1>2, <1>3, <1>5 DEF Stop
<1>8. StopAndRemove(c) =>
        /\ cs' \in [Containers -> ContainerStates] /\ exit' \in [Containers -> {0, 1}]
        /\ abandoned' \in SUBSET (Containers \cup {Net})
        /\ Fault \/ NoFault
  BY <1>2, <1>3, <1>6, SMT DEF StopAndRemove, TypeOK, DockerTypeOK
<1> QED BY <1>2, <1>6, <1>7, <1>8

LEMMA ChannelsOf ==
  ASSUME TypeOK, NEW x \in Execs
  PROVE  GetOrCreate(x) \in Chans
BY FreeChanIsFree DEF GetOrCreate, TypeOK, AgentTypeOK

LEMMA UnregisterTypes ==
  ASSUME TypeOK, NEW e \in Execs, Unregister(e)
  PROVE  chan' \in [Execs -> Chans \cup {None}] /\ hold' \in [Execs -> Chans \cup {None}]
<1> PICK x : x = row[e]
  OBVIOUS
<1>1. chan' = [chan EXCEPT ![x] = None] /\ hold' = [hold EXCEPT ![e] = None]
  BY DEF Unregister
<1>2. /\ chan \in [Execs -> Chans \cup {None}]
      /\ hold \in [Execs -> Chans \cup {None}]
  BY DEF TypeOK, AgentTypeOK
<1> QED BY <1>1, <1>2

LEMMA OpsBounded ==
  ASSUME TypeOK, NEW o, Takes(o)
  PROVE  ops' \in 0..env.ops
BY ScenarioTypes DEF Takes, TypeOK, AgentTypeOK

LEMMA ReaperUpdates ==
  /\ \A l \in {"idle", "reconcile", "evaluate", "mark", "boot", "clean"} :
       RpGoto(l) => rp' \in ReaperStates
  /\ \A S \in SUBSET Execs : NextLate(S) => rp' \in ReaperStates
  /\ \A S \in SUBSET Execs :
       [Idle EXCEPT !.at = "evaluate", !.live = S] \in ReaperStates
  /\ \A S \in SUBSET Containers :
       [Idle EXCEPT !.at = "clean", !.found = S] \in ReaperStates
BY DEF RpGoto, NextLate, Idle, ReaperStates

(* The containers of an execution, and that no two are the same.            *)
LEMMA OwnContainers ==
  ASSUME NEW e \in Execs
  PROVE  {Agent(e), Command(e), Sidecar(e)} \subseteq Containers
BY DEF Agent, Command, Sidecar, Containers, Kinds

LEMMA ContainersDiffer ==
  \A d, e \in Execs :
    /\ Agent(d) \in Containers /\ Command(d) \in Containers /\ Sidecar(d) \in Containers
    /\ Agent(d) # Command(e) /\ Agent(d) # Sidecar(e) /\ Command(d) # Sidecar(e)
    /\ d # e => /\ Agent(d) # Agent(e) /\ Command(d) # Command(e)
                /\ Sidecar(d) # Sidecar(e)
    /\ Net \notin Containers
BY DEF Agent, Command, Sidecar, Containers, Kinds, Net

LEMMA TypeByExecute ==
  ASSUME TypeOK, Paths, Processes, NEW e \in Execs, Execute(e), UNCHANGED reaperVars
  PROVE  TypeOK'
<1> USE ExecsAreNumbers
<1>t. /\ cs \in [Containers -> ContainerStates] /\ exit \in [Containers -> {0, 1}]
      /\ net \in {"absent", "new", "old"} /\ api \in BOOLEAN
      /\ abandoned \in SUBSET (Containers \cup {Net})
      /\ run \in RunStatuses /\ step \in [Execs -> StepRows]
      /\ pc \in [Execs -> Labels] /\ row \in [Execs -> Execs \cup {None}]
      /\ res \in [Execs -> Outcomes] /\ ctx \in [Execs -> BOOLEAN] /\ token \in SUBSET Execs
      /\ chan \in [Execs -> Chans \cup {None}] /\ buf \in [Chans -> Values]
      /\ hold \in [Execs -> Chans \cup {None}] /\ ag \in [Execs -> AgentStates]
      /\ jobs \in SUBSET Execs /\ ops \in 0..env.ops
      /\ rp \in ReaperStates /\ gc \in BOOLEAN /\ up \in BOOLEAN
  BY DEF TypeOK, DockerTypeOK, AgentTypeOK
<1>1. CASE Begin(e)
  <2>1. UNCHANGED <<cs, exit, net, api, faults, abandoned, env, up, res, ctx, token, chan, buf,
        hold, ag, ops, rp, gc>>
    BY <1>1 DEF Begin, dockerVars, reaperVars
  <2>2. pc' \in [Execs -> Labels]
    BY <1>1, <1>t, SMT DEF Begin, Goto, Goto, Labels, Leaving
  <2>3. row' \in [Execs -> Execs \cup {None}]
    BY <1>1, <1>t, SMT DEF Begin, Goto
  <2>4. jobs' \in SUBSET Execs
    BY <1>1, <1>t, SMT DEF Begin, Goto
  <2>5. step' \in [Execs -> StepRows]
    <3>1. PICK x \in Execs : step' = [step EXCEPT ![x] = [@ EXCEPT !.status = "running", !.age = 0]]
      BY <1>1, <1>t DEF Begin
    <3>2. "running" \in StepStatuses /\ 0 \in 0..3
      BY DEF StepStatuses
    <3> QED BY <3>1, <3>2, RowUpdates, Zenon
  <2>6. run' \in RunStatuses
    BY <1>1, <1>t, SMT DEF Begin, Goto, RunStatuses, Outcomes, Leaving
  <2> QED BY <2>1, <2>2, <2>3, <2>4, <2>5, <2>6 DEF TypeOK, DockerTypeOK, AgentTypeOK
<1>2. CASE ResolveEnvironment(e)
  <2>1. UNCHANGED <<cs, exit, net, api, abandoned, env, run, step, up, row, ctx, token, chan,
        buf, hold, ag, jobs, ops, rp, gc>>
    BY <1>2 DEF ResolveEnvironment, KeepMem, KeepRest, reaperVars
  <2>2. pc' \in [Execs -> Labels]
    BY <1>2, <1>t, SMT DEF ResolveEnvironment, AfterEnvironment, AfterSidecars, Fail, Goto,
         Labels, Leaving
  <2>3. res' \in [Execs -> Outcomes]
    BY <1>2, <1>t, SMT DEF ResolveEnvironment, AfterEnvironment, AfterSidecars, Fail, Outcomes,
         Leaving
  <2>4. Fault \/ NoFault
    BY <1>2, SMT DEF ResolveEnvironment, AfterEnvironment, AfterSidecars, Fail, CallFails,
         CallWorks
  <2>5. faults' \in 0..env.faults
    BY <2>4, FaultsBounded
  <2> QED BY <2>1, <2>2, <2>3, <2>4, <2>5 DEF TypeOK, DockerTypeOK, AgentTypeOK
<1>3. CASE LaunchNetwork(e)
  <2>1. UNCHANGED <<cs, exit, abandoned, env, run, step, up, row, ctx, token, chan, buf, hold,
        ag, jobs, ops, rp, gc>>
    BY <1>3 DEF LaunchNetwork, KeepMem, KeepRest, reaperVars
  <2>2. pc' \in [Execs -> Labels]
    BY <1>3, <1>t, SMT DEF LaunchNetwork, CreateNetwork, ConnectContainer, AfterNetwork,
         AfterSidecars, Rollback, Fail, Goto, Labels, Leaving
  <2>3. res' \in [Execs -> Outcomes]
    BY <1>3, <1>t, SMT DEF LaunchNetwork, CreateNetwork, ConnectContainer, AfterNetwork,
         AfterSidecars, Rollback, Fail, Outcomes, Leaving
  <2>4. Fault \/ NoFault
    BY <1>3, SMT DEF LaunchNetwork, CreateNetwork, ConnectContainer, AfterNetwork,
         AfterSidecars, Rollback, Fail, CallFails, CallWorks
  <2>5. faults' \in 0..env.faults
    BY <2>4, FaultsBounded
  <2>6. net' \in {"absent", "new", "old"}
    BY <1>3, <1>t, SMT DEF LaunchNetwork, CreateNetwork, ConnectContainer, AfterNetwork,
         AfterSidecars, Rollback, Fail
  <2>7. api' \in BOOLEAN
    BY <1>3, <1>t, ScenarioTypes, SMT DEF LaunchNetwork, CreateNetwork, ConnectContainer,
         AfterNetwork, AfterSidecars, Rollback, Fail
  <2> QED BY <2>1, <2>2, <2>3, <2>4, <2>5, <2>6, <2>7 DEF TypeOK, DockerTypeOK, AgentTypeOK
<1>4. CASE LaunchService(e)
  <2>1. UNCHANGED <<net, api, abandoned, env, run, step, up, row, ctx, token, chan, buf, hold,
        ag, jobs, ops, rp, gc>>
    BY <1>4 DEF LaunchService, KeepMem, KeepRest, reaperVars
  <2>2. pc' \in [Execs -> Labels]
    BY <1>4, <1>t, SMT DEF LaunchService, Start, Create, Rollback, Fail, Sidecar, Goto, Labels,
         Leaving
  <2>3. res' \in [Execs -> Outcomes]
    BY <1>4, <1>t, SMT DEF LaunchService, Start, Create, Rollback, Fail, Sidecar, Outcomes,
         Leaving
  <2>4. Fault \/ NoFault
    BY <1>4, SMT DEF LaunchService, Start, Create, Rollback, Fail, Sidecar, CallFails, CallWorks
  <2>5. faults' \in 0..env.faults
    BY <2>4, FaultsBounded
  <2>6. cs' \in [Containers -> ContainerStates]
    BY <1>4, <1>t, SMTT(40) DEF LaunchService, Start, Create, Rollback, Fail, Sidecar, Containers,
         Kinds, ContainerStates
  <2>7. exit' \in [Containers -> {0, 1}]
    BY <1>4, <1>t, SMT DEF LaunchService, Start, Create, Rollback, Fail, Sidecar, Containers,
         Kinds
  <2> QED BY <2>1, <2>2, <2>3, <2>4, <2>5, <2>6, <2>7 DEF TypeOK, DockerTypeOK, AgentTypeOK
<1>5. CASE WaitReady(e)
  <2>1. UNCHANGED <<cs, exit, net, api, abandoned, env, run, step, up, row, ctx, token, chan,
        buf, hold, ag, jobs, ops, rp, gc>>
    BY <1>5 DEF WaitReady, KeepMem, KeepRest, reaperVars
  <2>2. pc' \in [Execs -> Labels]
    BY <1>5, <1>t, SMT DEF WaitReady, AfterSidecars, Rollback, Fail, Goto, Labels, Leaving
  <2>3. res' \in [Execs -> Outcomes]
    BY <1>5, <1>t, SMT DEF WaitReady, AfterSidecars, Rollback, Fail, Outcomes, Leaving
  <2>4. Fault \/ NoFault
    BY <1>5, SMT DEF WaitReady, AfterSidecars, Rollback, Fail, CallFails, CallWorks
  <2>5. faults' \in 0..env.faults
    BY <2>4, FaultsBounded
  <2> QED BY <2>1, <2>2, <2>3, <2>4, <2>5 DEF TypeOK, DockerTypeOK, AgentTypeOK
<1>6. CASE RunOneCommand(e)
  <2>1. UNCHANGED <<net, api, abandoned, env, run, step, up, row, ctx, token, chan, buf, hold,
        ag, jobs, ops, rp, gc>>
    BY <1>6 DEF RunOneCommand, KeepMem, KeepRest, reaperVars
  <2>2. pc' \in [Execs -> Labels]
    BY <1>6, <1>t, SMT DEF RunOneCommand, Start, Create, Teardown, Fail, Command, Goto, Labels,
         Leaving
  <2>3. res' \in [Execs -> Outcomes]
    BY <1>6, <1>t, SMT DEF RunOneCommand, Start, Create, Teardown, Fail, Command, Outcomes,
         Leaving
  <2>4. Fault \/ NoFault
    BY <1>6, SMT DEF RunOneCommand, Start, Create, Teardown, Fail, Command, CallFails, CallWorks
  <2>5. faults' \in 0..env.faults
    BY <2>4, FaultsBounded
  <2>6. cs' \in [Containers -> ContainerStates]
    BY <1>6, <1>t, SMT DEF RunOneCommand, Start, Create, Teardown, Fail, Command, Containers,
         Kinds, ContainerStates
  <2>7. exit' \in [Containers -> {0, 1}]
    BY <1>6, <1>t, SMT DEF RunOneCommand, Start, Create, Teardown, Fail, Command, Containers,
         Kinds
  <2> QED BY <2>1, <2>2, <2>3, <2>4, <2>5, <2>6, <2>7 DEF TypeOK, DockerTypeOK, AgentTypeOK
<1>7. CASE CommandWait(e)
  <2>1. UNCHANGED <<cs, exit, net, api, faults, abandoned, env, run, step, up, row, ctx, token,
        chan, buf, hold, ag, jobs, ops, rp, gc>>
    BY <1>7 DEF CommandWait, KeepMem, KeepRest, dockerVars, rowVars, reaperVars
  <2>2. pc' \in [Execs -> Labels]
    BY <1>7, <1>t, SMT DEF CommandWait, Fail, Goto, Labels, Leaving
  <2>3. res' \in [Execs -> Outcomes]
    BY <1>7, <1>t, SMT DEF CommandWait, Fail, Outcomes, Leaving
  <2> QED BY <2>1, <2>2, <2>3 DEF TypeOK, DockerTypeOK, AgentTypeOK
<1>8. CASE RemoveEphemeral(e)
  <2>1. UNCHANGED <<net, api, env, run, step, up, row, res, ctx, token, chan, buf, hold, ag,
        jobs, ops, rp, gc>>
    BY <1>8 DEF RemoveEphemeral, KeepMem, KeepRest, rowVars, reaperVars
  <2>2. pc' \in [Execs -> Labels]
    BY <1>8, <1>t, SMT DEF RemoveEphemeral, StopAndRemove, Remove, StoppedForm, Teardown,
         Command, Goto, Labels, Leaving
  <2>3. cs' \in [Containers -> ContainerStates]
    BY <1>8, <1>t, ContainerUpdates, OwnContainers DEF RemoveEphemeral
  <2>4. exit' \in [Containers -> {0, 1}]
    BY <1>8, <1>t, ContainerUpdates, OwnContainers DEF RemoveEphemeral
  <2>5. Fault \/ NoFault
    BY <1>8, ContainerUpdates, OwnContainers DEF RemoveEphemeral
  <2>6. faults' \in 0..env.faults
    BY <2>5, FaultsBounded
  <2>7. abandoned' \in SUBSET (Containers \cup {Net})
    BY <1>8, <1>t, ContainerUpdates, OwnContainers DEF RemoveEphemeral
  <2> QED BY <2>1, <2>2, <2>3, <2>4, <2>5, <2>6, <2>7 DEF TypeOK, DockerTypeOK, AgentTypeOK
<1>9. CASE PrepareCallback(e)
  <2>1. UNCHANGED <<cs, exit, net, api, faults, abandoned, env, run, step, up, row, res, ctx,
        chan, buf, hold, ag, jobs, ops, rp, gc>>
    BY <1>9 DEF PrepareCallback, KeepRest, dockerVars, rowVars, reaperVars
  <2>2. pc' \in [Execs -> Labels]
    BY <1>9, <1>t, SMT DEF PrepareCallback, Goto, Labels, Leaving
  <2>3. token' \in SUBSET Execs
    BY <1>9, <1>t, SMT DEF PrepareCallback
  <2> QED BY <2>1, <2>2, <2>3 DEF TypeOK, DockerTypeOK, AgentTypeOK
<1>10. CASE Launch(e)
  <2>1. UNCHANGED <<net, api, env, run, step, up, row, ctx, token, chan, buf, hold, jobs, ops,
        rp, gc>>
    BY <1>10 DEF Launch, KeepMem, rowVars, reaperVars
  <2>2. pc' \in [Execs -> Labels]
    BY <1>10, <1>t, SMT DEF Launch, Start, Teardown, Fail, Agent, Goto, Labels, Leaving
  <2>3. res' \in [Execs -> Outcomes]
    BY <1>10, <1>t, SMT DEF Launch, Start, Teardown, Fail, Agent, Outcomes, Leaving
  <2>4. Fault \/ NoFault
    BY <1>10, SMT DEF Launch, Start, Teardown, Fail, Agent, CallFails, CallWorks
  <2>5. faults' \in 0..env.faults
    BY <2>4, FaultsBounded
  <2>6. cs' \in [Containers -> ContainerStates]
    <3>1. \/ cs' = [cs EXCEPT ![Agent(e)] = "running"]
          \/ cs' = [cs EXCEPT ![Agent(e)] = "created"]
          \/ cs' = cs
      BY <1>10 DEF Launch, Start
    <3>2. "running" \in ContainerStates /\ "created" \in ContainerStates
      BY DEF ContainerStates
    <3>3. \A c \in Containers, v \in ContainerStates :
            [cs EXCEPT ![c] = v] \in [Containers -> ContainerStates]
      BY <1>t
    <3> QED BY <1>t, <3>1, <3>2, <3>3, OwnContainers
  <2>7. exit' \in [Containers -> {0, 1}]
    BY <1>10, <1>t, SMT DEF Launch, Start, Teardown, Fail, Agent, Containers, Kinds
  <2>8. ag' \in [Execs -> AgentStates]
    <3>1. \/ ag' = [ag EXCEPT ![e].at = "work"]
          \/ ag' = ag
      BY <1>10 DEF Launch
    <3>2. [ag EXCEPT ![e].at = "work"] \in [Execs -> AgentStates]
      BY AgentUpdates, Zenon
    <3> QED BY <1>t, <3>1, <3>2, Zenon
  <2>9. abandoned' \in SUBSET (Containers \cup {Net})
    BY <1>10, <1>t, SMT DEF Launch, Start, Teardown, Fail, Agent, Containers, Kinds
  <2> QED BY <2>1, <2>2, <2>3, <2>4, <2>5, <2>6, <2>7, <2>8, <2>9 DEF TypeOK, DockerTypeOK,
          AgentTypeOK
<1>11. CASE PersistContainerID(e)
  <2>1. UNCHANGED <<cs, exit, net, api, abandoned, env, run, up, row, res, ctx, token, chan,
        buf, hold, ag, jobs, ops, rp, gc>>
    BY <1>11 DEF PersistContainerID, KeepMem, KeepRest, reaperVars
  <2>2. pc' \in [Execs -> Labels]
    BY <1>11, <1>t, SMT DEF PersistContainerID, UpdateRunStepContainerInfo, Goto, Labels, Leaving
  <2>3. Fault \/ NoFault
    BY <1>11, SMT DEF PersistContainerID, UpdateRunStepContainerInfo, CallFails, CallWorks
  <2>4. faults' \in 0..env.faults
    BY <2>3, FaultsBounded
  <2>5. step' \in [Execs -> StepRows]
    <3>1. UpdateRunStepContainerInfo(row[e], e) => step' \in [Execs -> StepRows]
      BY RowUpdates, Zenon
    <3> QED BY <1>11, <1>t, <3>1, Zenon DEF PersistContainerID
  <2> QED BY <2>1, <2>2, <2>3, <2>4, <2>5 DEF TypeOK, DockerTypeOK, AgentTypeOK
<1>12. CASE WaitForStatus(e)
  <2>1. UNCHANGED <<cs, exit, net, api, faults, abandoned, env, run, step, up, row, res, ctx,
        token, ag, jobs, ops, rp, gc>>
    BY <1>12 DEF WaitForStatus, KeepRest, dockerVars, rowVars, reaperVars
  <2>2. pc' \in [Execs -> Labels]
    BY <1>12, <1>t, SMT DEF WaitForStatus, Goto, Labels, Leaving
  <2>3. chan' \in [Execs -> Chans \cup {None}]
    <3>1. PICK x \in Execs : x = row[e]
      BY <1>12 DEF WaitForStatus, Paths
    <3>2. PICK k \in Chans : k = GetOrCreate(x)
      BY ChannelsOf
    <3>3. chan' = [chan EXCEPT ![x] = k]
      BY <1>12, <3>1, <3>2, Zenon DEF WaitForStatus
    <3> QED BY <1>t, <3>3
  <2>4. buf' \in [Chans -> Values]
    <3>1. PICK x \in Execs : x = row[e]
      BY <1>12 DEF WaitForStatus, Paths
    <3>2. PICK k \in Chans : k = GetOrCreate(x)
      BY ChannelsOf
    <3>3. buf' = [buf EXCEPT ![k] = IF chan[x] = None THEN Empty ELSE @]
      BY <1>12, <3>1, <3>2, Zenon DEF WaitForStatus
    <3> QED BY <1>t, <3>3 DEF Empty, Unknown, Values
  <2>5. hold' \in [Execs -> Chans \cup {None}]
    <3>1. PICK x \in Execs : x = row[e]
      BY <1>12 DEF WaitForStatus, Paths
    <3>2. PICK k \in Chans : k = GetOrCreate(x)
      BY ChannelsOf
    <3>3. hold' = [hold EXCEPT ![e] = k]
      BY <1>12, <3>1, <3>2, Zenon DEF WaitForStatus
    <3> QED BY <1>t, <3>3
  <2> QED BY <2>1, <2>2, <2>3, <2>4, <2>5 DEF TypeOK, DockerTypeOK, AgentTypeOK
<1>13. CASE StatusArrives(e)
  <2>1. UNCHANGED <<cs, exit, net, api, faults, abandoned, env, run, step, up, row, ctx, token,
        ag, jobs, ops, rp, gc>>
    BY <1>13 DEF StatusArrives, KeepRest, dockerVars, rowVars, reaperVars
  <2>2. pc' \in [Execs -> Labels]
    BY <1>13, <1>t, SMT DEF StatusArrives, Unregister, Goto, Labels, Leaving
  <2>3. res' \in [Execs -> Outcomes]
    BY <1>13, <1>t, SMT DEF StatusArrives, Unregister, Outcomes, Leaving
  <2>4. chan' \in [Execs -> Chans \cup {None}]
    BY <1>13, <1>t, UnregisterTypes DEF StatusArrives
  <2>5. buf' \in [Chans -> Values]
    BY <1>13, <1>t, SMT DEF StatusArrives, Empty, Unknown, Values, Paths, Waiting
  <2>6. hold' \in [Execs -> Chans \cup {None}]
    BY <1>13, <1>t, UnregisterTypes DEF StatusArrives
  <2> QED BY <2>1, <2>2, <2>3, <2>4, <2>5, <2>6 DEF TypeOK, DockerTypeOK, AgentTypeOK
<1>14. CASE StatusGivenUp(e)
  <2>1. UNCHANGED <<cs, exit, net, api, faults, abandoned, env, run, step, up, row, ctx, token,
        buf, ag, jobs, ops, rp, gc>>
    BY <1>14 DEF StatusGivenUp, KeepRest, dockerVars, rowVars, reaperVars
  <2>2. pc' \in [Execs -> Labels]
    BY <1>14, <1>t, SMT DEF StatusGivenUp, Unregister, Fail, Goto, Labels, Leaving
  <2>3. res' \in [Execs -> Outcomes]
    BY <1>14, <1>t, SMT DEF StatusGivenUp, Unregister, Fail, Outcomes, Leaving
  <2>4. chan' \in [Execs -> Chans \cup {None}]
    BY <1>14, <1>t, UnregisterTypes DEF StatusGivenUp
  <2>5. hold' \in [Execs -> Chans \cup {None}]
    BY <1>14, <1>t, UnregisterTypes DEF StatusGivenUp
  <2> QED BY <2>1, <2>2, <2>3, <2>4, <2>5 DEF TypeOK, DockerTypeOK, AgentTypeOK
<1>15. CASE ProcessExited(e)
  <2>1. UNCHANGED <<cs, exit, net, api, faults, abandoned, env, run, step, up, row, res, ctx,
        token, chan, buf, hold, ag, jobs, ops, rp, gc>>
    BY <1>15 DEF ProcessExited, KeepMem, KeepRest, dockerVars, rowVars, reaperVars
  <2>2. pc' \in [Execs -> Labels]
    BY <1>15, <1>t, SMT DEF ProcessExited, Goto, Labels, Leaving
  <2> QED BY <2>1, <2>2 DEF TypeOK, DockerTypeOK, AgentTypeOK
<1>16. CASE GraceElapsed(e)
  <2>1. UNCHANGED <<cs, exit, net, api, faults, abandoned, env, run, step, up, row, ctx, token,
        buf, ag, jobs, ops, rp, gc>>
    BY <1>16 DEF GraceElapsed, KeepRest, dockerVars, rowVars, reaperVars
  <2>2. pc' \in [Execs -> Labels]
    BY <1>16, <1>t, SMT DEF GraceElapsed, Unregister, Fail, Goto, Labels, Leaving
  <2>3. res' \in [Execs -> Outcomes]
    BY <1>16, <1>t, SMT DEF GraceElapsed, Unregister, Fail, Outcomes, Leaving
  <2>4. chan' \in [Execs -> Chans \cup {None}]
    BY <1>16, <1>t, UnregisterTypes DEF GraceElapsed
  <2>5. hold' \in [Execs -> Chans \cup {None}]
    BY <1>16, <1>t, UnregisterTypes DEF GraceElapsed
  <2> QED BY <2>1, <2>2, <2>3, <2>4, <2>5 DEF TypeOK, DockerTypeOK, AgentTypeOK
<1>17. CASE StreamLogs(e)
  <2>1. UNCHANGED <<cs, exit, net, api, abandoned, env, run, step, up, row, ctx, token, chan,
        buf, hold, ag, jobs, ops, rp, gc>>
    BY <1>17 DEF StreamLogs, KeepMem, KeepRest, rowVars, reaperVars
  <2>2. pc' \in [Execs -> Labels]
    BY <1>17, <1>t, SMT DEF StreamLogs, Fail, Goto, Labels, Leaving
  <2>3. res' \in [Execs -> Outcomes]
    BY <1>17, <1>t, SMT DEF StreamLogs, Fail, Outcomes, Leaving
  <2>4. Fault \/ NoFault
    BY <1>17, SMT DEF StreamLogs, Fail, CallFails, CallWorks
  <2>5. faults' \in 0..env.faults
    BY <2>4, FaultsBounded
  <2> QED BY <2>1, <2>2, <2>3, <2>4, <2>5 DEF TypeOK, DockerTypeOK, AgentTypeOK
<1>18. CASE StreamAndWait(e)
  <2>1. UNCHANGED <<cs, exit, net, api, faults, abandoned, env, run, step, up, row, ctx, token,
        chan, buf, hold, ag, jobs, ops, rp, gc>>
    BY <1>18 DEF StreamAndWait, KeepMem, KeepRest, dockerVars, rowVars, reaperVars
  <2>2. pc' \in [Execs -> Labels]
    BY <1>18, <1>t, SMT DEF StreamAndWait, Fail, Goto, Labels, Leaving
  <2>3. res' \in [Execs -> Outcomes]
    BY <1>18, <1>t, SMT DEF StreamAndWait, Fail, Outcomes, Leaving
  <2> QED BY <2>1, <2>2, <2>3 DEF TypeOK, DockerTypeOK, AgentTypeOK
<1>19. CASE RevokeCallbackToken(e)
  <2>1. UNCHANGED <<cs, exit, net, api, faults, abandoned, env, run, step, up, row, res, ctx,
        chan, buf, hold, ag, jobs, ops, rp, gc>>
    BY <1>19 DEF RevokeCallbackToken, KeepRest, dockerVars, rowVars, reaperVars
  <2>2. pc' \in [Execs -> Labels]
    BY <1>19, <1>t, SMT DEF RevokeCallbackToken, Goto, Labels, Leaving
  <2>3. token' \in SUBSET Execs
    BY <1>19, <1>t, SMT DEF RevokeCallbackToken
  <2> QED BY <2>1, <2>2, <2>3 DEF TypeOK, DockerTypeOK, AgentTypeOK
<1>20. CASE StopAgent(e)
  <2>1. UNCHANGED <<net, api, env, run, step, up, row, res, ctx, token, chan, buf, hold, jobs,
        ops, rp, gc>>
    BY <1>20 DEF StopAgent, KeepMem, rowVars, reaperVars
  <2>2. pc' \in [Execs -> Labels]
    BY <1>20, <1>t, SMT DEF StopAgent, StopAndRemove, Remove, StoppedForm, Teardown,
         AgentFollows, Agent, Goto, Labels, Leaving
  <2>3. cs' \in [Containers -> ContainerStates]
    BY <1>20, <1>t, ContainerUpdates, OwnContainers DEF StopAgent
  <2>4. exit' \in [Containers -> {0, 1}]
    BY <1>20, <1>t, ContainerUpdates, OwnContainers DEF StopAgent
  <2>5. Fault \/ NoFault
    BY <1>20, ContainerUpdates, OwnContainers DEF StopAgent
  <2>6. faults' \in 0..env.faults
    BY <2>5, FaultsBounded
  <2>7. abandoned' \in SUBSET (Containers \cup {Net})
    BY <1>20, <1>t, ContainerUpdates, OwnContainers DEF StopAgent
  <2>8. ag' \in [Execs -> AgentStates]
    BY <1>20, <1>t, AgentUpdates DEF StopAgent, AgentFollows
  <2> QED BY <2>1, <2>2, <2>3, <2>4, <2>5, <2>6, <2>7, <2>8 DEF TypeOK, DockerTypeOK, AgentTypeOK
<1>21. CASE TeardownSidecars(e)
  <2>1. UNCHANGED <<net, api, env, run, step, up, row, res, ctx, token, chan, buf, hold, ag,
        jobs, ops, rp, gc>>
    BY <1>21 DEF TeardownSidecars, KeepMem, KeepRest, rowVars, reaperVars
  <2>2. pc' \in [Execs -> Labels]
    BY <1>21, <1>t, SMT DEF TeardownSidecars, StopAndRemove, Remove, StoppedForm, Sidecar, Goto,
         Labels, Leaving
  <2>3. cs' \in [Containers -> ContainerStates]
    BY <1>21, <1>t, ContainerUpdates, OwnContainers DEF TeardownSidecars
  <2>4. exit' \in [Containers -> {0, 1}]
    BY <1>21, <1>t, ContainerUpdates, OwnContainers DEF TeardownSidecars
  <2>5. Fault \/ NoFault
    BY <1>21, ContainerUpdates, OwnContainers DEF TeardownSidecars
  <2>6. faults' \in 0..env.faults
    BY <2>5, FaultsBounded
  <2>7. abandoned' \in SUBSET (Containers \cup {Net})
    BY <1>21, <1>t, ContainerUpdates, OwnContainers DEF TeardownSidecars
  <2> QED BY <2>1, <2>2, <2>3, <2>4, <2>5, <2>6, <2>7 DEF TypeOK, DockerTypeOK, AgentTypeOK
<1>22. CASE TeardownNetwork(e)
  <2>1. UNCHANGED <<cs, exit, env, run, step, up, row, res, ctx, token, chan, buf, hold, ag,
        jobs, ops, rp, gc>>
    BY <1>22 DEF TeardownNetwork, KeepMem, KeepRest, rowVars, reaperVars
  <2>2. pc' \in [Execs -> Labels]
    BY <1>22, <1>t, SMT DEF TeardownNetwork, DisconnectContainer, RemoveNetwork, Goto, Labels,
         Leaving
  <2>3. net' \in {"absent", "new", "old"}
    BY <1>22, <1>t, SMT DEF TeardownNetwork, DisconnectContainer, RemoveNetwork
  <2>4. api' \in BOOLEAN
    BY <1>22, <1>t DEF TeardownNetwork, DisconnectContainer
  <2>5. Fault \/ NoFault
    BY <1>22, SMT DEF TeardownNetwork, DisconnectContainer, RemoveNetwork, CallFails, CallWorks
  <2>6. faults' \in 0..env.faults
    BY <2>5, FaultsBounded
  <2>7. abandoned' \in SUBSET (Containers \cup {Net})
    BY <1>22, <1>t DEF TeardownNetwork, RemoveNetwork
  <2> QED BY <2>1, <2>2, <2>3, <2>4, <2>5, <2>6, <2>7 DEF TypeOK, DockerTypeOK, AgentTypeOK
<1>23. CASE WriteStep(e)
  <2>1. UNCHANGED <<cs, exit, net, api, faults, abandoned, env, run, up, row, res, token, chan,
        buf, hold, ag, jobs, ops, rp, gc>>
    BY <1>23 DEF WriteStep, KeepRest, dockerVars, reaperVars
  <2>2. pc' \in [Execs -> Labels]
    BY <1>23, <1>t, SMT DEF WriteStep, UpdateRunStepStatus, Goto, Labels, Leaving
  <2>3. ctx' \in [Execs -> BOOLEAN]
    BY <1>23, <1>t, SMT DEF WriteStep, UpdateRunStepStatus
  <2>4. step' \in [Execs -> StepRows]
    <3>1. res[e] \in {"ok", "failed", "cancelled"}
      BY <1>23, <1>t DEF WriteStep, Paths, Leaving, Outcomes
    <3>2. (IF res[e] = "ok" THEN "completed" ELSE res[e]) \in StepStatuses
      BY <3>1 DEF StepStatuses
    <3>3. \A s : s = (IF res[e] = "ok" THEN "completed" ELSE res[e]) =>
            (UpdateRunStepStatus(row[e], s) => step' \in [Execs -> StepRows])
      BY <3>2, RowUpdates, Zenon
    <3> QED BY <1>23, <1>t, <3>3, Zenon DEF WriteStep
  <2> QED BY <2>1, <2>2, <2>3, <2>4 DEF TypeOK, DockerTypeOK, AgentTypeOK
<1>24. CASE WriteRun(e)
  <2>1. UNCHANGED <<cs, exit, net, api, faults, abandoned, env, step, up, row, res, ctx, token,
        chan, buf, hold, ag, jobs, ops, rp, gc>>
    BY <1>24 DEF WriteRun, KeepMem, KeepRest, dockerVars, reaperVars
  <2>2. pc' \in [Execs -> Labels]
    BY <1>24, <1>t, SMT DEF WriteRun, UpdateRunStatus, Goto, Labels, Leaving
  <2>3. run' \in RunStatuses
    BY <1>24, <1>t, SMT DEF WriteRun, UpdateRunStatus, RunStatuses, Outcomes, Leaving, Paths
  <2> QED BY <2>1, <2>2, <2>3 DEF TypeOK, DockerTypeOK, AgentTypeOK
<1> QED BY <1>1, <1>2, <1>3, <1>4, <1>5, <1>6, <1>7, <1>8, <1>9, <1>10, <1>11, <1>12, <1>13,
        <1>14, <1>15, <1>16, <1>17, <1>18, <1>19, <1>20, <1>21, <1>22, <1>23, <1>24 DEF Execute

LEMMA TypeByAgent ==
  ASSUME TypeOK, Paths, Processes, NEW e \in Execs, CommandEnds(e) \/ AgentProcess(e), UNCHANGED reaperVars
  PROVE  TypeOK'
<1> USE ExecsAreNumbers
<1>t. /\ cs \in [Containers -> ContainerStates] /\ exit \in [Containers -> {0, 1}]
      /\ net \in {"absent", "new", "old"} /\ api \in BOOLEAN
      /\ abandoned \in SUBSET (Containers \cup {Net})
      /\ run \in RunStatuses /\ step \in [Execs -> StepRows]
      /\ pc \in [Execs -> Labels] /\ row \in [Execs -> Execs \cup {None}]
      /\ res \in [Execs -> Outcomes] /\ ctx \in [Execs -> BOOLEAN] /\ token \in SUBSET Execs
      /\ chan \in [Execs -> Chans \cup {None}] /\ buf \in [Chans -> Values]
      /\ hold \in [Execs -> Chans \cup {None}] /\ ag \in [Execs -> AgentStates]
      /\ jobs \in SUBSET Execs /\ ops \in 0..env.ops
      /\ rp \in ReaperStates /\ gc \in BOOLEAN /\ up \in BOOLEAN
  BY DEF TypeOK, DockerTypeOK, AgentTypeOK
<1>1. CASE CommandEnds(e)
  <2>1. UNCHANGED <<net, api, faults, abandoned, env, run, step, up, pc, row, res, ctx, token,
        chan, buf, hold, ag, jobs, ops, rp, gc>>
    BY <1>1 DEF CommandEnds, KeepRest, rowVars, memVars, reaperVars
  <2>2. cs' \in [Containers -> ContainerStates]
    BY <1>1, <1>t, SMT DEF CommandEnds, Command, Containers, Kinds, ContainerStates
  <2>3. exit' \in [Containers -> {0, 1}]
    BY <1>1, <1>t, SMT DEF CommandEnds, Command, Containers, Kinds
  <2> QED BY <2>1, <2>2, <2>3 DEF TypeOK, DockerTypeOK, AgentTypeOK
<1>2. CASE AgentFinishes(e)
  <2>1. UNCHANGED <<cs, exit, net, api, faults, abandoned, env, run, step, up, pc, row, res,
        ctx, token, chan, buf, hold, jobs, ops, rp, gc>>
    BY <1>2 DEF AgentFinishes, KeepApi, dockerVars, rowVars, reaperVars
  <2>2. ag' \in [Execs -> AgentStates]
    <3>1. PICK v \in {0, 1} : ag' = [ag EXCEPT ![e] = [at |-> "post", verdict |-> v, tries |-> 0]]
      BY <1>2 DEF AgentFinishes
    <3>2. [at |-> "post", verdict |-> v, tries |-> 0] \in AgentStates
      BY DEF AgentStates, MaxRetries
    <3> QED BY <1>t, <3>1, <3>2
  <2> QED BY <2>1, <2>2 DEF TypeOK, DockerTypeOK, AgentTypeOK
<1>3. CASE PostStatus(e)
  <2>1. UNCHANGED <<cs, exit, net, api, abandoned, env, run, step, up, pc, row, res, ctx, token,
        hold, jobs, ops, rp, gc>>
    BY <1>3 DEF PostStatus, KeepApi, rowVars, reaperVars
  <2>2. ag' \in [Execs -> AgentStates]
    <3>1. \/ ag' = [ag EXCEPT ![e].at = "reported"]
          \/ ag' = [ag EXCEPT ![e].at = "error"]
          \/ ag' = [ag EXCEPT ![e] = Retry(e)]
      BY <1>3 DEF PostStatus
    <3>2. Retry(e) \in AgentStates
      <4>1. ag[e] \in AgentStates /\ ag[e].tries \in 0..2
        BY <1>3, <1>t DEF PostStatus, Processes, AgentStates, MaxRetries
      <4>2. ag[e].tries + 1 \in 0..MaxRetries
        BY <4>1 DEF MaxRetries
      <4> QED BY <4>1, <4>2 DEF Retry, AgentStates
    <3>3. [ag EXCEPT ![e] = Retry(e)] \in [Execs -> AgentStates]
      BY <1>t, <3>2
    <3>4. /\ [ag EXCEPT ![e].at = "reported"] \in [Execs -> AgentStates]
          /\ [ag EXCEPT ![e].at = "error"] \in [Execs -> AgentStates]
      BY AgentUpdates, Zenon
    <3> QED BY <3>1, <3>3, <3>4, Zenon
  <2>3. chan' \in [Execs -> Chans \cup {None}]
    <3>1. row[e] \in Execs
      BY <1>3, <1>t DEF PostStatus, Processes, Paths, PreLaunch
    <3>2. PICK k \in Chans : k = GetOrCreate(row[e])
      BY <3>1, ChannelsOf
    <3>3. \/ chan' = chan
          \/ chan' = [chan EXCEPT ![row[e]] = k]
      BY <1>3, <3>2 DEF PostStatus, SetStatus
    <3>4. [code |-> ag[e].verdict, from |-> e] \in Values
      BY <1>t DEF Values, AgentStates
    <3> QED BY <1>t, <3>1, <3>3, <3>4
  <2>4. buf' \in [Chans -> Values]
    <3>1. row[e] \in Execs
      BY <1>3, <1>t DEF PostStatus, Processes, Paths, PreLaunch
    <3>2. PICK k \in Chans : k = GetOrCreate(row[e])
      BY <3>1, ChannelsOf
    <3>3. \/ buf' = buf
          \/ \E old \in {Empty, buf[k]} :
                buf' = [buf EXCEPT ![k] = IF old = Empty THEN [code |-> ag[e].verdict, from |-> e] ELSE old]
      BY <1>3, <3>2 DEF PostStatus, SetStatus
    <3>4. [code |-> ag[e].verdict, from |-> e] \in Values
      BY <1>t DEF Values, AgentStates
    <3> QED BY <1>t, <3>1, <3>3, <3>4, ZenonT(40) DEF Empty, Unknown, Values
  <2>5. Fault \/ NoFault
    BY <1>3, SMT DEF PostStatus, SetStatus, CallFails, CallWorks
  <2>6. faults' \in 0..env.faults
    BY <2>5, FaultsBounded
  <2> QED BY <2>1, <2>2, <2>3, <2>4, <2>5, <2>6 DEF TypeOK, DockerTypeOK, AgentTypeOK
<1>4. CASE AgentExits(e)
  <2>1. UNCHANGED <<net, api, faults, abandoned, env, run, step, up, pc, row, res, ctx, token,
        chan, buf, hold, jobs, ops, rp, gc>>
    BY <1>4 DEF AgentExits, KeepApi, rowVars, reaperVars
  <2>2. ag' \in [Execs -> AgentStates]
    <3>1. ag' = Off(e)
      BY <1>4 DEF AgentExits
    <3> QED BY <3>1, AgentUpdates, Zenon
  <2>3. cs' \in [Containers -> ContainerStates]
    BY <1>4, <1>t, SMT DEF AgentExits, Agent, ExitCodes, Containers, Kinds, ContainerStates
  <2>4. exit' \in [Containers -> {0, 1}]
    BY <1>4, <1>t, SMT DEF AgentExits, Agent, ExitCodes, Containers, Kinds, Processes
  <2> QED BY <2>1, <2>2, <2>3, <2>4 DEF TypeOK, DockerTypeOK, AgentTypeOK
<1>5. CASE AgentDies(e)
  <2>1. UNCHANGED <<net, api, abandoned, env, run, step, up, pc, row, res, ctx, token, chan,
        buf, hold, jobs, ops, rp, gc>>
    BY <1>5 DEF AgentDies, KeepApi, rowVars, reaperVars
  <2>2. ag' \in [Execs -> AgentStates]
    <3>1. ag' = Off(e)
      BY <1>5 DEF AgentDies
    <3> QED BY <3>1, AgentUpdates, Zenon
  <2>3. cs' \in [Containers -> ContainerStates]
    BY <1>5, <1>t, SMT DEF AgentDies, Agent, Containers, Kinds, ContainerStates
  <2>4. exit' \in [Containers -> {0, 1}]
    BY <1>5, <1>t, SMT DEF AgentDies, Agent, Containers, Kinds
  <2>5. Fault \/ NoFault
    BY <1>5, SMT DEF AgentDies, Agent, CallFails, CallWorks
  <2>6. faults' \in 0..env.faults
    BY <2>5, FaultsBounded
  <2> QED BY <2>1, <2>2, <2>3, <2>4, <2>5, <2>6 DEF TypeOK, DockerTypeOK, AgentTypeOK
<1> QED BY <1>1, <1>2, <1>3, <1>4, <1>5 DEF AgentProcess

LEMMA TypeByReapers ==
  ASSUME TypeOK, Paths, Processes, Reaper \/ Collector
  PROVE  TypeOK'
<1> USE ExecsAreNumbers
<1>t. /\ cs \in [Containers -> ContainerStates] /\ exit \in [Containers -> {0, 1}]
      /\ net \in {"absent", "new", "old"} /\ api \in BOOLEAN
      /\ abandoned \in SUBSET (Containers \cup {Net})
      /\ run \in RunStatuses /\ step \in [Execs -> StepRows]
      /\ pc \in [Execs -> Labels] /\ row \in [Execs -> Execs \cup {None}]
      /\ res \in [Execs -> Outcomes] /\ ctx \in [Execs -> BOOLEAN] /\ token \in SUBSET Execs
      /\ chan \in [Execs -> Chans \cup {None}] /\ buf \in [Chans -> Values]
      /\ hold \in [Execs -> Chans \cup {None}] /\ ag \in [Execs -> AgentStates]
      /\ jobs \in SUBSET Execs /\ ops \in 0..env.ops
      /\ rp \in ReaperStates /\ gc \in BOOLEAN /\ up \in BOOLEAN
  BY DEF TypeOK, DockerTypeOK, AgentTypeOK
<1>1. CASE CheckTimeouts
  <2>1. UNCHANGED <<cs, exit, net, api, abandoned, env, run, step, up, pc, row, res, ctx, token,
        chan, buf, hold, ag, jobs, ops, gc>>
    BY <1>1 DEF CheckTimeouts, KeepAll, KeepDocker, rowVars, memVars
  <2>2. rp' \in ReaperStates
    <3>1. NextLate(Late) \/ RpGoto("reconcile")
      BY <1>1 DEF CheckTimeouts
    <3>2. Late \in SUBSET Execs
      BY DEF Late, AgentsIn
    <3> QED BY <3>1, <3>2, ReaperUpdates, Zenon
  <2>3. Fault \/ NoFault
    BY <1>1, SMT DEF CheckTimeouts, RpGoto, Idle, Late, AgentsIn, CallFails, CallWorks
  <2>4. faults' \in 0..env.faults
    BY <2>3, FaultsBounded
  <2> QED BY <2>1, <2>2, <2>3, <2>4 DEF TypeOK, DockerTypeOK, AgentTypeOK
<1>2. CASE StopTimedOut
  <2>1. UNCHANGED <<net, api, abandoned, env, run, step, up, pc, row, res, ctx, token, chan,
        buf, hold, jobs, ops, gc>>
    BY <1>2 DEF StopTimedOut, KeepAll, rowVars, memVars
  <2>2. rp' \in ReaperStates
    <3>1. PICK d \in rp.todo : \/ rp' = [rp EXCEPT !.at = "failstep", !.cur = d, !.todo = @ \ {d}]
                                 \/ NextLate(rp.todo \ {d})
      BY <1>2 DEF StopTimedOut
    <3>2. d \in Execs /\ rp.todo \ {d} \in SUBSET Execs
      BY <1>t DEF ReaperStates
    <3>3. \A S \in SUBSET Execs : [rp EXCEPT !.at = "failstep", !.cur = d, !.todo = S] \in ReaperStates
      BY <1>t, <3>2 DEF ReaperStates
    <3> QED BY <3>1, <3>2, <3>3, ReaperUpdates, Zenon
  <2>3. Fault \/ NoFault
    BY <1>2, SMT DEF StopTimedOut, NextLate, Idle, Stop, StoppedForm, AgentFollows, Agent,
         CallFails, CallWorks
  <2>4. faults' \in 0..env.faults
    BY <2>3, FaultsBounded
  <2>5. cs' \in [Containers -> ContainerStates]
    <3>1. \/ UNCHANGED cs
          \/ \E c \in Containers : Stop(c)
      BY <1>2, <1>t, OwnContainers, SMT DEF StopTimedOut, ReaperStates
    <3> QED BY <1>t, <3>1, ContainerUpdates
  <2>6. exit' \in [Containers -> {0, 1}]
    <3>1. \/ UNCHANGED exit
          \/ \E c \in Containers : Stop(c)
      BY <1>2, <1>t, OwnContainers, SMT DEF StopTimedOut, ReaperStates
    <3> QED BY <1>t, <3>1, ContainerUpdates
  <2>7. ag' \in [Execs -> AgentStates]
    <3>1. ag' = ag \/ \E d \in rp.todo : AgentFollows(d)
      BY <1>2 DEF StopTimedOut
    <3>2. rp.todo \in SUBSET Execs
      BY <1>t DEF ReaperStates
    <3> QED BY <1>t, <3>1, <3>2, FollowsTypes
  <2> QED BY <2>1, <2>2, <2>3, <2>4, <2>5, <2>6, <2>7 DEF TypeOK, DockerTypeOK, AgentTypeOK
<1>3. CASE FailTimedOutStep
  <2>1. UNCHANGED <<cs, exit, net, api, abandoned, env, run, up, pc, row, res, ctx, token, chan,
        buf, hold, ag, jobs, ops, gc>>
    BY <1>3 DEF FailTimedOutStep, KeepAll, KeepDocker, memVars
  <2>2. rp' \in ReaperStates
    BY <1>3, <1>t, SMTT(40) DEF FailTimedOutStep, UpdateRunStepStatus, ReaperStates, Containers, Kinds
  <2>3. Fault \/ NoFault
    BY <1>3, SMT DEF FailTimedOutStep, UpdateRunStepStatus, CallFails, CallWorks
  <2>4. faults' \in 0..env.faults
    BY <2>3, FaultsBounded
  <2>5. step' \in [Execs -> StepRows]
    <3>1. step' = step \/ UpdateRunStepStatus(row[rp.cur], "failed")
      BY <1>3, Zenon DEF FailTimedOutStep
    <3>2. "failed" \in StepStatuses
      BY DEF StepStatuses
    <3>3. UpdateRunStepStatus(row[rp.cur], "failed") => step' \in [Execs -> StepRows]
      BY <3>2, RowUpdates, Zenon
    <3> QED BY <1>t, <3>1, <3>3, Zenon
  <2> QED BY <2>1, <2>2, <2>3, <2>4, <2>5 DEF TypeOK, DockerTypeOK, AgentTypeOK
<1>4. CASE FailTimedOutRun
  <2>1. UNCHANGED <<cs, exit, net, api, abandoned, env, step, up, pc, row, res, ctx, token,
        chan, buf, hold, ag, jobs, ops, gc>>
    BY <1>4 DEF FailTimedOutRun, KeepAll, KeepDocker, memVars
  <2>2. rp' \in ReaperStates
    <3>1. NextLate(rp.todo) /\ rp.todo \in SUBSET Execs
      BY <1>4, <1>t DEF FailTimedOutRun, ReaperStates
    <3> QED BY <3>1, ReaperUpdates, Zenon
  <2>3. Fault \/ NoFault
    BY <1>4, SMT DEF FailTimedOutRun, NextLate, Idle, UpdateRunStatus, CallFails, CallWorks
  <2>4. faults' \in 0..env.faults
    BY <2>3, FaultsBounded
  <2>5. run' \in RunStatuses
    BY <1>4, <1>t, SMT DEF FailTimedOutRun, NextLate, Idle, UpdateRunStatus, RunStatuses,
         Outcomes, Leaving
  <2> QED BY <2>1, <2>2, <2>3, <2>4, <2>5 DEF TypeOK, DockerTypeOK, AgentTypeOK
<1>5. CASE ListLive
  <2>1. UNCHANGED <<cs, exit, net, api, abandoned, env, run, step, up, pc, row, res, ctx, token,
        chan, buf, hold, ag, jobs, ops, gc>>
    BY <1>5 DEF ListLive, KeepAll, KeepDocker, rowVars, memVars
  <2>2. rp' \in ReaperStates
    <3>1. PICK S \in SUBSET Execs : S = AgentsIn(ListRunningContainers)
      BY DEF AgentsIn
    <3>2. rp' = [Idle EXCEPT !.at = "evaluate", !.live = S] \/ RpGoto("idle")
      BY <1>5, <3>1 DEF ListLive
    <3> QED BY <3>2, ReaperUpdates, Zenon
  <2>3. Fault \/ NoFault
    BY <1>5, SMT DEF ListLive, RpGoto, Idle, AgentsIn, CallFails, CallWorks
  <2>4. faults' \in 0..env.faults
    BY <2>3, FaultsBounded
  <2> QED BY <2>1, <2>2, <2>3, <2>4 DEF TypeOK, DockerTypeOK, AgentTypeOK
<1>6. CASE Evaluate
  <2>1. UNCHANGED <<cs, exit, net, api, faults, abandoned, env, run, step, up, pc, row, res,
        ctx, token, chan, buf, hold, ag, jobs, ops, gc>>
    BY <1>6 DEF Evaluate, KeepAll, KeepDocker, rowVars, memVars, NoFault
  <2>2. rp' \in ReaperStates
    BY <1>6, <1>t, SMT DEF Evaluate, RpGoto, Idle, ReaperStates, Containers, Kinds
  <2> QED BY <2>1, <2>2 DEF TypeOK, DockerTypeOK, AgentTypeOK
<1>7. CASE MarkOrphaned
  <2>1. UNCHANGED <<cs, exit, net, api, abandoned, env, step, up, pc, row, res, ctx, token,
        chan, buf, hold, ag, jobs, ops, gc>>
    BY <1>7 DEF MarkOrphaned, KeepAll, KeepDocker, memVars
  <2>2. rp' \in ReaperStates
    BY <1>7, <1>t, SMTT(40) DEF MarkOrphaned, RpGoto, Idle, MarkRunOrphanedIfRunning, ReaperStates,
         Containers, Kinds
  <2>3. Fault \/ NoFault
    BY <1>7, SMT DEF MarkOrphaned, RpGoto, Idle, MarkRunOrphanedIfRunning, CallFails, CallWorks
  <2>4. faults' \in 0..env.faults
    BY <2>3, FaultsBounded
  <2>5. run' \in RunStatuses
    BY <1>7, <1>t, SMT DEF MarkOrphaned, RpGoto, Idle, MarkRunOrphanedIfRunning, RunStatuses,
         Outcomes, Leaving
  <2> QED BY <2>1, <2>2, <2>3, <2>4, <2>5 DEF TypeOK, DockerTypeOK, AgentTypeOK
<1>8. CASE CleanupOrphans
  <2>1. UNCHANGED <<cs, exit, net, api, abandoned, env, run, step, up, pc, row, res, ctx, token,
        chan, buf, hold, ag, jobs, ops, gc>>
    BY <1>8 DEF CleanupOrphans, KeepAll, KeepDocker, rowVars, memVars
  <2>2. rp' \in ReaperStates
    <3>1. PICK S \in SUBSET Containers : S = ListContainers
      BY DEF ListContainers
    <3>2. rp' = [Idle EXCEPT !.at = "clean", !.found = S] \/ RpGoto("reconcile")
      BY <1>8, <3>1 DEF CleanupOrphans
    <3> QED BY <3>2, ReaperUpdates, Zenon
  <2>3. Fault \/ NoFault
    BY <1>8, SMT DEF CleanupOrphans, RpGoto, Idle, ListContainers, CallFails, CallWorks
  <2>4. faults' \in 0..env.faults
    BY <2>3, FaultsBounded
  <2> QED BY <2>1, <2>2, <2>3, <2>4 DEF TypeOK, DockerTypeOK, AgentTypeOK
<1>9. CASE RemoveOrphan
  <2>1. UNCHANGED <<net, api, env, run, step, up, pc, row, res, ctx, token, chan, buf, hold,
        jobs, ops, gc>>
    BY <1>9 DEF RemoveOrphan, KeepAll, rowVars, memVars
  <2>2. rp' \in ReaperStates
    <3>1. \/ RpGoto("reconcile")
          \/ \E c \in rp.found : rp' = [rp EXCEPT !.found = @ \ {c}]
      BY <1>9 DEF RemoveOrphan
    <3>2. \A S \in SUBSET Containers : [rp EXCEPT !.found = S] \in ReaperStates
      BY <1>t DEF ReaperStates
    <3>3. rp.found \in SUBSET Containers
      BY <1>t DEF ReaperStates
    <3> QED BY <3>1, <3>2, <3>3, ReaperUpdates
  <2>3. Fault \/ NoFault
    BY <1>9 DEF RemoveOrphan
  <2>4. faults' \in 0..env.faults
    BY <2>3, FaultsBounded
  <2>5. cs' \in [Containers -> ContainerStates]
    <3>1. \/ UNCHANGED cs
          \/ \E c \in Containers : Remove(c)
      BY <1>9, <1>t, OwnContainers, SMT DEF RemoveOrphan, ReaperStates
    <3> QED BY <1>t, <3>1, ContainerUpdates
  <2>6. exit' \in [Containers -> {0, 1}]
    <3>1. \/ UNCHANGED exit
          \/ \E c \in Containers : Remove(c)
      BY <1>9, <1>t, OwnContainers, SMT DEF RemoveOrphan, ReaperStates
    <3> QED BY <1>t, <3>1, ContainerUpdates
  <2>7. ag' \in [Execs -> AgentStates]
    <3>1. ag' = ag \/ \E c \in rp.found : AgentFollows(c[2])
      BY <1>9 DEF RemoveOrphan
    <3>2. \A c \in rp.found : c[2] \in Execs
      BY <1>t DEF ReaperStates, Containers
    <3> QED BY <1>t, <3>1, <3>2, FollowsTypes
  <2>8. abandoned' \in SUBSET (Containers \cup {Net})
    <3>1. \/ UNCHANGED abandoned
          \/ \E c \in Containers : abandoned' = abandoned \ {c}
      BY <1>9, <1>t, OwnContainers, SMT DEF RemoveOrphan, ReaperStates
    <3> QED BY <1>t, <3>1
  <2> QED BY <2>1, <2>2, <2>3, <2>4, <2>5, <2>6, <2>7, <2>8 DEF TypeOK, DockerTypeOK, AgentTypeOK
<1>10. CASE ListOrphanNetworks
  <2>1. UNCHANGED <<cs, exit, net, api, faults, abandoned, env, run, step, up, pc, row, res,
        ctx, token, chan, buf, hold, ag, jobs, ops, rp>>
    BY <1>10 DEF ListOrphanNetworks, KeepForGC, dockerVars, rowVars, memVars
  <2>2. gc' \in BOOLEAN
    BY <1>10, <1>t, SMT DEF ListOrphanNetworks
  <2> QED BY <2>1, <2>2 DEF TypeOK, DockerTypeOK, AgentTypeOK
<1>11. CASE GcNetwork
  <2>1. UNCHANGED <<cs, exit, env, run, step, up, pc, row, res, ctx, token, chan, buf, hold, ag,
        jobs, ops, rp>>
    BY <1>11 DEF GcNetwork, KeepForGC, rowVars, memVars
  <2>2. gc' \in BOOLEAN
    BY <1>11, <1>t DEF GcNetwork
  <2>3. net' \in {"absent", "new", "old"}
    BY <1>11, <1>t, SMT DEF GcNetwork, DisconnectContainer, RemoveNetwork
  <2>4. api' \in BOOLEAN
    BY <1>11, <1>t DEF GcNetwork, DisconnectContainer
  <2>5. Fault \/ NoFault
    BY <1>11, SMT DEF GcNetwork, DisconnectContainer, RemoveNetwork, CallFails, CallWorks
  <2>6. faults' \in 0..env.faults
    BY <2>5, FaultsBounded
  <2>7. abandoned' \in SUBSET (Containers \cup {Net})
    BY <1>11, <1>t, SMT DEF GcNetwork, DisconnectContainer, RemoveNetwork, Containers, Kinds
  <2> QED BY <2>1, <2>2, <2>3, <2>4, <2>5, <2>6, <2>7 DEF TypeOK, DockerTypeOK, AgentTypeOK
<1>12. CASE GcCommandContainers
  <2>1. UNCHANGED <<net, api, faults, env, run, step, up, pc, row, res, ctx, token, chan, buf,
        hold, ag, jobs, ops, rp, gc>>
    BY <1>12 DEF GcCommandContainers, KeepForGC, rowVars, memVars, NoFault
  <2>2. cs' \in [Containers -> ContainerStates]
    BY <1>12, <1>t, ContainerUpdates, OwnContainers DEF GcCommandContainers
  <2>3. exit' \in [Containers -> {0, 1}]
    BY <1>12, <1>t, ContainerUpdates, OwnContainers DEF GcCommandContainers
  <2>4. abandoned' \in SUBSET (Containers \cup {Net})
    BY <1>12, <1>t, SMT DEF GcCommandContainers, Remove, Command, Containers, Kinds
  <2> QED BY <2>1, <2>2, <2>3, <2>4 DEF TypeOK, DockerTypeOK, AgentTypeOK
<1> QED BY <1>1, <1>2, <1>3, <1>4, <1>5, <1>6, <1>7, <1>8, <1>9, <1>10, <1>11, <1>12 DEF Reaper,
        Collector

LEMMA TypeByOperations ==
  ASSUME TypeOK, Paths, Processes, NEW x \in Execs, Ages(x) \/ Halt(x) \/ Resume(x) \/ RetryStep(x) \/ CancelRun(x)
  PROVE  TypeOK'
<1> USE ExecsAreNumbers
<1>t. /\ cs \in [Containers -> ContainerStates] /\ exit \in [Containers -> {0, 1}]
      /\ net \in {"absent", "new", "old"} /\ api \in BOOLEAN
      /\ abandoned \in SUBSET (Containers \cup {Net})
      /\ run \in RunStatuses /\ step \in [Execs -> StepRows]
      /\ pc \in [Execs -> Labels] /\ row \in [Execs -> Execs \cup {None}]
      /\ res \in [Execs -> Outcomes] /\ ctx \in [Execs -> BOOLEAN] /\ token \in SUBSET Execs
      /\ chan \in [Execs -> Chans \cup {None}] /\ buf \in [Chans -> Values]
      /\ hold \in [Execs -> Chans \cup {None}] /\ ag \in [Execs -> AgentStates]
      /\ jobs \in SUBSET Execs /\ ops \in 0..env.ops
      /\ rp \in ReaperStates /\ gc \in BOOLEAN /\ up \in BOOLEAN
  BY DEF TypeOK, DockerTypeOK, AgentTypeOK
<1>1. CASE Ages(x)
  <2>1. UNCHANGED <<cs, exit, net, api, faults, abandoned, env, run, up, pc, row, res, ctx,
        token, chan, buf, hold, ag, jobs, ops, rp, gc>>
    BY <1>1 DEF Ages, dockerVars, memVars, reaperVars
  <2>2. step' \in [Execs -> StepRows]
    <3>1. step[x].age \in 0..3 /\ step[x].age < env.clock
      BY <1>1, <1>t DEF Ages, StepRows
    <3>2. PICK a \in 0..3 : a = step[x].age + 1
      BY <3>1, ScenarioTypes
    <3>3. step' = [step EXCEPT ![x].age = a]
      BY <1>1, <3>2 DEF Ages
    <3> QED BY <3>3, RowUpdates, Zenon
  <2> QED BY <2>1, <2>2 DEF TypeOK, DockerTypeOK, AgentTypeOK
<1>2. CASE Halt(x)
  <2>1. UNCHANGED <<cs, exit, net, api, faults, abandoned, env, up, pc, row, res, ctx, token,
        chan, buf, hold, ag, jobs, rp, gc>>
    BY <1>2 DEF Halt, dockerVars, memVars, reaperVars
  <2>2. step' \in [Execs -> StepRows]
    <3>1. step' = step \/ UpdateRunStepStatus(x, "waiting")
      BY <1>2, Zenon DEF Halt
    <3>2. "waiting" \in StepStatuses
      BY DEF StepStatuses
    <3>3. UpdateRunStepStatus(x, "waiting") => step' \in [Execs -> StepRows]
      BY <3>2, RowUpdates, Zenon
    <3> QED BY <1>t, <3>1, <3>3, Zenon
  <2>3. run' \in RunStatuses
    BY <1>2, <1>t, SMT DEF Halt, UpdateRunStepStatus, UpdateRunStatus, Takes, RunStatuses,
         Outcomes, Leaving
  <2>4. ops' \in 0..env.ops
    BY <1>2, <1>t, OpsBounded DEF Halt
  <2> QED BY <2>1, <2>2, <2>3, <2>4 DEF TypeOK, DockerTypeOK, AgentTypeOK
<1>3. CASE Resume(x)
  <2>1. UNCHANGED <<cs, exit, net, api, faults, abandoned, env, up, pc, row, res, ctx, token,
        chan, buf, hold, ag, rp, gc>>
    BY <1>3 DEF Resume, dockerVars, memVars, reaperVars
  <2>2. step' \in [Execs -> StepRows]
    <3>1. UpdateRunStepStatus(x, "pending")
      BY <1>3, Zenon DEF Resume, UpdateRunStepStatus
    <3>2. "pending" \in StepStatuses
      BY DEF StepStatuses
    <3> QED BY <3>1, <3>2, RowUpdates, Zenon
  <2>3. run' \in RunStatuses
    BY <1>3, <1>t, SMT DEF Resume, UpdateRunStatus, Takes, RunStatuses, Outcomes, Leaving
  <2>4. jobs' \in SUBSET Execs
    BY <1>3, <1>t, SMT DEF Resume, UpdateRunStatus, Takes
  <2>5. ops' \in 0..env.ops
    BY <1>3, <1>t, OpsBounded DEF Resume
  <2> QED BY <2>1, <2>2, <2>3, <2>4, <2>5 DEF TypeOK, DockerTypeOK, AgentTypeOK
<1>4. CASE RetryStep(x)
  <2>1. UNCHANGED <<cs, exit, net, api, faults, abandoned, env, up, pc, row, res, ctx, token,
        chan, buf, hold, ag, rp, gc>>
    BY <1>4 DEF RetryStep, dockerVars, memVars, reaperVars
  <2>2. step' \in [Execs -> StepRows]
    <3>1. PICK y \in Execs : UpdateRunStepStatus(y, "pending")
      BY <1>4, Zenon DEF RetryStep, UpdateRunStepStatus
    <3>2. "pending" \in StepStatuses
      BY DEF StepStatuses
    <3> QED BY <3>1, <3>2, RowUpdates, Zenon
  <2>3. run' \in RunStatuses
    BY <1>4, <1>t, SMT DEF RetryStep, UpdateRunStatus, Takes, RunStatuses, Outcomes, Leaving
  <2>4. jobs' \in SUBSET Execs
    BY <1>4, <1>t, SMT DEF RetryStep, UpdateRunStatus, Takes
  <2>5. ops' \in 0..env.ops
    BY <1>4, <1>t, OpsBounded DEF RetryStep
  <2> QED BY <2>1, <2>2, <2>3, <2>4, <2>5 DEF TypeOK, DockerTypeOK, AgentTypeOK
<1>5. CASE CancelRun(x)
  <2>1. UNCHANGED <<net, api, env, up, pc, row, res, ctx, token, chan, buf, hold, jobs, rp, gc>>
    BY <1>5 DEF CancelRun, dockerVars, memVars, reaperVars
  <2>2. cs' \in [Containers -> ContainerStates]
    <3>1. step[x].cid \in Execs \/ step[x].cid = None
      BY <1>t DEF StepRows
    <3>2. \/ UNCHANGED cs
          \/ step[x].cid \in Execs /\ StopAndRemove(Agent(step[x].cid))
      BY <1>5, <3>1 DEF CancelRun, dockerVars
    <3>3. \A d \in Execs : StopAndRemove(Agent(d)) => cs' \in [Containers -> ContainerStates]
      BY ContainerUpdates, OwnContainers
    <3> QED BY <1>t, <3>2, <3>3, Zenon
  <2>3. exit' \in [Containers -> {0, 1}]
    <3>1. step[x].cid \in Execs \/ step[x].cid = None
      BY <1>t DEF StepRows
    <3>2. \/ UNCHANGED exit
          \/ step[x].cid \in Execs /\ StopAndRemove(Agent(step[x].cid))
      BY <1>5, <3>1 DEF CancelRun, dockerVars
    <3>3. \A d \in Execs : StopAndRemove(Agent(d)) => exit' \in [Containers -> {0, 1}]
      BY ContainerUpdates, OwnContainers
    <3> QED BY <1>t, <3>2, <3>3, Zenon
  <2>4. Fault \/ NoFault
    <3>1. step[x].cid \in Execs \/ step[x].cid = None
      BY <1>t DEF StepRows
    <3>2. NoFault \/ (step[x].cid \in Execs /\ StopAndRemove(Agent(step[x].cid)))
      BY <1>5, <3>1 DEF CancelRun, NoFault, dockerVars
    <3>3. \A d \in Execs : StopAndRemove(Agent(d)) => Fault \/ NoFault
      BY ContainerUpdates, OwnContainers
    <3> QED BY <3>2, <3>3, Zenon
  <2>5. faults' \in 0..env.faults
    BY <2>4, FaultsBounded
  <2>6. abandoned' \in SUBSET (Containers \cup {Net})
    <3>1. step[x].cid \in Execs \/ step[x].cid = None
      BY <1>t DEF StepRows
    <3>2. \/ UNCHANGED abandoned
          \/ step[x].cid \in Execs /\ StopAndRemove(Agent(step[x].cid))
      BY <1>5, <3>1 DEF CancelRun, dockerVars
    <3>3. \A d \in Execs : StopAndRemove(Agent(d)) => abandoned' \in SUBSET (Containers \cup {Net})
      BY ContainerUpdates, OwnContainers
    <3> QED BY <1>t, <3>2, <3>3, Zenon
  <2>7. ag' \in [Execs -> AgentStates]
    <3>1. step[x].cid \in Execs \/ step[x].cid = None
      BY <1>t DEF StepRows
    <3>2. ag' = ag \/ (step[x].cid \in Execs /\ AgentFollows(step[x].cid))
      BY <1>5, <3>1 DEF CancelRun
    <3>3. \A d \in Execs : AgentFollows(d) => ag' \in [Execs -> AgentStates]
      BY FollowsTypes
    <3> QED BY <1>t, <3>2, <3>3, Zenon
  <2>8. step' \in [Execs -> StepRows]
    <3>1. step' = step \/ UpdateRunStepStatus(x, "cancelled")
      BY <1>5, Zenon DEF CancelRun
    <3>2. "cancelled" \in StepStatuses
      BY DEF StepStatuses
    <3>3. UpdateRunStepStatus(x, "cancelled") => step' \in [Execs -> StepRows]
      BY <3>2, RowUpdates, Zenon
    <3> QED BY <1>t, <3>1, <3>3, Zenon
  <2>9. run' \in RunStatuses
    BY <1>5, <1>t, SMT DEF CancelRun, Takes, StopAndRemove, Remove, StoppedForm, AgentFollows,
         Agent, UpdateRunStepStatus, UpdateRunStatus, RunStatuses, Outcomes, Leaving
  <2>10. ops' \in 0..env.ops
    BY <1>5, <1>t, OpsBounded DEF CancelRun
  <2> QED BY <2>1, <2>2, <2>3, <2>4, <2>5, <2>6, <2>7, <2>8, <2>9, <2>10 DEF TypeOK,
          DockerTypeOK, AgentTypeOK
<1> QED BY <1>1, <1>2, <1>3, <1>4, <1>5 DEF Ages

LEMMA TypeByProcess ==
  ASSUME TypeOK, Paths, Processes, NetAges \/ Crash \/ Boot
  PROVE  TypeOK'
<1> USE ExecsAreNumbers
<1>t. /\ cs \in [Containers -> ContainerStates] /\ exit \in [Containers -> {0, 1}]
      /\ net \in {"absent", "new", "old"} /\ api \in BOOLEAN
      /\ abandoned \in SUBSET (Containers \cup {Net})
      /\ run \in RunStatuses /\ step \in [Execs -> StepRows]
      /\ pc \in [Execs -> Labels] /\ row \in [Execs -> Execs \cup {None}]
      /\ res \in [Execs -> Outcomes] /\ ctx \in [Execs -> BOOLEAN] /\ token \in SUBSET Execs
      /\ chan \in [Execs -> Chans \cup {None}] /\ buf \in [Chans -> Values]
      /\ hold \in [Execs -> Chans \cup {None}] /\ ag \in [Execs -> AgentStates]
      /\ jobs \in SUBSET Execs /\ ops \in 0..env.ops
      /\ rp \in ReaperStates /\ gc \in BOOLEAN /\ up \in BOOLEAN
  BY DEF TypeOK, DockerTypeOK, AgentTypeOK
<1>1. CASE NetAges
  <2>1. UNCHANGED <<cs, exit, api, faults, abandoned, env, run, step, up, pc, row, res, ctx,
        token, chan, buf, hold, ag, jobs, ops, rp, gc>>
    BY <1>1 DEF NetAges, rowVars, memVars, reaperVars
  <2>2. net' \in {"absent", "new", "old"}
    BY <1>1, <1>t, SMT DEF NetAges
  <2> QED BY <2>1, <2>2 DEF TypeOK, DockerTypeOK, AgentTypeOK
<1>2. CASE Crash
  <2>1. UNCHANGED <<cs, exit, net, api, faults, env, run, step, row, res, ctx, ag, jobs>>
    BY <1>2 DEF Crash, rowVars
  <2>2. ops' \in 0..env.ops
    BY <1>2, <1>t, OpsBounded DEF Crash
  <2>3. up' \in BOOLEAN
    BY <1>2, <1>t DEF Crash
  <2>4. pc' \in [Execs -> Labels]
    BY <1>2, <1>t, SMT DEF Crash, Takes, Idle, Empty, Unknown, Goto, Labels, Leaving
  <2>5. token' \in SUBSET Execs
    BY <1>2, <1>t, SMT DEF Crash, Takes, Idle, Empty, Unknown
  <2>6. chan' \in [Execs -> Chans \cup {None}]
    BY <1>2, <1>t, SMT DEF Crash, Takes, Idle, Empty, Unknown
  <2>7. buf' \in [Chans -> Values]
    BY <1>2, <1>t, SMT DEF Crash, Takes, Idle, Empty, Unknown, Values
  <2>8. hold' \in [Execs -> Chans \cup {None}]
    BY <1>2, <1>t, SMT DEF Crash, Takes, Idle, Empty, Unknown
  <2>9. rp' \in ReaperStates
    BY <1>2, <1>t, SMT DEF Crash, Takes, Idle, Empty, Unknown, ReaperStates, Containers, Kinds
  <2>10. gc' \in BOOLEAN
    BY <1>2, <1>t DEF Crash
  <2>11. abandoned' \in SUBSET (Containers \cup {Net})
    BY <1>2, <1>t, SMT DEF Crash, Takes, Idle, Empty, Unknown, Containers, Kinds
  <2> QED BY <2>1, <2>2, <2>3, <2>4, <2>5, <2>6, <2>7, <2>8, <2>9, <2>10, <2>11 DEF TypeOK,
          DockerTypeOK, AgentTypeOK
<1>3. CASE Boot
  <2>1. UNCHANGED <<cs, exit, net, api, faults, abandoned, env, run, step, pc, row, res, ctx,
        token, chan, buf, hold, ag, jobs, ops, gc>>
    BY <1>3 DEF Boot, dockerVars, rowVars, memVars
  <2>2. up' \in BOOLEAN
    BY <1>3, <1>t, SMT DEF Boot, Idle
  <2>3. rp' \in ReaperStates
    BY <1>3, <1>t, SMTT(40) DEF Boot, Idle, ReaperStates, Containers, Kinds
  <2> QED BY <2>1, <2>2, <2>3 DEF TypeOK, DockerTypeOK, AgentTypeOK
<1> QED BY <1>1, <1>2, <1>3 DEF Boot

-----------------------------------------------------------------------------
(* Where an execution is, and what its other variables then hold.           *)

LEMMA MemoryFrames ==
  ASSUME Next
  PROVE  \/ \E e \in Execs : Execute(e) /\ UNCHANGED reaperVars
         \/ Crash
         \/ UNCHANGED <<pc, row, res, hold, env>>
<1> USE DEF KeepMem, KeepRest, KeepApi, KeepAll, KeepDocker, KeepForGC, KeepExec, dockerVars,
      rowVars,
            memVars, reaperVars
<1>1. ASSUME NEW e \in Execs, CommandEnds(e) \/ AgentProcess(e) PROVE UNCHANGED <<pc, row, res, hold, env>>
  BY <1>1 DEF CommandEnds, AgentProcess, AgentFinishes, PostStatus, AgentExits, AgentDies
<1>2. ASSUME NEW e \in Execs, Expire(e) PROVE UNCHANGED <<pc, row, res, hold, env>>
  BY <1>2 DEF Expire
<1>3. ASSUME NEW x \in Execs, Ages(x) \/ Halt(x) \/ Resume(x) \/ RetryStep(x) \/ CancelRun(x)
      PROVE  UNCHANGED <<pc, row, res, hold, env>>
  BY <1>3 DEF Ages, Halt, Resume, RetryStep, CancelRun
<1>4. Reaper \/ Collector => UNCHANGED <<pc, row, res, hold, env>>
  BY DEF Reaper, CheckTimeouts, StopTimedOut, FailTimedOutStep, FailTimedOutRun, ListLive,
       Evaluate,
         MarkOrphaned, CleanupOrphans, RemoveOrphan, Collector, ListOrphanNetworks, GcNetwork,
         GcCommandContainers
<1>5. NetAges \/ Boot => UNCHANGED <<pc, row, res, hold, env>>
  BY DEF NetAges, Boot
<1> QED BY <1>1, <1>2, <1>3, <1>4, <1>5 DEF Next, Executing

LEMMA PathsByExecute ==
  ASSUME TypeOK, Paths, NEW e \in Execs, Execute(e)
  PROVE  Paths'
<1> USE ExecsAreNumbers DEF Paths, Goto, Fail, Leaving, Waiting, NetworkUsed
<1>t. /\ pc \in [Execs -> Labels] /\ row \in [Execs -> Execs \cup {None}]
      /\ res \in [Execs -> Outcomes] /\ ctx \in [Execs -> BOOLEAN]
      /\ hold \in [Execs -> Chans \cup {None}] /\ jobs \in SUBSET Execs
  BY DEF TypeOK, DockerTypeOK, AgentTypeOK
<1>c. /\ env.services \in BOOLEAN /\ env.commands \in BOOLEAN /\ env.isolate \in BOOLEAN
      /\ env.mode \in {"callback", "legacy"}
  BY ScenarioTypes
<1>1. CASE Begin(e)
  BY <1>1, <1>t, <1>c, SMT DEF Begin, KeepMem, KeepRest, dockerVars
<1>2. CASE ResolveEnvironment(e)
  BY <1>2, <1>t, <1>c, SMT DEF ResolveEnvironment, KeepMem, KeepRest, dockerVars,
       AfterEnvironment, AfterSidecars
<1>3. CASE LaunchNetwork(e)
  BY <1>3, <1>t, <1>c, SMT DEF LaunchNetwork, KeepMem, KeepRest, dockerVars, AfterNetwork,
       AfterSidecars, Rollback
<1>4. CASE LaunchService(e)
  BY <1>4, <1>t, <1>c, SMT DEF LaunchService, KeepMem, KeepRest, dockerVars, Rollback
<1>5. CASE WaitReady(e)
  BY <1>5, <1>t, <1>c, SMT DEF WaitReady, KeepMem, KeepRest, dockerVars, AfterSidecars, Rollback
<1>6. CASE RunOneCommand(e)
  BY <1>6, <1>t, <1>c, SMT DEF RunOneCommand, KeepMem, KeepRest, dockerVars, Teardown
<1>7. CASE CommandWait(e)
  BY <1>7, <1>t, <1>c, SMT DEF CommandWait, KeepMem, KeepRest, dockerVars
<1>8. CASE RemoveEphemeral(e)
  BY <1>8, <1>t, <1>c, SMT DEF RemoveEphemeral, KeepMem, KeepRest, dockerVars, Teardown
<1>9. CASE PrepareCallback(e)
  BY <1>9, <1>t, <1>c, SMT DEF PrepareCallback, KeepMem, KeepRest, dockerVars
<1>10. CASE Launch(e)
  BY <1>10, <1>t, <1>c, SMT DEF Launch, KeepMem, KeepRest, dockerVars, Teardown
<1>11. CASE PersistContainerID(e)
  BY <1>11, <1>t, <1>c, SMT DEF PersistContainerID, KeepMem, KeepRest, dockerVars
<1>12. CASE WaitForStatus(e)
  <2>1. PICK x \in Execs : x = row[e]
    BY <1>12 DEF WaitForStatus
  <2>2. PICK k \in Chans : k = GetOrCreate(x)
    BY ChannelsOf
  <2>3. pc' = [pc EXCEPT ![e] = "status"] /\ hold' = [hold EXCEPT ![e] = k]
        /\ UNCHANGED <<row, res, env>>
    BY <1>12, <2>1, <2>2 DEF WaitForStatus, KeepRest
  <2>4. k # None
    BY <2>2 DEF Chans, None
  <2> QED BY <1>12, <1>t, <2>2, <2>3, <2>4, SMT DEF WaitForStatus
<1>13. CASE StatusArrives(e)
  BY <1>13, <1>t, <1>c, SMT DEF StatusArrives, KeepMem, KeepRest, dockerVars, Unregister
<1>14. CASE StatusGivenUp(e)
  BY <1>14, <1>t, <1>c, SMT DEF StatusGivenUp, KeepMem, KeepRest, dockerVars, Unregister
<1>15. CASE ProcessExited(e)
  BY <1>15, <1>t, <1>c, SMT DEF ProcessExited, KeepMem, KeepRest, dockerVars
<1>16. CASE GraceElapsed(e)
  BY <1>16, <1>t, <1>c, SMT DEF GraceElapsed, KeepMem, KeepRest, dockerVars, Unregister
<1>17. CASE StreamLogs(e)
  BY <1>17, <1>t, <1>c, SMT DEF StreamLogs, KeepMem, KeepRest, dockerVars
<1>18. CASE StreamAndWait(e)
  BY <1>18, <1>t, <1>c, SMT DEF StreamAndWait, KeepMem, KeepRest, dockerVars
<1>19. CASE RevokeCallbackToken(e)
  BY <1>19, <1>t, <1>c, SMT DEF RevokeCallbackToken, KeepMem, KeepRest, dockerVars
<1>20. CASE StopAgent(e)
  BY <1>20, <1>t, <1>c, SMT DEF StopAgent, KeepMem, KeepRest, dockerVars, Teardown
<1>21. CASE TeardownSidecars(e)
  BY <1>21, <1>t, <1>c, SMT DEF TeardownSidecars, KeepMem, KeepRest, dockerVars
<1>22. CASE TeardownNetwork(e)
  BY <1>22, <1>t, <1>c, SMT DEF TeardownNetwork, KeepMem, KeepRest, dockerVars
<1>23. CASE WriteStep(e)
  BY <1>23, <1>t, <1>c, SMT DEF WriteStep, KeepMem, KeepRest, dockerVars
<1>24. CASE WriteRun(e)
  BY <1>24, <1>t, <1>c, SMT DEF WriteRun, KeepMem, KeepRest, dockerVars
<1> QED BY <1>1, <1>2, <1>3, <1>4, <1>5, <1>6, <1>7, <1>8, <1>9, <1>10, <1>11, <1>12, <1>13,
        <1>14, <1>15, <1>16, <1>17, <1>18, <1>19, <1>20, <1>21, <1>22, <1>23, <1>24 DEF Execute

LEMMA ProcessesByExecute ==
  ASSUME TypeOK, Processes, NEW e \in Execs, Execute(e)
  PROVE  Processes'
<1> USE DEF Processes, Goto, PreLaunch, MaxRetries
<1>t. /\ pc \in [Execs -> Labels] /\ cs \in [Containers -> ContainerStates]
      /\ ag \in [Execs -> AgentStates]
  BY DEF TypeOK, DockerTypeOK, AgentTypeOK
<1>1. CASE Begin(e)
  BY <1>1, <1>t, ContainersDiffer, SMT DEF Begin, KeepMem, KeepRest, dockerVars, Off, Unknown
<1>2. CASE ResolveEnvironment(e)
  BY <1>2, <1>t, ContainersDiffer, SMT DEF ResolveEnvironment, AfterEnvironment, AfterSidecars,
       Fail, KeepMem, KeepRest, dockerVars, Off, Unknown
<1>3. CASE LaunchNetwork(e)
  BY <1>3, <1>t, ContainersDiffer, SMT DEF LaunchNetwork, CreateNetwork, ConnectContainer,
       AfterNetwork, AfterSidecars, Rollback, Fail, KeepMem, KeepRest, dockerVars, Off, Unknown
<1>4. CASE LaunchService(e)
  BY <1>4, <1>t, ContainersDiffer, SMT DEF LaunchService, Start, Create, Rollback, Fail,
       KeepMem, KeepRest, dockerVars, Off, Unknown
<1>5. CASE WaitReady(e)
  BY <1>5, <1>t, ContainersDiffer, SMT DEF WaitReady, AfterSidecars, Rollback, Fail, KeepMem,
       KeepRest, dockerVars, Off, Unknown
<1>6. CASE RunOneCommand(e)
  BY <1>6, <1>t, ContainersDiffer, SMT DEF RunOneCommand, Start, Create, Teardown, Fail,
       KeepMem, KeepRest, dockerVars, Off, Unknown
<1>7. CASE CommandWait(e)
  BY <1>7, <1>t, ContainersDiffer, SMT DEF CommandWait, Fail, KeepMem, KeepRest, dockerVars,
       Off, Unknown
<1>8. CASE RemoveEphemeral(e)
  BY <1>8, <1>t, ContainersDiffer, SMT DEF RemoveEphemeral, StopAndRemove, Remove, StoppedForm,
       Teardown, KeepMem, KeepRest, dockerVars, Off, Unknown
<1>9. CASE PrepareCallback(e)
  BY <1>9, <1>t, ContainersDiffer, SMT DEF PrepareCallback, KeepMem, KeepRest, dockerVars, Off,
       Unknown
<1>10. CASE Launch(e)
  <2>1. CASE /\ cs' = [cs EXCEPT ![Agent(e)] = "running"]
             /\ ag' = [ag EXCEPT ![e].at = "work"]
             /\ pc' = [pc EXCEPT ![e] = "persist"]
    <3>1. /\ ag'[e].at = "work" /\ ag'[e].verdict = Unknown
          /\ cs'[Agent(e)] = "running" /\ pc'[e] = "persist"
      BY <1>10, <1>t, <2>1, ContainersDiffer DEF Launch, AgentStates
    <3>2. \A d \in Execs \ {e} :
             ag'[d] = ag[d] /\ cs'[Agent(d)] = cs[Agent(d)] /\ pc'[d] = pc[d]
      BY <1>t, <2>1, ContainersDiffer
    <3> QED BY <3>1, <3>2 DEF Unknown
  <2>2. CASE /\ \A d \in Execs \ {e} : cs'[Agent(d)] = cs[Agent(d)]
             /\ ag' = ag
             /\ \E l \in {"unsidecar", "write"} : pc' = [pc EXCEPT ![e] = l]
    BY <1>10, <1>t, <2>2 DEF Launch, Unknown
  <2> QED BY <1>10, <1>t, <2>1, <2>2, ContainersDiffer DEF Launch, Start, Fail, Teardown
<1>11. CASE PersistContainerID(e)
  BY <1>11, <1>t, ContainersDiffer, SMT DEF PersistContainerID, UpdateRunStepContainerInfo,
       KeepMem, KeepRest, dockerVars, Off, Unknown
<1>12. CASE WaitForStatus(e)
  BY <1>12, <1>t, ContainersDiffer, SMT DEF WaitForStatus, KeepMem, KeepRest, dockerVars, Off,
       Unknown
<1>13. CASE StatusArrives(e)
  BY <1>13, <1>t, ContainersDiffer, SMT DEF StatusArrives, Unregister, KeepMem, KeepRest,
       dockerVars, Off, Unknown
<1>14. CASE StatusGivenUp(e)
  BY <1>14, <1>t, ContainersDiffer, SMT DEF StatusGivenUp, Unregister, Fail, KeepMem, KeepRest,
       dockerVars, Off, Unknown
<1>15. CASE ProcessExited(e)
  BY <1>15, <1>t, ContainersDiffer, SMT DEF ProcessExited, KeepMem, KeepRest, dockerVars, Off,
       Unknown
<1>16. CASE GraceElapsed(e)
  BY <1>16, <1>t, ContainersDiffer, SMT DEF GraceElapsed, Unregister, Fail, KeepMem, KeepRest,
       dockerVars, Off, Unknown
<1>17. CASE StreamLogs(e)
  BY <1>17, <1>t, ContainersDiffer, SMT DEF StreamLogs, Fail, KeepMem, KeepRest, dockerVars,
       Off, Unknown
<1>18. CASE StreamAndWait(e)
  BY <1>18, <1>t, ContainersDiffer, SMT DEF StreamAndWait, Fail, KeepMem, KeepRest, dockerVars,
       Off, Unknown
<1>19. CASE RevokeCallbackToken(e)
  BY <1>19, <1>t, ContainersDiffer, SMT DEF RevokeCallbackToken, KeepMem, KeepRest, dockerVars,
       Off, Unknown
<1>20. CASE StopAgent(e)
  BY <1>20, <1>t, ContainersDiffer, SMT DEF StopAgent, StopAndRemove, Remove, StoppedForm,
       Teardown, AgentFollows, KeepMem, KeepRest, dockerVars, Off, Unknown
<1>21. CASE TeardownSidecars(e)
  BY <1>21, <1>t, ContainersDiffer, SMT DEF TeardownSidecars, StopAndRemove, Remove,
       StoppedForm, KeepMem, KeepRest, dockerVars, Off, Unknown
<1>22. CASE TeardownNetwork(e)
  BY <1>22, <1>t, ContainersDiffer, SMT DEF TeardownNetwork, DisconnectContainer, RemoveNetwork,
       KeepMem, KeepRest, dockerVars, Off, Unknown
<1>23. CASE WriteStep(e)
  BY <1>23, <1>t, ContainersDiffer, SMT DEF WriteStep, UpdateRunStepStatus, KeepMem, KeepRest,
       dockerVars, Off, Unknown
<1>24. CASE WriteRun(e)
  BY <1>24, <1>t, ContainersDiffer, SMT DEF WriteRun, UpdateRunStatus, KeepMem, KeepRest,
       dockerVars, Off, Unknown
<1> QED BY <1>1, <1>2, <1>3, <1>4, <1>5, <1>6, <1>7, <1>8, <1>9, <1>10, <1>11, <1>12, <1>13,
        <1>14, <1>15, <1>16, <1>17, <1>18, <1>19, <1>20, <1>21, <1>22, <1>23, <1>24 DEF Execute

LEMMA TouchesOne ==
  ASSUME TypeOK, NEW c \in Containers, Remove(c) \/ Stop(c) \/ StopAndRemove(c)
  PROVE  \A d \in Containers \ {c} : cs'[d] = cs[d]
<1>1. PICK s : cs' = [cs EXCEPT ![c] = s]
  BY DEF Remove, Stop, StopAndRemove
<1> QED BY <1>1 DEF TypeOK, DockerTypeOK

LEMMA ProcessesFollow ==
  ASSUME TypeOK, Processes, NEW d \in Execs, AgentFollows(d), pc' = pc,
         \A x \in Execs \ {d} : cs'[Agent(x)] = cs[Agent(x)]
  PROVE  Processes'
<1>1. ag \in [Execs -> AgentStates]
  BY DEF TypeOK, AgentTypeOK
<1>2. /\ \A x \in Execs \ {d} : ag'[x] = ag[x]
      /\ ag'[d].verdict = ag[d].verdict
      /\ ag'[d].at = "off" \/ (ag'[d] = ag[d] /\ cs'[Agent(d)] = "running")
  BY <1>1 DEF AgentFollows, Off, AgentStates
<1> QED BY <1>2 DEF Processes, PreLaunch, MaxRetries, Unknown

LEMMA ProcessesByAgent ==
  ASSUME TypeOK, Processes, NEW e \in Execs, CommandEnds(e) \/ AgentProcess(e)
  PROVE  Processes'
<1> USE DEF PreLaunch, MaxRetries, Unknown
<1>t. /\ cs \in [Containers -> ContainerStates] /\ ag \in [Execs -> AgentStates]
  BY DEF TypeOK, DockerTypeOK, AgentTypeOK
<1>1. CASE CommandEnds(e)
  <2>1. UNCHANGED <<pc, ag>> /\ \A d \in Execs : cs'[Agent(d)] = cs[Agent(d)]
    BY <1>1, <1>t, ContainersDiffer DEF CommandEnds, KeepRest, memVars
  <2> QED BY <2>1 DEF Processes
<1>2. CASE AgentFinishes(e)
  <2>1. UNCHANGED <<pc, cs>> /\ \A d \in Execs \ {e} : ag'[d] = ag[d]
    BY <1>2, <1>t DEF AgentFinishes, KeepApi, dockerVars
  <2>2. ag[e].at = "work" /\ ag'[e].at = "post" /\ ag'[e].tries = 0 /\ ag'[e].verdict \in {0, 1}
    BY <1>2, <1>t DEF AgentFinishes
  <2> QED BY <2>1, <2>2 DEF Processes
<1>3. CASE PostStatus(e)
  <2>1. UNCHANGED <<pc, cs>> /\ \A d \in Execs \ {e} : ag'[d] = ag[d]
    BY <1>3, <1>t DEF PostStatus, KeepApi
  <2>2. /\ ag[e].at = "post" /\ ag'[e].verdict = ag[e].verdict
        /\ ag'[e].at \in {"post", "reported", "error"}
        /\ ag'[e].at = "post" => ag'[e].tries < 3
    <3>1. ag[e] \in AgentStates /\ ag[e].at = "post" /\ ag[e].tries \in 0..2
      BY <1>3, <1>t DEF PostStatus, AgentStates, Processes
    <3>2. ag'[e] \in {[ag[e] EXCEPT !.at = "reported"], [ag[e] EXCEPT !.at = "error"], Retry(e)}
      BY <1>3, <1>t DEF PostStatus
    <3>3. CASE ag'[e] = Retry(e)
      BY <3>1, <3>3 DEF Retry, AgentStates
    <3>4. CASE ag'[e] # Retry(e)
      BY <3>1, <3>2, <3>4 DEF AgentStates
    <3> QED BY <3>3, <3>4
  <2> QED BY <2>1, <2>2 DEF Processes
<1>4. CASE AgentExits(e) \/ AgentDies(e)
  <2>1. /\ UNCHANGED pc /\ ag' = Off(e)
        /\ \A d \in Execs \ {e} : cs'[Agent(d)] = cs[Agent(d)]
    BY <1>4, <1>t, ContainersDiffer DEF AgentExits, AgentDies, KeepApi
  <2>2. cs'[Agent(e)] # "running"
    BY <1>4, <1>t, ContainersDiffer DEF AgentExits, AgentDies
  <2> QED BY <2>1, <2>2, ProcessesFollow DEF AgentFollows
<1> QED BY <1>1, <1>2, <1>3, <1>4 DEF AgentProcess

LEMMA ProcessesByOthers ==
  ASSUME TypeOK, Processes,
         \/ Reaper \/ Collector \/ Crash \/ NetAges \/ Boot
         \/ \E x \in Execs : \/ Expire(x) \/ Ages(x) \/ Halt(x) \/ Resume(x) \/ RetryStep(x)
                             \/ CancelRun(x)
  PROVE  Processes'
<1> USE DEF KeepAll, KeepDocker, KeepForGC, KeepExec, dockerVars, rowVars, memVars, reaperVars
<1>t. /\ cs \in [Containers -> ContainerStates] /\ ag \in [Execs -> AgentStates]
      /\ pc \in [Execs -> Labels] /\ step \in [Execs -> StepRows] /\ rp \in ReaperStates
  BY DEF TypeOK, DockerTypeOK, AgentTypeOK
<1>0. CASE UNCHANGED <<pc, cs, ag>>
  BY <1>0 DEF Processes, PreLaunch, MaxRetries, Unknown
<1>1. CASE StopTimedOut
  <2>1. \/ UNCHANGED <<pc, cs, ag>>
        \/ \E d \in Execs : Stop(Agent(d)) /\ AgentFollows(d) /\ UNCHANGED pc
    BY <1>1, <1>t DEF StopTimedOut, ReaperStates
  <2> QED BY <1>0, <2>1, TouchesOne, ProcessesFollow, ContainersDiffer
<1>2. CASE RemoveOrphan
  <2>1. \/ UNCHANGED <<pc, cs, ag>>
        \/ \E c \in Containers : Remove(c) /\ AgentFollows(c[2]) /\ UNCHANGED pc
    BY <1>2, <1>t DEF RemoveOrphan, ReaperStates
  <2>2. \A c \in Containers : c[2] \in Execs /\ \A d \in Execs \ {c[2]} : Agent(d) # c
    BY DEF Containers, Agent
  <2> QED BY <1>0, <2>1, <2>2, TouchesOne, ProcessesFollow, ContainersDiffer
<1>3. CASE GcCommandContainers
  <2>1. UNCHANGED <<pc, ag>> /\ \E d \in Execs : Remove(Command(d))
    BY <1>3 DEF GcCommandContainers
  <2>2. \A d \in Execs : cs'[Agent(d)] = cs[Agent(d)]
    BY <2>1, TouchesOne, ContainersDiffer
  <2> QED BY <2>1, <2>2 DEF Processes, PreLaunch, MaxRetries, Unknown
<1>4. CASE \E x \in Execs : CancelRun(x)
  <2>1. \/ UNCHANGED <<pc, cs, ag>>
        \/ \E d \in Execs : StopAndRemove(Agent(d)) /\ AgentFollows(d) /\ UNCHANGED pc
    BY <1>4, <1>t DEF CancelRun, StepRows
  <2> QED BY <1>0, <2>1, TouchesOne, ProcessesFollow, ContainersDiffer
<1>5. CASE Crash
  <2>1. UNCHANGED <<cs, ag>> /\ \A d \in Execs : pc'[d] = pc[d] \/ pc'[d] = "dead"
    BY <1>5 DEF Crash
  <2> QED BY <2>1 DEF Processes, PreLaunch, MaxRetries, Unknown
<1>6. CASE CheckTimeouts \/ FailTimedOutStep \/ FailTimedOutRun \/ ListLive \/ Evaluate \/ MarkOrphaned
           \/ CleanupOrphans \/ ListOrphanNetworks \/ GcNetwork \/ NetAges \/ Boot
  BY <1>0, <1>6 DEF CheckTimeouts, FailTimedOutStep, FailTimedOutRun, ListLive, Evaluate,
     MarkOrphaned, CleanupOrphans, ListOrphanNetworks, GcNetwork, NetAges, Boot
<1>7. CASE \E x \in Execs : Expire(x) \/ Ages(x) \/ Halt(x) \/ Resume(x) \/ RetryStep(x)
  BY <1>0, <1>7 DEF Expire, Ages, Halt, Resume, RetryStep
<1> QED BY <1>1, <1>2, <1>3, <1>4, <1>5, <1>6, <1>7 DEF Reaper, Collector

-----------------------------------------------------------------------------
(* Which execution answers for a container and for the network.             *)

LEMMA Removal ==
  ASSUME TypeOK, NEW c \in Containers, StopAndRemove(c) \/ (Remove(c) /\ abandoned' = abandoned \ {c})
  PROVE  /\ \A d \in Containers \ {c} : /\ cs'[d] = cs[d]
                                        /\ d \in abandoned' <=> d \in abandoned
         /\ cs'[c] = "absent" \/ (c \in abandoned' /\ cs[c] # "absent")
         /\ Net \in abandoned => Net \in abandoned'
<1>1. \A d \in Containers \ {c} : cs'[d] = cs[d]
  BY TouchesOne
<1>2. cs \in [Containers -> ContainerStates]
  BY DEF TypeOK, DockerTypeOK
<1>3. c # Net
  BY DEF Net, Containers, Kinds
<1> QED BY <1>1, <1>2, <1>3 DEF StopAndRemove, Remove

LEMMA OwnedKept ==
  ASSUME Owned, UNCHANGED <<pc, env>>,
         \A c \in Containers : /\ cs'[c] # "absent" => cs[c] # "absent"
                               /\ c \in abandoned => c \in abandoned' \/ cs'[c] = "absent"
  PROVE  Owned'
BY ContainersDiffer DEF Owned, NetworkUsed, AgentHome, CommandHome, SidecarHome, Waiting

LEMMA OwnedByExecute ==
  ASSUME TypeOK, Owned, Paths, NEW e \in Execs, Execute(e)
  PROVE  Owned'
<1> USE DEF Owned, Goto, AgentHome, CommandHome, SidecarHome, Waiting, NetworkUsed
<1>t. /\ pc \in [Execs -> Labels] /\ cs \in [Containers -> ContainerStates]
  BY DEF TypeOK, DockerTypeOK, AgentTypeOK
<1>p. pc[e] \in {"sidecar", "ready"} => env.services = TRUE
  BY ScenarioTypes DEF Paths
<1>c. /\ env.services \in BOOLEAN /\ env.commands \in BOOLEAN /\ env.isolate \in BOOLEAN
      /\ env.mode \in {"callback", "legacy"}
  BY ScenarioTypes
<1>1. CASE Begin(e)
  BY <1>1, <1>t, <1>p, <1>c, ContainersDiffer, SMT DEF Begin, KeepMem, KeepRest, dockerVars
<1>2. CASE ResolveEnvironment(e)
  BY <1>2, <1>t, <1>p, <1>c, ContainersDiffer, SMT DEF ResolveEnvironment, AfterEnvironment,
       AfterSidecars, Fail, KeepMem, KeepRest, dockerVars
<1>3. CASE LaunchNetwork(e)
  BY <1>3, <1>t, <1>p, <1>c, ContainersDiffer, SMT DEF LaunchNetwork, CreateNetwork,
       ConnectContainer, AfterNetwork, AfterSidecars, Rollback, Fail, KeepMem, KeepRest,
       dockerVars
<1>4. CASE LaunchService(e)
  BY <1>4, <1>t, <1>p, <1>c, ContainersDiffer, SMT DEF LaunchService, Start, Create, Rollback,
       Fail, KeepMem, KeepRest, dockerVars
<1>5. CASE WaitReady(e)
  BY <1>5, <1>t, <1>p, <1>c, ContainersDiffer, SMT DEF WaitReady, AfterSidecars, Rollback, Fail,
       KeepMem, KeepRest, dockerVars
<1>6. CASE RunOneCommand(e)
  BY <1>6, <1>t, <1>p, <1>c, ContainersDiffer, SMT DEF RunOneCommand, Start, Create, Teardown,
       Fail, KeepMem, KeepRest, dockerVars
<1>7. CASE CommandWait(e)
  BY <1>7, <1>t, <1>p, <1>c, ContainersDiffer, SMT DEF CommandWait, Fail, KeepMem, KeepRest,
       dockerVars
<1>8. CASE RemoveEphemeral(e)
  <2>1. /\ StopAndRemove(Command(e)) /\ UNCHANGED env
        /\ \E l \in {"unsidecar", "write", "launch", "mint"} :
             pc' = [pc EXCEPT ![e] = l] /\ (l = "write" => ~NetworkUsed)
    BY <1>8 DEF RemoveEphemeral, KeepRest, Teardown
  <2> QED BY <1>8, <1>t, <1>c, <2>1, Removal, ContainersDiffer DEF RemoveEphemeral
<1>9. CASE PrepareCallback(e)
  BY <1>9, <1>t, <1>p, <1>c, ContainersDiffer, SMT DEF PrepareCallback, KeepMem, KeepRest,
       dockerVars
<1>10. CASE Launch(e)
  BY <1>10, <1>t, <1>p, <1>c, ContainersDiffer, SMT DEF Launch, Start, Teardown, Fail, KeepMem,
       KeepRest, dockerVars
<1>11. CASE PersistContainerID(e)
  BY <1>11, <1>t, <1>p, <1>c, ContainersDiffer, SMT DEF PersistContainerID,
       UpdateRunStepContainerInfo, KeepMem, KeepRest, dockerVars
<1>12. CASE WaitForStatus(e)
  BY <1>12, <1>t, <1>p, <1>c, ContainersDiffer, SMT DEF WaitForStatus, KeepMem, KeepRest,
       dockerVars
<1>13. CASE StatusArrives(e)
  BY <1>13, <1>t, <1>p, <1>c, ContainersDiffer, SMT DEF StatusArrives, Unregister, KeepMem,
       KeepRest, dockerVars
<1>14. CASE StatusGivenUp(e)
  BY <1>14, <1>t, <1>p, <1>c, ContainersDiffer, SMT DEF StatusGivenUp, Unregister, Fail,
       KeepMem, KeepRest, dockerVars
<1>15. CASE ProcessExited(e)
  BY <1>15, <1>t, <1>p, <1>c, ContainersDiffer, SMT DEF ProcessExited, KeepMem, KeepRest,
       dockerVars
<1>16. CASE GraceElapsed(e)
  BY <1>16, <1>t, <1>p, <1>c, ContainersDiffer, SMT DEF GraceElapsed, Unregister, Fail, KeepMem,
       KeepRest, dockerVars
<1>17. CASE StreamLogs(e)
  BY <1>17, <1>t, <1>p, <1>c, ContainersDiffer, SMT DEF StreamLogs, Fail, KeepMem, KeepRest,
       dockerVars
<1>18. CASE StreamAndWait(e)
  BY <1>18, <1>t, <1>p, <1>c, ContainersDiffer, SMT DEF StreamAndWait, Fail, KeepMem, KeepRest,
       dockerVars
<1>19. CASE RevokeCallbackToken(e)
  BY <1>19, <1>t, <1>p, <1>c, ContainersDiffer, SMT DEF RevokeCallbackToken, KeepMem, KeepRest,
       dockerVars
<1>20. CASE StopAgent(e)
  <2>1. /\ StopAndRemove(Agent(e)) /\ UNCHANGED env
        /\ pc' = [pc EXCEPT ![e] = IF NetworkUsed THEN "unsidecar" ELSE "write"]
    BY <1>20 DEF StopAgent, KeepRest, Teardown
  <2> QED BY <1>20, <1>t, <1>c, <2>1, Removal, ContainersDiffer DEF StopAgent
<1>21. CASE TeardownSidecars(e)
  <2>1. /\ StopAndRemove(Sidecar(e)) /\ UNCHANGED env
        /\ pc' = [pc EXCEPT ![e] = "unnetwork"]
    BY <1>21 DEF TeardownSidecars, KeepRest
  <2> QED BY <1>21, <1>t, <1>c, <2>1, Removal, ContainersDiffer DEF TeardownSidecars
<1>22. CASE TeardownNetwork(e)
  BY <1>22, <1>t, <1>p, <1>c, ContainersDiffer, SMT DEF TeardownNetwork, DisconnectContainer,
       RemoveNetwork, KeepMem, KeepRest, dockerVars
<1>23. CASE WriteStep(e)
  BY <1>23, <1>t, <1>p, <1>c, ContainersDiffer, SMT DEF WriteStep, UpdateRunStepStatus, KeepMem,
       KeepRest, dockerVars
<1>24. CASE WriteRun(e)
  BY <1>24, <1>t, <1>p, <1>c, ContainersDiffer, SMT DEF WriteRun, UpdateRunStatus, KeepMem,
       KeepRest, dockerVars
<1> QED BY <1>1, <1>2, <1>3, <1>4, <1>5, <1>6, <1>7, <1>8, <1>9, <1>10, <1>11, <1>12, <1>13,
        <1>14, <1>15, <1>16, <1>17, <1>18, <1>19, <1>20, <1>21, <1>22, <1>23, <1>24 DEF Execute

LEMMA OwnedByOthers ==
  ASSUME TypeOK, Owned, Processes,
         \/ Reaper \/ Collector \/ Crash \/ NetAges \/ Boot
         \/ \E x \in Execs : \/ CommandEnds(x) \/ AgentProcess(x) \/ Expire(x)
                             \/ Ages(x) \/ Halt(x) \/ Resume(x) \/ RetryStep(x) \/ CancelRun(x)
  PROVE  Owned'
<1> USE DEF KeepApi, KeepRest, KeepAll, KeepDocker, KeepForGC, KeepExec, dockerVars, rowVars,
      memVars,
            reaperVars
<1>t. /\ cs \in [Containers -> ContainerStates] /\ pc \in [Execs -> Labels]
      /\ step \in [Execs -> StepRows] /\ rp \in ReaperStates
  BY DEF TypeOK, DockerTypeOK, AgentTypeOK
<1>0. CASE UNCHANGED <<pc, cs, abandoned, env>>
  BY <1>0, OwnedKept
<1>1. CASE StopTimedOut
  <2>1. \/ UNCHANGED <<pc, cs, abandoned, env>>
        \/ \E d \in Execs : Stop(Agent(d)) /\ UNCHANGED <<pc, abandoned, env>>
    BY <1>1, <1>t DEF StopTimedOut, ReaperStates
  <2>2. ASSUME NEW d \in Execs, Stop(Agent(d)) PROVE \A c \in Containers : cs'[c] # "absent" => cs[c] # "absent"
    BY <2>2, <1>t, ContainersDiffer DEF Stop
  <2> QED BY <1>0, <2>1, <2>2, OwnedKept
<1>2. CASE RemoveOrphan
  <2>1. \/ UNCHANGED <<pc, cs, abandoned, env>>
        \/ \E c \in Containers : /\ Remove(c) /\ abandoned' = abandoned \ {c}
                                 /\ UNCHANGED <<pc, env>>
    BY <1>2, <1>t DEF RemoveOrphan, ReaperStates
  <2> QED BY <1>0, <2>1, Removal, OwnedKept
<1>3. CASE GcCommandContainers
  <2>1. \E c \in Containers : /\ Remove(c) /\ abandoned' = abandoned \ {c}
                              /\ UNCHANGED <<pc, env>>
    BY <1>3, ContainersDiffer DEF GcCommandContainers
  <2> QED BY <2>1, Removal, OwnedKept
<1>4. CASE GcNetwork
  <2>1. UNCHANGED <<pc, cs, env>> /\ abandoned' \in {abandoned, abandoned \ {Net},
        abandoned \cup {Net}}
    BY <1>4 DEF GcNetwork, RemoveNetwork
  <2> QED BY <2>1, OwnedKept, ContainersDiffer DEF Net, Containers, Kinds
<1>5. CASE \E x \in Execs : CancelRun(x)
  <2>1. \/ UNCHANGED <<pc, cs, abandoned, env>>
        \/ \E c \in Containers : StopAndRemove(c) /\ UNCHANGED <<pc, env>>
    BY <1>5, <1>t, ContainersDiffer DEF CancelRun, StepRows
  <2> QED BY <1>0, <2>1, Removal, OwnedKept
<1>6. CASE Crash
  <2>1. \A c \in Containers : cs'[c] # "absent" => c \in abandoned'
    BY <1>6 DEF Crash
  <2> QED BY <2>1, ContainersDiffer DEF Owned
<1>7. CASE \E x \in Execs : CommandEnds(x)
  <2>1. UNCHANGED <<pc, abandoned,
        env>> /\ \A c \in Containers : cs'[c] # "absent" => cs[c] # "absent"
    BY <1>7, <1>t, ContainersDiffer DEF CommandEnds
  <2> QED BY <2>1, OwnedKept
<1>8. CASE \E x \in Execs : AgentProcess(x)
  <2>1. PICK x \in Execs : AgentProcess(x)
    BY <1>8
  <2>2. UNCHANGED <<pc, abandoned, env>>
    BY <2>1 DEF AgentProcess, AgentFinishes, PostStatus, AgentExits, AgentDies
  <2>3. \A c \in Containers : cs'[c] # "absent" => cs[c] # "absent"
    BY <2>1, <1>t, ContainersDiffer DEF AgentProcess, AgentFinishes, PostStatus, AgentExits,
         AgentDies, Processes
  <2> QED BY <2>2, <2>3, OwnedKept
<1>9. CASE CheckTimeouts \/ FailTimedOutStep \/ FailTimedOutRun \/ ListLive \/ Evaluate \/ MarkOrphaned
           \/ CleanupOrphans \/ ListOrphanNetworks \/ NetAges \/ Boot
  BY <1>0, <1>9 DEF CheckTimeouts, FailTimedOutStep, FailTimedOutRun, ListLive, Evaluate,
     MarkOrphaned, CleanupOrphans, ListOrphanNetworks, NetAges, Boot
<1>10. CASE \E x \in Execs : Expire(x) \/ Ages(x) \/ Halt(x) \/ Resume(x) \/ RetryStep(x)
  BY <1>0, <1>10 DEF Expire, Ages, Halt, Resume, RetryStep
<1> QED BY <1>1, <1>2, <1>3, <1>4, <1>5, <1>6, <1>7, <1>8, <1>9, <1>10 DEF Reaper, Collector

LEMMA NetworkKept ==
  ASSUME NetOwned, UNCHANGED env, net' # "absent" => net # "absent",
         Net \in abandoned => Net \in abandoned',
         \A e \in Execs : NetworkUsed /\ pc[e] \in NetworkHome => pc'[e] \in NetworkHome
  PROVE  NetOwned'
BY DEF NetOwned, NetworkUsed, NetworkHome, SidecarHome, AgentHome, CommandHome, Waiting

LEMMA NetworkRemoval ==
  ASSUME NetOwned, RemoveNetwork
  PROVE  net' = "absent" \/ Net \in abandoned'
BY DEF RemoveNetwork

LEMMA NetworkByExecute ==
  ASSUME TypeOK, NetOwned, Paths, NEW e \in Execs, Execute(e)
  PROVE  NetOwned'
<1> USE DEF NetworkHome, SidecarHome, AgentHome, CommandHome, Waiting, NetworkUsed
<1>t. pc \in [Execs -> Labels]
  BY DEF TypeOK, AgentTypeOK
<1>c. /\ env.services \in BOOLEAN /\ env.commands \in BOOLEAN /\ env.isolate \in BOOLEAN
      /\ env.mode \in {"callback", "legacy"}
  BY ScenarioTypes
<1>1. CASE LaunchNetwork(e)
  <2>1. CASE \E l \in NetworkHome : pc' = [pc EXCEPT ![e] = l]
    <3>1. UNCHANGED env /\ NetworkUsed /\ pc'[e] \in NetworkHome
      BY <1>1, <1>t, <2>1 DEF LaunchNetwork, KeepRest, Paths
    <3> QED BY <3>1 DEF NetOwned
  <2>2. CASE pc' = [pc EXCEPT ![e] = "write"] /\ UNCHANGED net
    <3>1. UNCHANGED <<env, abandoned>> /\ pc[e] = "network"
      BY <1>1 DEF LaunchNetwork, KeepRest
    <3> QED BY <1>t, <2>2, <3>1, NetworkKept
  <2> QED BY <1>1, <1>c, <2>1, <2>2 DEF LaunchNetwork, Rollback, Fail, Goto, AfterNetwork,
          AfterSidecars
<1>2. CASE TeardownNetwork(e)
  <2>1. UNCHANGED env /\ RemoveNetwork
    BY <1>2 DEF TeardownNetwork, KeepRest
  <2>2. net' # "absent" => Net \in abandoned'
    BY <2>1, NetworkRemoval
  <2> QED BY <2>2 DEF NetOwned
<1>3. CASE \/ Begin(e) \/ ResolveEnvironment(e) \/ WriteStep(e) \/ WriteRun(e)
  <2>1. UNCHANGED <<env, net, abandoned>> /\ pc[e] \notin NetworkHome
    BY <1>3 DEF Begin, ResolveEnvironment, WriteStep, WriteRun, KeepRest, dockerVars
  <2>2. \A d \in Execs \ {e} : pc'[d] = pc[d]
    BY <1>3, <1>t DEF Begin, ResolveEnvironment, WriteStep, WriteRun, Goto, Fail
  <2> QED BY <2>1, <2>2, NetworkKept
<1>4. CASE LaunchService(e) \/ WaitReady(e) \/ RunOneCommand(e) \/ CommandWait(e)
           \/ PrepareCallback(e) \/ PersistContainerID(e)
           \/ WaitForStatus(e) \/ StatusArrives(e) \/ StatusGivenUp(e)
           \/ ProcessExited(e) \/ GraceElapsed(e) \/ StreamLogs(e) \/ StreamAndWait(e)
           \/ RevokeCallbackToken(e)
  <2> USE DEF LaunchService, WaitReady, RunOneCommand, CommandWait, PrepareCallback,
        PersistContainerID,
              WaitForStatus, StatusArrives, StatusGivenUp, ProcessExited, GraceElapsed, StreamLogs,
              StreamAndWait, RevokeCallbackToken
  <2>1. UNCHANGED <<env, net, abandoned>>
    BY <1>4 DEF KeepRest, dockerVars
  <2>2. \A d \in Execs \ {e} : pc'[d] = pc[d]
    BY <1>4, <1>t DEF Goto, Fail, Rollback
  <2>3. NetworkUsed => pc'[e] \in NetworkHome
    BY <1>4, <1>t, <1>c DEF Goto, Fail, Rollback, Teardown, AfterSidecars
  <2> QED BY <2>1, <2>2, <2>3, NetworkKept
<1>5. CASE Launch(e)
  <2>1. UNCHANGED <<env, net>> /\ (Net \in abandoned => Net \in abandoned')
    BY <1>5 DEF Launch
  <2>2. \A d \in Execs \ {e} : pc'[d] = pc[d]
    BY <1>5, <1>t DEF Launch, Goto, Fail
  <2>3. NetworkUsed => pc'[e] \in NetworkHome
    BY <1>5, <1>t, <1>c DEF Launch, Goto, Fail, Teardown
  <2> QED BY <2>1, <2>2, <2>3, NetworkKept
<1>6. CASE RemoveEphemeral(e) \/ StopAgent(e) \/ TeardownSidecars(e)
  <2>1. UNCHANGED <<env, net>> /\ \E c \in Containers : StopAndRemove(c)
    BY <1>6, ContainersDiffer DEF RemoveEphemeral, StopAgent, TeardownSidecars, KeepRest
  <2>2. \A d \in Execs \ {e} : pc'[d] = pc[d]
    BY <1>6, <1>t DEF RemoveEphemeral, StopAgent, TeardownSidecars, Goto
  <2>3. NetworkUsed => pc'[e] \in NetworkHome
    BY <1>6, <1>t, <1>c DEF RemoveEphemeral, StopAgent, TeardownSidecars, Goto, Teardown
  <2> QED BY <2>1, <2>2, <2>3, NetworkKept, Removal
<1> QED BY <1>1, <1>2, <1>3, <1>4, <1>5, <1>6 DEF Execute

LEMMA NetworkByOthers ==
  ASSUME TypeOK, NetOwned,
         \/ Reaper \/ Collector \/ Crash \/ NetAges \/ Boot
         \/ \E x \in Execs : \/ CommandEnds(x) \/ AgentProcess(x) \/ Expire(x)
                             \/ Ages(x) \/ Halt(x) \/ Resume(x) \/ RetryStep(x) \/ CancelRun(x)
  PROVE  NetOwned'
<1> USE DEF KeepApi, KeepRest, KeepAll, KeepDocker, KeepForGC, KeepExec, dockerVars, rowVars,
      memVars,
            reaperVars
<1>t. step \in [Execs -> StepRows] /\ rp \in ReaperStates
  BY DEF TypeOK, DockerTypeOK
<1>0. CASE UNCHANGED <<pc, env>> /\ (net' # "absent" => net # "absent") /\ (Net \in abandoned => Net \in abandoned')
  BY <1>0, NetworkKept
<1>1. CASE GcNetwork
  BY <1>0, <1>1 DEF GcNetwork, RemoveNetwork, NetOwned
<1>2. CASE RemoveOrphan
  <2>1. \/ UNCHANGED <<pc, net, abandoned, env>>
        \/ \E c \in Containers : /\ Remove(c) /\ abandoned' = abandoned \ {c}
                                 /\ UNCHANGED <<pc, net, env>>
    BY <1>2, <1>t DEF RemoveOrphan, ReaperStates
  <2> QED BY <1>0, <2>1, Removal
<1>3. CASE GcCommandContainers
  <2>1. \E c \in Containers : /\ Remove(c) /\ abandoned' = abandoned \ {c}
                              /\ UNCHANGED <<pc, net, env>>
    BY <1>3, ContainersDiffer DEF GcCommandContainers
  <2> QED BY <1>0, <2>1, Removal
<1>4. CASE \E x \in Execs : CancelRun(x)
  <2>1. \/ UNCHANGED <<pc, net, abandoned, env>>
        \/ \E c \in Containers : StopAndRemove(c) /\ UNCHANGED <<pc, net, env>>
    BY <1>4, <1>t, ContainersDiffer DEF CancelRun, StepRows
  <2> QED BY <1>0, <2>1, Removal
<1>5. CASE Crash
  BY <1>5 DEF Crash, NetOwned
<1>6. CASE \E x \in Execs : CommandEnds(x) \/ AgentProcess(x) \/ Expire(x) \/ Ages(x) \/ Halt(x) \/ Resume(x)
                            \/ RetryStep(x)
  BY <1>0, <1>6 DEF CommandEnds, AgentProcess, AgentFinishes, PostStatus, AgentExits, AgentDies,
       Expire,
     Ages, Halt, Resume, RetryStep
<1>7. CASE StopTimedOut \/ CheckTimeouts \/ FailTimedOutStep \/ FailTimedOutRun \/ ListLive \/ Evaluate
           \/ MarkOrphaned \/ CleanupOrphans \/ ListOrphanNetworks \/ NetAges \/ Boot
  BY <1>0, <1>7 DEF StopTimedOut, CheckTimeouts, FailTimedOutStep, FailTimedOutRun, ListLive,
       Evaluate,
     MarkOrphaned, CleanupOrphans, ListOrphanNetworks, NetAges, Boot
<1> QED BY <1>1, <1>2, <1>3, <1>4, <1>5, <1>6, <1>7 DEF Reaper, Collector

-----------------------------------------------------------------------------
(* The channels of the callback store, and what is buffered in them.        *)

(* No agent changes its mind.                                               *)
SameVerdicts == \A d \in Execs : ag'[d].verdict = ag[d].verdict

LEMMA VerdictsStay ==
  ASSUME TypeOK, NEW e \in Execs,
         \/ ag' = ag \/ ag' = Off(e) \/ AgentFollows(e)
         \/ \E l : ag' = [ag EXCEPT ![e].at = l]
  PROVE  SameVerdicts
<1>1. ag \in [Execs -> AgentStates]
  BY DEF TypeOK, AgentTypeOK
<1>2. ag' = ag \/ ag' = Off(e) \/ \E l : ag' = [ag EXCEPT ![e].at = l]
  BY DEF AgentFollows
<1>3. ag' = Off(e) => ag'[e].verdict = ag[e].verdict /\ \A d \in Execs \ {e} : ag'[d] = ag[d]
  BY <1>1 DEF Off, AgentStates
<1>4. (\E l : ag' = [ag EXCEPT ![e].at = l]) =>
         ag'[e].verdict = ag[e].verdict /\ \A d \in Execs \ {e} : ag'[d] = ag[d]
  BY <1>1 DEF AgentStates
<1> QED BY <1>2, <1>3, <1>4 DEF SameVerdicts

LEMMA PostKeepsVerdicts ==
  ASSUME TypeOK, NEW e \in Execs, PostStatus(e)
  PROVE  SameVerdicts
<1>t. ag \in [Execs -> AgentStates]
  BY DEF TypeOK, AgentTypeOK
<1>1. \/ \E l : ag' = [ag EXCEPT ![e].at = l]
      \/ ag' = [ag EXCEPT ![e] = Retry(e)]
  BY DEF PostStatus
<1>2. Retry(e).verdict = ag[e].verdict
  BY <1>t DEF Retry, AgentStates
<1>3. ag' = [ag EXCEPT ![e] = Retry(e)] => SameVerdicts
  BY <1>t, <1>2 DEF SameVerdicts
<1> QED BY <1>1, <1>3, VerdictsStay

LEMMA ChannelFrames ==
  ASSUME TypeOK, Next
  PROVE  \/ \E e \in Execs : \/ Begin(e) \/ WaitForStatus(e)
                             \/ StatusArrives(e) \/ StatusGivenUp(e) \/ GraceElapsed(e)
                             \/ PostStatus(e) \/ AgentFinishes(e)
         \/ Crash
         \/ UNCHANGED <<chan, buf, hold, row>> /\ SameVerdicts
<1> USE DEF KeepMem, KeepApi, KeepRest, KeepAll, KeepDocker, KeepForGC, KeepExec, dockerVars,
      rowVars,
            memVars, reaperVars
<1>t. step \in [Execs -> StepRows] /\ rp \in ReaperStates
  BY DEF TypeOK, DockerTypeOK
<1>0. ag' = ag => SameVerdicts
  BY DEF SameVerdicts
<1>1. ASSUME NEW e \in Execs, Execute(e), ~Begin(e), ~WaitForStatus(e), ~StatusArrives(e),
             ~StatusGivenUp(e), ~GraceElapsed(e)
      PROVE  UNCHANGED <<chan, buf, hold, row>> /\ SameVerdicts
  <2>1. CASE Launch(e)
    <3>1. ag' = ag \/ ag' = [ag EXCEPT ![e].at = "work"]
      BY <2>1 DEF Launch
    <3> QED BY <2>1, <3>1, VerdictsStay DEF Launch
  <2>2. CASE StopAgent(e)
    BY <2>2, VerdictsStay DEF StopAgent
  <2>3. CASE \/ ResolveEnvironment(e) \/ LaunchNetwork(e) \/ LaunchService(e) \/ WaitReady(e)
             \/ RunOneCommand(e) \/ CommandWait(e) \/ RemoveEphemeral(e) \/ PrepareCallback(e)
             \/ PersistContainerID(e) \/ ProcessExited(e) \/ StreamLogs(e) \/ StreamAndWait(e)
             \/ RevokeCallbackToken(e) \/ TeardownSidecars(e) \/ TeardownNetwork(e)
             \/ WriteStep(e) \/ WriteRun(e)
    BY <2>3, <1>0 DEF ResolveEnvironment, LaunchNetwork, LaunchService, WaitReady, RunOneCommand,
       CommandWait, RemoveEphemeral, PrepareCallback, PersistContainerID, ProcessExited, StreamLogs,
       StreamAndWait, RevokeCallbackToken, TeardownSidecars, TeardownNetwork, WriteStep, WriteRun
  <2> QED BY <1>1, <2>1, <2>2, <2>3 DEF Execute
<1>2. ASSUME NEW e \in Execs, CommandEnds(e) \/ AgentExits(e) \/ AgentDies(e)
      PROVE  UNCHANGED <<chan, buf, hold, row>> /\ SameVerdicts
  BY <1>0, <1>2, VerdictsStay DEF CommandEnds, AgentExits, AgentDies
<1>3. ASSUME NEW x \in Execs, Expire(x) \/ Ages(x) \/ Halt(x) \/ Resume(x) \/ RetryStep(x)
      PROVE  UNCHANGED <<chan, buf, hold, row>> /\ SameVerdicts
  BY <1>0, <1>3 DEF Expire, Ages, Halt, Resume, RetryStep
<1>4. ASSUME NEW x \in Execs, CancelRun(x)
      PROVE  UNCHANGED <<chan, buf, hold, row>> /\ SameVerdicts
  <2>1. ag' = ag \/ \E d \in Execs : AgentFollows(d)
    BY <1>4, <1>t DEF CancelRun, StepRows
  <2> QED BY <1>0, <1>4, <2>1, VerdictsStay DEF CancelRun
<1>5. CASE Reaper \/ Collector
  <2>1. UNCHANGED <<chan, buf, hold, row>>
    BY <1>5 DEF Reaper, CheckTimeouts, StopTimedOut, FailTimedOutStep, FailTimedOutRun, ListLive,
       Evaluate, MarkOrphaned, CleanupOrphans, RemoveOrphan, Collector, ListOrphanNetworks, GcNetwork,
       GcCommandContainers
  <2>2. CASE StopTimedOut
    <3>1. ag' = ag \/ \E d \in Execs : AgentFollows(d)
      BY <2>2, <1>t DEF StopTimedOut, ReaperStates
    <3> QED BY <1>0, <2>1, <3>1, VerdictsStay
  <2>3. CASE RemoveOrphan
    <3>1. ag' = ag \/ \E c \in rp.found : AgentFollows(c[2])
      BY <2>3 DEF RemoveOrphan
    <3>2. \A c \in rp.found : c[2] \in Execs
      BY <1>t DEF ReaperStates, Containers
    <3> QED BY <1>0, <2>1, <3>1, <3>2, VerdictsStay
  <2>4. CASE \/ CheckTimeouts \/ FailTimedOutStep \/ FailTimedOutRun \/ ListLive \/ Evaluate
             \/ MarkOrphaned \/ CleanupOrphans \/ Collector
    BY <1>0, <2>1, <2>4 DEF CheckTimeouts, FailTimedOutStep, FailTimedOutRun, ListLive,
       Evaluate, MarkOrphaned, CleanupOrphans, Collector, ListOrphanNetworks, GcNetwork,
       GcCommandContainers
  <2> QED BY <1>5, <2>2, <2>3, <2>4 DEF Reaper
<1>6. CASE NetAges \/ Boot
  BY <1>0, <1>6 DEF NetAges, Boot
<1> QED BY <1>1, <1>2, <1>3, <1>4, <1>5, <1>6 DEF Next, Executing, AgentProcess

(* A row that needs a channel gets its own or one nobody knows.             *)
LEMMA Registration ==
  ASSUME TypeOK, ChannelsApart, NEW x \in Execs, NEW e \in Execs, NEW k, k = GetOrCreate(x),
         chan' = [chan EXCEPT ![x] = k], UNCHANGED row,
         hold' = hold \/ (hold' = [hold EXCEPT ![e] = k] /\ row[e] = x)
  PROVE  ChannelsApart'
<1>1. /\ chan \in [Execs -> Chans \cup {None}] /\ hold \in [Execs -> Chans \cup {None}]
  BY DEF TypeOK, AgentTypeOK
<1>2. \/ chan[x] # None /\ k = chan[x]
      \/ \A d \in Execs : chan[d] # k /\ hold[d] # k
  BY FreeChanIsFree DEF GetOrCreate
<1>3. /\ \A y \in Execs : chan'[y] = IF y = x THEN k ELSE chan[y]
      /\ \A d \in Execs : hold'[d] = hold[d] \/ (hold'[d] = k /\ row[d] = x)
  BY <1>1
<1>4. k \in Chans /\ k # None
  BY ChannelsOf DEF Chans, None
<1> QED BY <1>2, <1>3, <1>4 DEF ChannelsApart

LEMMA ChannelsStayApart ==
  ASSUME TypeOK, Paths, Processes, ChannelsApart, Next
  PROVE  ChannelsApart'
<1>t. /\ chan \in [Execs -> Chans \cup {None}] /\ hold \in [Execs -> Chans \cup {None}]
      /\ row \in [Execs -> Execs \cup {None}] /\ jobs \in SUBSET Execs
  BY DEF TypeOK, AgentTypeOK
<1>1. CASE \E e \in Execs : Begin(e)
  <2>1. PICK e \in Execs : Begin(e)
    BY <1>1
  <2>2. UNCHANGED <<chan, hold>> /\ hold[e] = None /\ \A d \in Execs \ {e} : row'[d] = row[d]
    BY <1>t, <2>1 DEF Begin, Paths, Waiting
  <2> QED BY <2>2 DEF ChannelsApart
<1>2. CASE \E e \in Execs : WaitForStatus(e)
  <2>1. PICK e \in Execs : WaitForStatus(e)
    BY <1>2
  <2>2. PICK x \in Execs : x = row[e]
    BY <1>t, <2>1 DEF WaitForStatus, Paths
  <2>3. PICK k : k = GetOrCreate(x)
    OBVIOUS
  <2>4. chan' = [chan EXCEPT ![x] = k] /\ hold' = [hold EXCEPT ![e] = k] /\ row' = row
    BY <2>1, <2>2, <2>3 DEF WaitForStatus
  <2> QED BY <2>2, <2>3, <2>4, Registration
<1>3. CASE \E e \in Execs : PostStatus(e)
  <2>1. PICK e \in Execs : PostStatus(e)
    BY <1>3
  <2>2. PICK x \in Execs : x = row[e]
    BY <1>t, <2>1, ExecsAreNumbers DEF PostStatus, Paths, Processes, PreLaunch
  <2>3. PICK k : k = GetOrCreate(x)
    OBVIOUS
  <2>4. UNCHANGED <<row, hold>> /\ (chan' = chan \/ chan' = [chan EXCEPT ![x] = k])
    BY <2>1, <2>2, <2>3 DEF PostStatus, SetStatus, KeepApi
  <2>5. CASE chan' = chan
    BY <2>4, <2>5 DEF ChannelsApart
  <2>6. CASE chan' = [chan EXCEPT ![x] = k]
    BY <2>3, <2>4, <2>6, Registration
  <2> QED BY <2>4, <2>5, <2>6
<1>4. CASE \E e \in Execs : StatusArrives(e) \/ StatusGivenUp(e) \/ GraceElapsed(e)
  <2>1. UNCHANGED row /\ \A d \in Execs : chan'[d] \in {chan[d], None} /\ hold'[d] \in {hold[d],
        None}
    BY <1>4, <1>t DEF StatusArrives, StatusGivenUp, GraceElapsed, Unregister
  <2> QED BY <2>1 DEF ChannelsApart
<1>5. CASE Crash
  <2>1. \A d \in Execs : chan'[d] = None /\ hold'[d] = None
    BY <1>5 DEF Crash
  <2> QED BY <2>1 DEF ChannelsApart
<1>6. CASE UNCHANGED <<chan, hold, row>>
  BY <1>6 DEF ChannelsApart
<1>7. CASE \E e \in Execs : AgentFinishes(e)
  BY <1>6, <1>7 DEF AgentFinishes, KeepApi
<1> QED BY <1>1, <1>2, <1>3, <1>4, <1>5, <1>6, <1>7, ChannelFrames

(* A value v is true of row x: it was sent by an execution of x, and is the *)
(* verdict its agent had reached.                                           *)
TrueOf(v, x) ==
    v # Empty => v.from \in Execs /\ v.code \in {0, 1} /\ ag[v.from].verdict = v.code /\ row[v.from] = x

LEMMA BuffersRead ==
  ASSUME BuffersTrue, TypeOK
  PROVE  /\ \A x \in Execs : chan[x] # None => TrueOf(buf[chan[x]], x)
         /\ \A e \in Execs : hold[e] # None => TrueOf(buf[hold[e]], row[e])
BY DEF BuffersTrue, TrueOf, TypeOK, AgentTypeOK

LEMMA BuffersStayTrue ==
  ASSUME TypeOK, Paths, Processes, ChannelsApart, BuffersTrue, Next
  PROVE  BuffersTrue'
<1>t. /\ chan \in [Execs -> Chans \cup {None}] /\ hold \in [Execs -> Chans \cup {None}]
      /\ row \in [Execs -> Execs \cup {None}] /\ jobs \in SUBSET Execs
      /\ buf \in [Chans -> Values] /\ ag \in [Execs -> AgentStates]
  BY DEF TypeOK, AgentTypeOK
<1>0. CASE UNCHANGED <<chan, buf, hold, row>> /\ SameVerdicts
  BY <1>0 DEF BuffersTrue, SameVerdicts, Empty, Unknown
<1>1. CASE \E e \in Execs : Begin(e)
  <2>1. PICK e \in Execs : Begin(e)
    BY <1>1
  <2>2. /\ UNCHANGED <<chan, hold, buf, ag>> /\ hold[e] = None /\ ag[e].verdict = Unknown
        /\ \A d \in Execs \ {e} : row'[d] = row[d]
    BY <1>t, <2>1 DEF Begin, Paths, Waiting, Processes, PreLaunch, dockerVars
  <2> QED BY <1>t, <2>2 DEF BuffersTrue, Empty, Unknown
<1>2. CASE \E e \in Execs : WaitForStatus(e)
  <2>1. PICK e \in Execs : WaitForStatus(e)
    BY <1>2
  <2>2. PICK x \in Execs : x = row[e]
    BY <1>t, <2>1 DEF WaitForStatus, Paths
  <2>3. PICK k \in Chans : k = GetOrCreate(x)
    BY ChannelsOf
  <2>4. /\ chan' = [chan EXCEPT ![x] = k] /\ hold' = [hold EXCEPT ![e] = k] /\ UNCHANGED <<row, ag>>
        /\ buf' = [buf EXCEPT ![k] = IF chan[x] = None THEN Empty ELSE @]
    BY <2>1, <2>2, <2>3 DEF WaitForStatus, KeepRest
  <2>5. \/ chan[x] = k
        \/ chan[x] = None /\ \A d \in Execs : chan[d] # k /\ hold[d] # k
    BY <2>3, FreeChanIsFree DEF GetOrCreate
  <2>6. k # None
    BY <2>3 DEF Chans, None
  <2>7. buf'[k] = (IF chan[x] = None THEN Empty ELSE buf[k])
    BY <1>t, <2>4
  <2>8. CASE chan[x] = k
    BY <1>t, <2>2, <2>4, <2>6, <2>7, <2>8 DEF BuffersTrue, Empty, Unknown
  <2>9. CASE chan[x] = None /\ \A d \in Execs : chan[d] # k /\ hold[d] # k
    BY <1>t, <2>2, <2>4, <2>7, <2>9 DEF BuffersTrue, Empty, Unknown
  <2> QED BY <2>5, <2>8, <2>9
<1>3. CASE \E e \in Execs : PostStatus(e)
  <2>1. PICK e \in Execs : PostStatus(e)
    BY <1>3
  <2>2. PICK x \in Execs : x = row[e]
    BY <1>t, <2>1, ExecsAreNumbers DEF PostStatus, Paths, Processes, PreLaunch
  <2>3. PICK k \in Chans : k = GetOrCreate(x)
    BY ChannelsOf
  <2>4. UNCHANGED <<row, hold>> /\ SameVerdicts
    BY <2>1, PostKeepsVerdicts DEF PostStatus, KeepApi
  <2>5. CASE UNCHANGED <<chan, buf>>
    BY <1>0, <2>4, <2>5
  <2>6. CASE SetStatus(x, [code |-> ag[e].verdict, from |-> e])
    <3>1. PICK v \in Values : v = [code |-> ag[e].verdict, from |-> e]
      BY <1>t DEF AgentStates, Values
    <3>2. v.from = e /\ v.code = ag[e].verdict /\ v.code \in {0, 1} /\ v # Empty
      BY <2>1, <3>1, ExecsAreNumbers DEF PostStatus, Processes, Empty, Unknown
    <3> PICK old : old = IF chan[x] = None THEN Empty ELSE buf[k]
      OBVIOUS
    <3>3. old \in Values /\ old = IF chan[x] = None THEN Empty ELSE buf[k]
      <4>1. Empty \in Values
        BY DEF Values, Empty, Unknown
      <4> QED BY <1>t, <4>1
    <3>4. /\ chan' = [chan EXCEPT ![x] = k]
          /\ buf' = [buf EXCEPT ![k] = IF old = Empty THEN v ELSE old]
      BY <2>3, <2>6, <3>1, <3>3 DEF SetStatus
    <3>5. \/ chan[x] = k
          \/ chan[x] = None /\ \A d \in Execs : chan[d] # k /\ hold[d] # k
      BY <2>3, FreeChanIsFree DEF GetOrCreate
    <3>6. k # None
      BY <2>3 DEF Chans, None
    <3>7. buf'[k] \in {v, old} /\ (buf'[k] = old => old # Empty \/ old = v)
      BY <1>t, <3>4
    <3>8. CASE chan[x] = k
      <4>1. old = buf[k]
        BY <3>3, <3>6, <3>8
      <4>2. \A d \in Execs : hold[d] = k => row[d] = x
        BY <3>6, <3>8 DEF ChannelsApart
      <4>3. \A y \in Execs : chan[y] = k => y = x
        BY <3>6, <3>8 DEF ChannelsApart
      <4> QED BY <1>t, <2>2, <2>4, <3>2, <3>4, <3>6, <3>7, <3>8, <4>1, <4>2, <4>3
              DEF BuffersTrue, SameVerdicts, Empty, Unknown
    <3>9. CASE chan[x] = None /\ \A d \in Execs : chan[d] # k /\ hold[d] # k
      <4>1. buf'[k] = v
        BY <1>t, <3>3, <3>4, <3>9
      <4> QED BY <1>t, <2>2, <2>4, <3>2, <3>4, <3>6, <3>9, <4>1
              DEF BuffersTrue, SameVerdicts, Empty, Unknown
    <3> QED BY <3>5, <3>8, <3>9
  <2> QED BY <2>1, <2>2, <2>5, <2>6 DEF PostStatus
<1>4. CASE \E e \in Execs : AgentFinishes(e)
  <2>1. PICK e \in Execs : AgentFinishes(e)
    BY <1>4
  <2>2. /\ UNCHANGED <<chan, buf, hold, row>> /\ ag[e].verdict = Unknown
        /\ \A d \in Execs \ {e} : ag'[d] = ag[d]
    BY <1>t, <2>1 DEF AgentFinishes, KeepApi, Processes
  <2> QED BY <2>2 DEF BuffersTrue, Empty, Unknown
<1>5. CASE \E e \in Execs : StatusArrives(e)
  <2>1. PICK e \in Execs : StatusArrives(e)
    BY <1>5
  <2>2. /\ UNCHANGED <<row, ag>>
        /\ \A d \in Execs : chan'[d] \in {chan[d], None} /\ hold'[d] \in {hold[d], None}
        /\ \A k \in Chans : buf'[k] \in {buf[k], Empty}
    BY <1>t, <2>1 DEF StatusArrives, Unregister, KeepRest
  <2> QED BY <1>t, <2>2 DEF BuffersTrue, Empty, Unknown
<1>6. CASE \E e \in Execs : StatusGivenUp(e) \/ GraceElapsed(e)
  <2>1. /\ UNCHANGED <<row, ag, buf>>
        /\ \A d \in Execs : chan'[d] \in {chan[d], None} /\ hold'[d] \in {hold[d], None}
    BY <1>t, <1>6 DEF StatusGivenUp, GraceElapsed, Unregister, KeepRest
  <2> QED BY <1>t, <2>1 DEF BuffersTrue, Empty, Unknown
<1>7. CASE Crash
  <2>1. /\ \A k \in Chans : buf'[k] = Empty
        /\ \A d \in Execs : chan'[d] = None /\ hold'[d] = None
    BY <1>7 DEF Crash
  <2> QED BY <2>1 DEF BuffersTrue, Empty, Unknown
<1> QED BY <1>0, <1>1, <1>2, <1>3, <1>4, <1>5, <1>6, <1>7, ChannelFrames

-----------------------------------------------------------------------------
(* What an execution returns.                                               *)

LEMMA OnlyAStatusIsGood ==
  ASSUME TypeOK, Paths, env.mode = "callback", NEW e \in Execs, Execute(e), ~StatusArrives(e)
  PROVE  \A x \in Execs : res'[x] = "ok" => res[x] = "ok"
<1>t. res \in [Execs -> Outcomes]
  BY DEF TypeOK, AgentTypeOK
<1>1. CASE StreamAndWait(e)
  BY <1>1 DEF StreamAndWait, Paths
<1>2. CASE UNCHANGED res \/ \E l : Fail(e, l)
  BY <1>t, <1>2 DEF Fail
<1> QED BY <1>1, <1>2 DEF Execute, Begin, ResolveEnvironment, LaunchNetwork, LaunchService,
        WaitReady,
        RunOneCommand, CommandWait, RemoveEphemeral, PrepareCallback, Launch, PersistContainerID,
        WaitForStatus, StatusGivenUp, ProcessExited, GraceElapsed, StreamLogs, RevokeCallbackToken,
        StopAgent, TeardownSidecars, TeardownNetwork, WriteStep, WriteRun, Rollback

LEMMA EnvironmentIsFixed ==
  ASSUME Next
  PROVE  UNCHANGED env
<1>1. ASSUME NEW e \in Execs, Execute(e) PROVE UNCHANGED env
  BY <1>1 DEF Execute, Begin, ResolveEnvironment, LaunchNetwork, LaunchService, WaitReady,
        RunOneCommand, CommandWait, RemoveEphemeral, PrepareCallback, Launch, PersistContainerID,
        WaitForStatus, StatusArrives, StatusGivenUp, ProcessExited, GraceElapsed, StreamLogs,
        StreamAndWait, RevokeCallbackToken, StopAgent, TeardownSidecars, TeardownNetwork, WriteStep,
        WriteRun, KeepRest
<1>2. Crash => UNCHANGED env
  BY DEF Crash
<1> QED BY <1>1, <1>2, MemoryFrames

LEMMA OutcomesStayReported ==
  ASSUME TypeOK, Paths, Processes, BuffersTrue, OutcomeReported, Next
  PROVE  OutcomeReported'
<1>t. /\ res \in [Execs -> Outcomes] /\ row \in [Execs -> Execs \cup {None}]
      /\ ag \in [Execs -> AgentStates] /\ jobs \in SUBSET Execs /\ buf \in [Chans -> Values]
  BY DEF TypeOK, AgentTypeOK
<1> SUFFICES ASSUME env.mode = "callback"
             PROVE  \A x \in Execs : res'[x] = "ok" =>
                       \E d \in Execs : row'[d] = row'[x] /\ ag'[d].verdict = 0
  BY EnvironmentIsFixed DEF OutcomeReported
<1>0. CASE /\ UNCHANGED row /\ SameVerdicts
           /\ \A x \in Execs : res'[x] = "ok" => res[x] = "ok"
  BY <1>0 DEF OutcomeReported, SameVerdicts
<1>1. CASE \E e \in Execs : Begin(e)
  <2>1. PICK e \in Execs : Begin(e)
    BY <1>1
  <2>2. /\ UNCHANGED <<res, ag>> /\ res[e] = "none" /\ ag[e].verdict = Unknown
        /\ \A d \in Execs \ {e} : row'[d] = row[d]
    BY <1>t, <2>1 DEF Begin, Paths, Processes, PreLaunch
  <2> QED BY <2>2 DEF OutcomeReported, Unknown
<1>2. CASE \E e \in Execs : AgentFinishes(e)
  <2>1. PICK e \in Execs : AgentFinishes(e)
    BY <1>2
  <2>2. /\ UNCHANGED <<res, row>> /\ ag[e].verdict = Unknown
        /\ \A d \in Execs \ {e} : ag'[d] = ag[d]
    BY <1>t, <2>1 DEF AgentFinishes, KeepApi, Processes
  <2> QED BY <2>2 DEF OutcomeReported, Unknown
<1>3. CASE \E e \in Execs : StatusArrives(e)
  <2>1. PICK e \in Execs : StatusArrives(e)
    BY <1>3
  <2>2. /\ UNCHANGED <<row, ag>> /\ hold[e] # None /\ buf[hold[e]] # Empty
        /\ \A d \in Execs \ {e} : res'[d] = res[d]
        /\ res'[e] = "ok" => buf[hold[e]].code = 0
    BY <1>t, <2>1 DEF StatusArrives, Paths, Waiting, KeepRest
  <2>3. TrueOf(buf[hold[e]], row[e])
    BY <2>2, BuffersRead
  <2>4. res'[e] = "ok" => \E d \in Execs : row[d] = row[e] /\ ag[d].verdict = 0
    BY <2>2, <2>3 DEF TrueOf
  <2> QED BY <2>2, <2>4 DEF OutcomeReported
<1>4. CASE \E e \in Execs : WaitForStatus(e) \/ StatusGivenUp(e) \/ GraceElapsed(e)
  <2>1. UNCHANGED <<row, ag>> /\ (UNCHANGED res \/ \E e \in Execs, l \in Labels : Fail(e, l))
    BY <1>4 DEF WaitForStatus, StatusGivenUp, GraceElapsed, KeepRest, Labels
  <2>2. \A x \in Execs : res'[x] = "ok" => res[x] = "ok"
    BY <1>t, <2>1 DEF Fail
  <2> QED BY <1>0, <2>1, <2>2 DEF SameVerdicts
<1>5. CASE \E e \in Execs : PostStatus(e)
  <2>1. UNCHANGED <<res, row>>
    BY <1>5 DEF PostStatus, KeepApi
  <2>2. SameVerdicts
    BY <1>5, PostKeepsVerdicts
  <2> QED BY <1>0, <2>1, <2>2
<1>6. CASE Crash
  BY <1>0, <1>6 DEF Crash, SameVerdicts
<1>7. CASE UNCHANGED row /\ SameVerdicts
  BY <1>0, <1>3, <1>6, <1>7, MemoryFrames, OnlyAStatusIsGood
<1> QED BY <1>1, <1>2, <1>3, <1>4, <1>5, <1>6, <1>7, ChannelFrames

-----------------------------------------------------------------------------
(* The invariant, and what it says.                                         *)

LEMMA InitGood == Init => IInv
<1> SUFFICES ASSUME Init PROVE IInv
  OBVIOUS
<1> USE ExecsAreNumbers DEF Init, DockerInit, AgentInit
<1>1. DockerTypeOK
  <2>1. faults \in 0..env.faults
    BY ScenariosAssumption
  <2>2. step \in [Execs -> StepRows]
    BY DEF StepRows, StepStatuses
  <2> QED BY <2>1, <2>2 DEF DockerTypeOK, ContainerStates, RunStatuses
<1>2. AgentTypeOK
  <2>1. env.ops \in Nat
    BY ScenariosAssumption
  <2>2. 1 \in Execs
    BY ExecsInterval
  <2> QED BY <2>1, <2>2, SMT DEF AgentTypeOK, Labels, Outcomes, Values, AgentStates, Empty,
          Unknown, MaxRetries
<1>3. rp \in ReaperStates /\ gc \in BOOLEAN
  BY DEF ReaperStates, Idle
<1>4. Paths
  BY DEF Paths, Leaving, Waiting
<1>5. Processes
  BY DEF Processes, PreLaunch, Unknown
<1>6. Owned /\ NetOwned
  BY ContainersDiffer DEF Owned, NetOwned
<1>7. ChannelsApart /\ BuffersTrue
  BY DEF ChannelsApart, BuffersTrue
<1>8. OutcomeReported
  BY DEF OutcomeReported
<1> QED BY <1>1, <1>2, <1>3, <1>4, <1>5, <1>6, <1>7, <1>8 DEF IInv, TypeOK

LEMMA NextKeepsIInv == IInv /\ [Next]_vars => IInv'
<1> SUFFICES ASSUME IInv, [Next]_vars PROVE IInv'
  OBVIOUS
<1> USE DEF IInv
<1>1. CASE Next
  <2>1. TypeOK'
    <3>1. ASSUME NEW e \in Execs, Executing(e) \/ Expire(e) PROVE TypeOK'
      <4>1. CASE Expire(e)
        <5>1. ctx' \in [Execs -> BOOLEAN]
          BY <4>1 DEF Expire, TypeOK, AgentTypeOK
        <5>2. ops' \in 0..env.ops
          BY <4>1, OpsBounded DEF Expire
        <5>3. UNCHANGED <<cs, exit, net, api, faults, abandoned, env, run, step, up, pc, row, res,
                          token, chan, buf, hold, ag, jobs, rp, gc>>
          BY <4>1 DEF Expire, KeepExec, dockerVars, rowVars, reaperVars
        <5> QED BY <5>1, <5>2, <5>3 DEF TypeOK, DockerTypeOK, AgentTypeOK
      <4> QED BY <3>1, <4>1, TypeByExecute, TypeByAgent DEF Executing
    <3> QED BY <1>1, <3>1, TypeByReapers, TypeByOperations, TypeByProcess DEF Next
  <2>2. Paths'
    <3>1. CASE \E e \in Execs : Execute(e)
      BY <3>1, PathsByExecute
    <3>2. CASE Crash
      <4>1. /\ UNCHANGED <<row, res, env>> /\ \A e \in Execs : hold'[e] = None
            /\ \A e \in Execs : pc'[e] = "dead" \/ (~Live(e) /\ pc'[e] = pc[e])
        BY <3>2 DEF Crash
      <4>2. \A e \in Execs : pc'[e] = "dead" => row[e] \in Execs
        BY <3>2, <4>1 DEF Crash, Live, Paths
      <4> QED BY <4>1, <4>2 DEF Paths, Live, Leaving, Waiting, NetworkUsed
    <3>3. CASE UNCHANGED <<pc, row, res, hold, env>>
      BY <3>3 DEF Paths, Leaving, Waiting, NetworkUsed
    <3> QED BY <1>1, <3>1, <3>2, <3>3, MemoryFrames
  <2>3. Processes'
    BY <1>1, ProcessesByExecute, ProcessesByAgent, ProcessesByOthers DEF Next, Executing
  <2>4. Owned'
    BY <1>1, OwnedByExecute, OwnedByOthers DEF Next, Executing
  <2>5. NetOwned'
    BY <1>1, NetworkByExecute, NetworkByOthers DEF Next, Executing
  <2>6. ChannelsApart' /\ BuffersTrue'
    BY <1>1, ChannelsStayApart, BuffersStayTrue
  <2>7. OutcomeReported'
    BY <1>1, OutcomesStayReported
  <2> QED BY <2>1, <2>2, <2>3, <2>4, <2>5, <2>6, <2>7
<1>2. CASE UNCHANGED vars
  BY <1>2 DEF vars, dockerVars, rowVars, memVars, reaperVars, TypeOK, DockerTypeOK, AgentTypeOK,
       Paths,
     Leaving, Waiting, NetworkUsed, Processes, PreLaunch, Unknown, MaxRetries, Owned, NetOwned, ChannelsApart,
     BuffersTrue, Empty, OutcomeReported, AgentHome, CommandHome, SidecarHome, NetworkHome
<1> QED BY <1>1, <1>2

(* The invariant holds of every behaviour, for every number of executions,  *)
(* every environment and every number of faults and operations.             *)
THEOREM Invariance == Spec => []IInv
BY InitGood, NextKeepsIInv, PTL DEF Spec

(* No variable leaves its type; in particular the store always finds a free *)
(* channel, the retries of the callback client stop at MaxRetries and a row *)
(* is never written with an outcome that is no status (Execute,             *)
(* agent-runtime's postJSON).                                               *)
THEOREM TypeCorrect == Spec => []TypeOK
<1>1. IInv => TypeOK
  BY DEF IInv
<1> QED BY <1>1, Invariance, PTL

(* NothingLeaks: a container outlives its execution only when the daemon    *)
(* refused its removal or the process died (the deferred calls of Execute,  *)
(* removeEphemeral, the rollback of Launch).                                *)
THEOREM ContainersAreOwned == Spec => []NothingLeaks
<1>1. IInv => NothingLeaks
  <2> SUFFICES ASSUME IInv, NEW c \in Containers, cs[c] # "absent" PROVE Live(c[2]) \/ c \in abandoned
    BY DEF NothingLeaks
  <2>1. PICK e \in Execs : c \in {Agent(e), Command(e), Sidecar(e)} /\ c[2] = e
    BY DEF Containers, Kinds, Agent, Command, Sidecar
  <2>2. pc[e] \in SidecarHome => Live(e)
    BY DEF Live, SidecarHome, CommandHome, AgentHome, Waiting
  <2> QED BY <2>1, <2>2 DEF IInv, Owned, SidecarHome
<1> QED BY <1>1, Invariance, PTL

(* NetworkNotLeaked: the network of the run is there only while an          *)
(* execution is, or its removal has failed (SidecarManager.Cleanup).        *)
THEOREM NetworkIsOwned == Spec => []NetworkNotLeaked
<1>1. IInv => NetworkNotLeaked
  BY DEF IInv, NetOwned, NetworkNotLeaked, Live, NetworkHome, SidecarHome, CommandHome,
       AgentHome, Waiting
<1> QED BY <1>1, Invariance, PTL

(* OutcomeReported: with callbacks, a step ends well only when an agent of  *)
(* that step has reported success, through lost replies, repeated posts, a  *)
(* second execution of the row, and values left in old channels             *)
(* (awaitCallbackOrCrash, CallbackStatusStore).                             *)
THEOREM OutcomeIsReported == Spec => []OutcomeReported
<1>1. IInv => OutcomeReported
  BY DEF IInv
<1> QED BY <1>1, Invariance, PTL
=============================================================================
