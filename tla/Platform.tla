------------------------------ MODULE Platform ------------------------------
(***************************************************************************)
(* The server around the runs: accounts, projects and settings, the events *)
(* and those who listen to them, and what the agents cost, over one        *)
(* database and in one process.                                            *)
(*                                                                         *)
(* A behaviour plays one scenario: the rows it starts with, the requests   *)
(* that may come and how many, and the events and faults there may be.     *)
(***************************************************************************)
EXTENDS Administration, Telemetry, Costs

CONSTANTS Scenarios

VARIABLES left      \* what may still happen: [events, faults, streams, reports, days]

-----------------------------------------------------------------------------
(* What the schema asks of the tables: columns, unique indexes, references   *)
(* and checks.                                                               *)
Rows(T, columns) ==
    /\ T \in Seq(Range(T))
    /\ \A i \in DOMAIN T : columns \cup {"live"} \subseteq DOMAIN T[i] /\ T[i].live \in BOOLEAN
UniqueRows(T, Clash(_, _)) == \A i, j \in Live(T) : i # j => ~Clash(T[i], T[j])
OfProjects(T, ids) == \A i \in Live(T) : T[i].project \in ids

UserRows == [live : BOOLEAN, deleted : BOOLEAN, email : STRING, password : STRING, name : STRING,
             role : Roles]
SessionRows == [user : Nat, role : Roles, expired : BOOLEAN]
UsersFit(U) == U \in Seq(UserRows) /\ UniqueRows(U, EmailClash)
MembersFit(M, P, U) ==
    /\ Rows(M, {"project", "user"}) /\ UniqueRows(M, MemberClash) /\ OfProjects(M, Live(P))
    /\ \A i \in Live(M) : M[i].user \in Live(U)
KeysFit(K) == Rows(K, {"user", "provider", "name"}) /\ UniqueRows(K, KeyClash)
ProjectsFit(P) == Rows(P, {"name"}) /\ UniqueRows(P, NameClash)
PipelinesFit(C, P) ==
    /\ Rows(C, {"project", "yaml"}) /\ UniqueRows(C, ProjectClash) /\ OfProjects(C, Live(P))
    /\ \A i \in Live(C) : ValidatePipelineConfigYAML(C[i].yaml)
StacksFit(S) == Rows(S, {"key"}) /\ UniqueRows(S, StackClash)
AgentsFit(A, P, S) ==
    /\ Rows(A, {"project", "name", "stack", "provider"}) /\ UniqueRows(A, AgentClash)
    /\ OfProjects(A, Live(P) \cup {0})
    /\ \A i \in Live(A) : A[i].stack \in Live(S) \cup {0} /\ A[i].provider \in Providers
EnvironmentsFit(E, P) ==
    /\ Rows(E, {"project", "stacks", "source"}) /\ UniqueRows(E, ProjectClash)
    /\ OfProjects(E, Live(P))
    /\ \A i \in Live(E) : ValidateEnvironmentInput(E[i])
ConfigsFit(T, P) ==
    /\ Rows(T, {"project", "channel"}) /\ OfProjects(T, Live(P))
    /\ \A i \in Live(T) : T[i].channel \in Channels
(* A cost is of the project of the run of its step.                          *)
RunsFit(R, P) == Rows(R, {"project"}) /\ OfProjects(R, Live(P))
StepsFit(St, R) == Rows(St, {"run"}) /\ \A i \in Live(St) : St[i].run \in Live(R)
CostsFit(K, St, R, A) ==
    /\ Rows(K, {"step", "project", "agent", "age"})
    /\ \A i \in Live(K) : /\ K[i].step \in Live(St) /\ K[i].agent \in Live(A) \cup {0}
                          /\ K[i].project = R[St[K[i].step].run].project
Fits(d) ==
    /\ {"users", "sessions", "revoked", "members", "keys", "projects", "pipelines", "stacks",
        "agents", "environments", "configs", "stories", "runs", "steps", "costs",
        "attached"} \subseteq DOMAIN d
    /\ UsersFit(d.users) /\ MembersFit(d.members, d.projects, d.users) /\ KeysFit(d.keys)
    /\ ProjectsFit(d.projects) /\ PipelinesFit(d.pipelines, d.projects)
    /\ StacksFit(d.stacks) /\ AgentsFit(d.agents, d.projects, d.stacks)
    /\ EnvironmentsFit(d.environments, d.projects) /\ ConfigsFit(d.configs, d.projects)
    /\ Rows(d.stories, {"project"}) /\ OfProjects(d.stories, Live(d.projects))
    /\ RunsFit(d.runs, d.projects) /\ StepsFit(d.steps, d.runs)
    /\ CostsFit(d.costs, d.steps, d.runs, d.agents)
HasPipeline(d, p) == \E i \in Live(d.pipelines) : d.pipelines[i].project = p

(* A scenario starts with such tables and issued sessions, which claim the   *)
(* role of the user they were issued to, and every project has its pipeline. *)
ASSUME ScenariosAssumption ==
    \A s \in Scenarios :
        /\ Fits(s.db) /\ s.db.sessions \in Seq(SessionRows)
        /\ \A j \in DOMAIN s.db.sessions :
            LET claims == s.db.sessions[j]
            IN claims.user \in DOMAIN s.db.users /\ claims.role = s.db.users[claims.user].role
        /\ \A p \in Live(s.db.projects) : HasPipeline(s.db, p)

vars == <<adminVars, telemetryVars, left>>

Spend(what) == left[what] > 0 /\ left' = [left EXCEPT ![what] = @ - 1]

Init ==
    \E s \in Scenarios :
        /\ AdminInit(s.db, s.plan)
        /\ left = s.left
        /\ TelemetryInit(s.db.projects, DOMAIN s.db.steps)

Serving == listener \notin {"off", "stopped"}

-----------------------------------------------------------------------------

Requests ==
    /\ Serving
    /\ \/ DispatcherUp /\ AdminRequests({events[e].project : e \in DOMAIN events})
       \/ AdminSteps
    /\ UNCHANGED <<telemetryVars, left>>

(* What the runs report: events, log lines and costs. *)
PublishEvent ==
    /\ Spend("events")
    /\ \E p \in Live(db.projects), name \in Inputs.names : Publish(db.projects, p, name)
    /\ UNCHANGED adminVars
NotifyStep ==
    /\ Spend("events")
    /\ \E s \in Live(db.steps) : NotificationStep(db.projects, db.runs[db.steps[s].run].project)
    /\ UNCHANGED adminVars
LogLines ==
    /\ Spend("events")
    /\ \E s \in Live(db.steps), lines \in Inputs.lines :
        HandleLogs(db.projects, db.runs[db.steps[s].run].project, s, lines)
    /\ UNCHANGED adminVars

NewCosts(o) == IF Ok(o) THEN [db EXCEPT !.costs = o.t] ELSE db
RecordCost ==
    /\ Spend("reports") /\ Serving
    /\ \E s \in Live(db.steps), reported \in Inputs.reports, a \in Live(db.agents) :
        \E o \in RecordStepCost(db, s, db.runs[db.steps[s].run].project, reported, a) :
            db' = NewCosts(o)
    /\ UNCHANGED <<calls, plan, past, telemetryVars>>
CostCallback ==
    /\ Spend("reports") /\ Serving
    /\ \E s \in Live(db.steps), reported \in Inputs.reports :
        \E r \in HandleCost(db, s, reported[1]) : Put("costs", r)
    /\ UNCHANGED <<calls, plan, past, telemetryVars>>
Aged(K) == [k \in DOMAIN K |-> [K[k] EXCEPT !.age = @ + 5]]
DayPasses ==
    /\ Spend("days")
    /\ db' = [db EXCEPT !.costs = Aged(@)]
    /\ UNCHANGED <<calls, plan, past, telemetryVars>>
StoryDeleted ==
    /\ Spend("days") /\ Serving
    /\ \E i \in Live(db.stories) : Put("stories", DeleteStoryRequest(db.stories, "admin", i))
    /\ UNCHANGED <<calls, plan, past, telemetryVars>>

Reports == RecordCost \/ CostCallback \/ DayPasses \/ StoryDeleted

-----------------------------------------------------------------------------

(* A stream is open to an admin and to the members of its project. *)
OpenStream ==
    /\ Spend("streams")
    /\ \E who \in Callers, c \in Clients, p \in DOMAIN db.projects :
        /\ who.role = "admin" \/ MemberRepoIsUserInProject(db.members, p, who.user)
        /\ Connect(c, p)
    /\ UNCHANGED adminVars
EndStream == /\ \E c \in Clients : StreamEnds(c)
             /\ UNCHANGED <<adminVars, left>>

BusWork == TelemetryWork(db.configs) /\ UNCHANGED <<adminVars, left>>

(* The listener's goroutine may take the server with it. *)
SendToCopy ==
    /\ SendNext
    /\ IF listener' = "off" THEN CallsLost ELSE UNCHANGED adminVars
    /\ UNCHANGED left

Faults ==
    \/ Spend("faults") /\ ConnectionLost /\ UNCHANGED adminVars
    \/ Spend("faults") /\ Crash /\ CallsLost
    \/ Spend("faults") /\ StopAll /\ UNCHANGED adminVars
    \/ CloseBus /\ UNCHANGED <<adminVars, left>>
    \/ Spend("faults") /\ (\E s \in Slots : SeedFails(s)) /\ UNCHANGED telemetryVars
    \/ Exit /\ CallsLost /\ UNCHANGED left
Restart == DispatcherRun(db.projects) /\ Started /\ UNCHANGED left

Next == Requests \/ PublishEvent \/ NotifyStep \/ LogLines \/ Reports \/ OpenStream \/ EndStream \/ BusWork
        \/ SendToCopy \/ Faults \/ Restart

Spec == Init /\ [][Next]_vars

(* The listener, the goroutines and the streams go on while the server is   *)
(* up, and it is started again.                                             *)
Fairness == WF_vars(BusWork) /\ WF_vars(SendToCopy) /\ WF_vars(Restart)
            /\ WF_vars(CloseBus /\ UNCHANGED <<adminVars, left>>)
            /\ WF_vars(Exit /\ CallsLost /\ UNCHANGED left)
FairSpec == Spec /\ Fairness

-----------------------------------------------------------------------------
(* The tables are what the schema allows, a project without a pipeline is    *)
(* one whose seeding is under way, failed or was cut short, and no queue     *)
(* outgrows its size.                                                        *)
Seeded ==
    \A p \in Live(db.projects) :
        \/ HasPipeline(db, p)
        \/ p \in past.unseeded
        \/ \E s \in Slots : In(s, "seed") /\ calls[s].id = p
Bounded ==
    /\ listener \in {"off", "listening", "lost", "stopped"}
    /\ \A k \in DOMAIN channels : Len(channels[k].buf) <= BufferSize
    /\ Len(merged) <= MergedSize
    /\ \A s \in DOMAIN tails : Len(tails[s]) <= TailSize
TypeOK == Fits(db) /\ db.sessions \in Seq(SessionRows) /\ Seeded /\ Bounded

-----------------------------------------------------------------------------
LogoutSticks == \A j \in past.loggedOut : Auth(db.sessions, db.revoked, j) # "ok"
RoleGranted ==
    /\ \A i \in DOMAIN db.users : <<i, db.users[i].role>> \in past.granted
    /\ \A j \in DOMAIN db.sessions : <<db.sessions[j].user, db.sessions[j].role>> \in past.granted
PasswordProven == \A i \in DOMAIN db.users : <<i, db.users[i].password>> \in past.proven
(* Whatever requests overlap: a session that logged out is not accepted      *)
(* again, whatever the cleanup removes; nobody has, and no session claims, a *)
(* role that no administrator gave; a password is one its owner chose, or    *)
(* knew the one before.                                                      *)
AccountsKeep == LogoutSticks /\ RoleGranted /\ PasswordProven

(* What a list shows is what its reader may fetch, whoever asks.             *)
Everything == 100
ListsAgree ==
    \A who \in Callers :
        /\ LET shown == ListProjectsRequest(db.projects, db.members, who, 1, Everything).body.rows
           IN \A p \in DOMAIN db.projects :
                p \in Range(shown) <=>
                    GetProjectRequest(db.projects, db.members, who, p).status = 200
        /\ LET list == ListUsersRequest(db.users, who, 1, Everything)
           IN \A i \in DOMAIN db.users :
                LET one == GetUserRequest(db.users, who, i)
                IN IF list.status = 200 THEN i \in Range(list.body.rows) <=> one.status = 200
                   ELSE one.status = list.status
        /\ LET keys == ListMyAPIKeysRequest(db.keys, who).body
           IN /\ \A k \in keys : db.keys[k].user = who.user
              /\ (\E k \in keys : db.keys[k].provider = "claude")
                    <=> DecryptKeyForUserProvider(db.keys, who.user, "claude") # Nil
        /\ \A p \in Live(db.projects) :
            ListMembersRequest(db.members, db.users, db.projects, who, p).status
                = GetProjectRequest(db.projects, db.members, who, p).status
        /\ MeRequest(db.users, who).status = 200 <=> GetMyProfileRequest(db.users, who).status = 200

(* The pipeline a project shows is the one its runs are launched with, and   *)
(* what is shown of agents, channels, environments and stacks is what the    *)
(* runs find.                                                                *)
Flat(groups) == FlattenSeq([k \in DOMAIN groups |->
    [j \in DOMAIN groups[k].steps |-> <<groups[k].steps[j].name, groups[k].steps[j].action>>]])
Launched(yaml) ==
    LET flat == FlatStepsWithStage(ParsePipelineConfigYAML(yaml))
    IN [k \in DOMAIN flat |-> <<flat[k].step.name, flat[k].step.action>>]
(* No stage waits and no guard is set: the requests cannot say so.          *)
NoPolicy(groups) ==
    \A k \in DOMAIN FlatStepsWithStage(groups) :
        LET step == FlatStepsWithStage(groups)[k]
        IN TransitionForStage(groups, step.stage) = "auto" /\ GuardsForStep(groups, step.step.id) = <<>>
SettingsAgree ==
    /\ \A i \in Live(db.pipelines) :
        LET shown == GetPipelineConfigRequest(db.pipelines, db.pipelines[i].project)
        IN /\ shown.status = 200 /\ Flat(shown.body) = Launched(db.pipelines[i].yaml)
           /\ NoPolicy(ParsePipelineConfigYAML(db.pipelines[i].yaml))
    /\ \A i \in Live(db.agents) :
        /\ GetAgentRequest(db.agents, i).status = 200
        /\ \E p \in DOMAIN db.projects : i \in ListProjectAgentsRequest(db.agents, p).body
        /\ \A secret \in BundleRequest(db.agents, db.caps, db.attached, db.creds,
                                       [agent |-> i, role |-> "dev"], FALSE).body.secrets :
              secret[2] \in {0, db.agents[i].project}
    /\ \A i \in ListGlobalAgentsRequest(db.agents).body :
        \A p \in DOMAIN db.projects : i \in ListProjectAgentsRequest(db.agents, p).body
    /\ \A p \in DOMAIN db.projects :
        /\ LET o == GetProjectEnvironmentRequest(db.environments, p)
           IN o.status = 200 => o.body.project = p
        /\ Range(ConfigRepoListEnabled(db.configs, p))
                = {i \in Range(ListConfigsRequest(db.configs, p).body) : db.configs[i].enabled = "on"}
    /\ \A i \in Live(db.configs) : TestConfigRequest(db.configs, i, "2xx").status = 204
    /\ Live(db.stacks) = ListStacksRequest(db.stacks).body

(* A reset that was answered with success has changed the password. *)
ResetTakesEffect == past.reset \subseteq past.held

-----------------------------------------------------------------------------
(* An event reaches everyone who is to know: it is on its way to the stream  *)
(* or shown there, or the stream misses it for a cause: a full channel, the  *)
(* gap between its replay and its subscription, an outage of the listener,   *)
(* a created_at that is not after the anchor's, a replay that failed.  The   *)
(* dispatcher misses one for the first or the third, and handles none twice. *)
OnItsWay(k, e) ==
    \/ e \in Range(channels[k].buf) \/ e \in Range(queue) \/ channels[k].held = e
    \/ sending.event = e /\ k \in sending.to
Excused(o, e, causes) == \E cause \in causes : <<o, e, cause>> \in lost
Handled == {dispatched[i].event : i \in DOMAIN dispatched}
StreamTold(c) ==
    \A e \in Unseen(c) :
        /\ streams[c].state = "open" =>
            \/ OnItsWay(streams[c].channel, e)
            \/ Excused(c, e, {"full", "gap", "outage", "older", "replay failed"})
        /\ streams[c].state = "joining" =>
            \/ e \in Range(queue)
            \/ Excused(c, e, {"gap", "outage", "older", "replay failed"})
DispatcherTold ==
    \A k \in OpenChannels : channels[k].owner = Dispatcher =>
        \A e \in channels[k].from..Len(events) : events[e].project = channels[k].project =>
            \/ OnItsWay(k, e) \/ e \in Range(merged) \/ e \in Handled
            \/ Excused(Dispatcher, e, {"full", "outage"})
EventsAccounted == /\ \A c \in Clients : StreamTold(c)
                   /\ DispatcherTold
                   /\ Cardinality(Handled) = Len(dispatched)

(* The event bus comes back from a connection that was lost. *)
ListenerRecovers == listener = "lost" ~> listener # "lost"

-----------------------------------------------------------------------------
(* The reports of one moment agree: every total is the sum of its breakdown, *)
(* except for the runs whose story was deleted, which the breakdowns by      *)
(* story and by run leave out; the pages of the runs show each of them once, *)
(* and at most as many as they announce.                                     *)
Total(rows) == UsdOf(rows)
Usd(ids) == MapThenSumSet(LAMBDA i : db.costs[i].usd, ids)
Orphaned(p, days) ==
    {i \in Live(db.costs) : /\ db.costs[i].project = p /\ db.costs[i].age <= days
                            /\ db.runs[db.steps[db.costs[i].step].run].story \notin Live(db.stories)}
PerPage == 1
RunPages(p, period) ==
    FlattenSeq([k \in 1..Len(db.runs) + 1 |->
        ProjectCostRunsRequest(db, p, period, k, PerPage).body.data])
CostsAgree ==
    \A p \in Live(db.projects) :
        /\ \A period \in Periods :
            LET full == ProjectCostsRequest(db, p, period).body
                summary == ProjectCostSummaryRequest(db, p, period).body
                runs == RunPages(p, period)
                lostUsd == Usd(Orphaned(p, ParsePeriod(period)))
            IN /\ full.total.usd = Total(full.byModel)
               /\ full.total.usd = Total(ProjectCostChartRequest(db, p, period).body)
               /\ full.total.usd = Total(full.byStory) + lostUsd
               /\ Total(full.byRun) = Total(full.byStory)
               /\ summary.total = full.total.usd
               /\ summary.week <= summary.month
               /\ {runs[k].run : k \in DOMAIN runs} = DOMAIN full.byRun
               /\ Len(runs) = Cardinality(DOMAIN full.byRun)
               /\ ProjectCostRunsRequest(db, p, period, 1, PerPage).body.total >= Len(runs)
        /\ LET roles == ProjectCostsByRoleRequest(db, p).body
               agents == ProjectCostsByAgentRequest(db, p).body
               mine == {r \in Live(db.runs) : db.runs[r].project = p}
           IN /\ roles.total = Total(roles.roles)
              /\ roles.total = MapThenSumSet(LAMBDA r : RunCostsRequest(db, p, r).body.total, mine)
              /\ roles.total = Total(agents) + Usd({i \in Live(db.costs) :
                                    db.costs[i].project = p /\ db.costs[i].agent = 0})
              /\ \A r \in mine :
                    LET run == RunCostsRequest(db, p, r).body
                    IN /\ run.total = Usd(Range(run.steps))
                       /\ run.total = Total(RunCostsByRoleRequest(db, p, r).body.roles)
        /\ \A s \in {i \in Live(db.stories) : db.stories[i].project = p} :
            StoryCostsRequest(db, p, s).body.usd
                = MapThenSumSet(LAMBDA r : SumCostByRun(db, r),
                                {r \in Live(db.runs) : db.runs[r].story = s})

(* Readers are told one story: the lists and the single reads, the settings  *)
(* and what runs make of them, and the cost reports of one moment agree.     *)
ViewsAgree == ListsAgree /\ SettingsAgree /\ CostsAgree
=============================================================================
