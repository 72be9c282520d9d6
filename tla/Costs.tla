------------------------------- MODULE Costs -------------------------------
(***************************************************************************)
(* What the agents cost: the records, the reports that sum them up and the *)
(* requests that read those.                                               *)
(*                                                                         *)
(* The reports join the tables of D: costs, steps, runs, stories, agents   *)
(* and projects.  A record has the usd and tokens of one report of a step, *)
(* and its age in days; a report is a function from what it groups by to   *)
(* sums, and its order is left out where no page is cut.                   *)
(***************************************************************************)
EXTENDS AgentConfig

CONSTANTS Price,        \* model of the price table -> [input, output] per token
          PrefixesOf    \* reported model -> the priced names it begins with

-----------------------------------------------------------------------------
(* What a step cost.                                                       *)

(* An exact match, or else the first prefix the map's iteration comes to.  *)
ModelPricing(m) == IF m \in DOMAIN Price THEN {m} ELSE PrefixesOf[m]
ComputeCostUSD(m, input, output) ==
    IF ModelPricing(m) = {} THEN {0}
    ELSE {input * Price[k].input + output * Price[k].output : k \in ModelPricing(m)}

SumSeq(s, Field(_)) == FoldLeft(LAMBDA a, e : a + Field(e), 0, s)

(* The last model named, and the reported costs as soon as one is positive. *)
LastModel(events) ==
    FoldLeft(LAMBDA m, e : Coalesce(e.model, m), events[1].model, events)
StepRecords(events) ==
    LET input == SumSeq(events, LAMBDA e : e.input)
        output == SumSeq(events, LAMBDA e : e.output)
        reported == SumSeq(events, LAMBDA e : e.usd)
    IN {[usd |-> usd, input |-> input, output |-> output, model |-> LastModel(events)] :
            usd \in IF \E k \in DOMAIN events : events[k].usd > 0 THEN {reported}
                    ELSE ComputeCostUSD(LastModel(events), input, output)}

InsertCostRecord(D, step, p, agent, c) ==
    IF step \notin Live(D.steps) \/ p \notin Live(D.projects) THEN Refused(D.costs, "foreign_key")
    ELSE Insert(D.costs, [live |-> TRUE, step |-> step, project |-> p, agent |-> agent, age |-> 0,
                          usd |-> c.usd, input |-> c.input, output |-> c.output,
                          model |-> c.model], NoClash)
CostRepoInsert(D, step, p, agent, c) == Repo(InsertCostRecord(D, step, p, agent, c))

(* No event, no record. *)
RecordStepCost(D, step, p, events, agent) ==
    IF events = <<>> THEN {Outcome(D.costs, 0, "ok")}
    ELSE {CostRepoInsert(D, step, p, agent, c) : c \in StepRecords(events)}

(* The callback of a container: one event and no agent; a failed insert is  *)
(* not told.                                                               *)
HandleCost(D, step, event) ==
    IF step \notin Live(D.steps) THEN {[t |-> D.costs, status |-> 404]}
    ELSE {[t |-> IF Ok(o) THEN o.t ELSE D.costs, status |-> 200] :
            o \in RecordStepCost(D, step, D.runs[D.steps[step].run].project, <<event>>, 0)}

-----------------------------------------------------------------------------
(* The reports.                                                            *)

Sums(D, ids) ==
    [usd |-> MapThenSumSet(LAMBDA i : D.costs[i].usd, ids),
     input |-> MapThenSumSet(LAMBDA i : D.costs[i].input, ids),
     output |-> MapThenSumSet(LAMBDA i : D.costs[i].output, ids)]

RunOf(D, i) == D.steps[D.costs[i].step].run
StoryOf(D, i) == D.runs[RunOf(D, i)].story
RunsCount(D, ids) == Cardinality({RunOf(D, i) : i \in ids})

(* GROUP BY *)
Grouped(D, ids, Key(_)) ==
    [g \in {Key(i) : i \in ids} |->
        LET mine == {i \in ids : Key(i) = g} IN Sums(D, mine) @@ [runs |-> RunsCount(D, mine)]]

Recent(D, p, days) ==
    {i \in Live(D.costs) : D.costs[i].project = p /\ D.costs[i].age <= days}
(* JOIN stories: the rows of a run whose story was deleted drop out.        *)
WithStory(D, ids) == {i \in ids : StoryOf(D, i) \in Live(D.stories)}
OfRun(D, r) == {i \in Live(D.costs) : RunOf(D, i) = r}
OfProject(D, p) == {i \in Live(D.costs) : D.runs[RunOf(D, i)].project = p}

(* LEFT JOIN agents, COALESCE(a.type, 'unknown'). *)
RoleOf(D, i) ==
    LET a == D.costs[i].agent IN IF a \in Live(D.agents) THEN D.agents[a].type ELSE "unknown"

SumCostByProject(D, p, days) == Sums(D, Recent(D, p, days))
ListCostsByProjectByStory(D, p, days) ==
    Grouped(D, WithStory(D, Recent(D, p, days)), LAMBDA i : StoryOf(D, i))
ListCostsByProjectByRun(D, p, days) ==
    Grouped(D, WithStory(D, Recent(D, p, days)), LAMBDA i : RunOf(D, i))
ListCostsByProjectByModel(D, p, days) ==
    Grouped(D, Recent(D, p, days), LAMBDA i : D.costs[i].model)
ListCostsByProjectByRunPaginated(D, p, days, limit, offset) ==
    LET rows == ListCostsByProjectByRun(D, p, days)
        page == Page(NewestFirst(DOMAIN rows), limit, offset)
    IN [k \in DOMAIN page |-> [run |-> page[k], sums |-> rows[page[k]]]]
(* The count does not join the stories. *)
CountCostsByProjectByRun(D, p, days) == RunsCount(D, Recent(D, p, days))
ListDailyCostsByProject(D, p, days) ==
    Grouped(D, Recent(D, p, days), LAMBDA i : D.costs[i].age)
ListCostsByProjectByAgent(D, p) ==
    Grouped(D, {i \in OfProject(D, p) : D.costs[i].agent # 0}, LAMBDA i : D.costs[i].agent)

(* Mutant of ListCostsByProjectByRole: JOIN agents. *)
ListCostsByKnownRole(D, p) ==
    Grouped(D, {i \in OfProject(D, p) : D.costs[i].agent # 0}, LAMBDA i : RoleOf(D, i))

ListCostsByProjectByRole(D, p) == Grouped(D, OfProject(D, p), LAMBDA i : RoleOf(D, i))
SumCostByStory(D, s) ==
    LET ids == {i \in Live(D.costs) : StoryOf(D, i) = s}
    IN Sums(D, ids) @@ [runs |-> RunsCount(D, ids)]
SumCostByRun(D, r) == Sums(D, OfRun(D, r)).usd
SumTokensByRun(D, r) == [Sums(D, OfRun(D, r)) EXCEPT !.usd = 0]
ListCostsByRunByRole(D, r) == Grouped(D, OfRun(D, r), LAMBDA i : RoleOf(D, i))
(* One row a record, in the order of the steps; two records of one step in   *)
(* either order.                                                            *)
ListStepCostsByRun(D, r) ==
    SetToSortSeq(OfRun(D, r), LAMBDA i, j :
        LET a == D.steps[D.costs[i].step].order
            b == D.steps[D.costs[j].step].order
        IN a < b \/ (a = b /\ i < j))

-----------------------------------------------------------------------------
(* The repository.  A sum of BIGINTs is a NUMERIC: where the statement does  *)
(* not cast it back it arrives as a pgtype.Numeric, which toInt64 turns      *)
(* into 0.                                                                  *)

ToInt64(numeric) == 0
TokensLost(sums) == [sums EXCEPT !.input = ToInt64(@), !.output = ToInt64(@)]

CostRepoSumByProject(D, p, days) == SumCostByProject(D, p, days)
CostRepoByStory(D, p, days) == ListCostsByProjectByStory(D, p, days)
CostRepoByRun(D, p, days) == ListCostsByProjectByRun(D, p, days)
CostRepoByModel(D, p, days) ==
    LET rows == ListCostsByProjectByModel(D, p, days)
    IN [m \in DOMAIN rows |-> TokensLost(rows[m])]
CostRepoPaginated(D, p, days, limit, offset) ==
    ListCostsByProjectByRunPaginated(D, p, days, limit, offset)
CostRepoCountRuns(D, p, days) == CountCostsByProjectByRun(D, p, days)
CostRepoDaily(D, p, days) == ListDailyCostsByProject(D, p, days)
CostRepoByAgent(D, p) == ListCostsByProjectByAgent(D, p)
CostRepoByRole(D, p) == ListCostsByProjectByRole(D, p)
CostRepoSumByStory(D, s) == TokensLost(SumCostByStory(D, s))
CostRepoSumByRun(D, r) == SumCostByRun(D, r)
CostRepoTokensByRun(D, r) == SumTokensByRun(D, r)
CostRepoRunByRole(D, r) == ListCostsByRunByRole(D, r)
CostRepoSteps(D, r) == ListStepCostsByRun(D, r)

-----------------------------------------------------------------------------
(* CostService.  A report is several statements, here read at one moment.   *)

Periods == {"7d", "30d", "90d"}
ParsePeriod(period) == CASE period = "7d" -> 7 [] period = "30d" -> 30 [] OTHER -> 90

Report(err, body) == [err |-> err, body |-> IF err = "ok" THEN body ELSE Nil]
(* The project first, then the period; an absent period is a week. *)
Reported(D, p, period, Body(_)) ==
    LET full == IF period = Nil THEN "7d" ELSE period
        err == CASE p \notin Live(D.projects) -> "not_found"
                 [] p \in Live(D.projects) /\ full \notin Periods -> "validation"
                 [] OTHER -> "ok"
    IN Report(err, IF err = "ok" THEN Body(ParsePeriod(full)) ELSE Nil)

UsdOf(rows) == MapThenSumSet(LAMBDA g : rows[g].usd, DOMAIN rows)

GetProjectCosts(D, p, period) ==
    Reported(D, p, period, LAMBDA days :
        [total |-> CostRepoSumByProject(D, p, days), byStory |-> CostRepoByStory(D, p, days),
         byRun |-> CostRepoByRun(D, p, days), byModel |-> CostRepoByModel(D, p, days)])
GetProjectCostSummary(D, p, period) ==
    Reported(D, p, period, LAMBDA days :
        LET byStory == CostRepoByStory(D, p, days)
        IN [total |-> CostRepoSumByProject(D, p, days).usd,
            week |-> CostRepoSumByProject(D, p, 7).usd,
            month |-> CostRepoSumByProject(D, p, 30).usd,
            average |-> IF DOMAIN byStory = {} THEN 0
                        ELSE UsdOf(byStory) \div Cardinality(DOMAIN byStory)])
GetProjectCostChart(D, p, period) ==
    Reported(D, p, period, LAMBDA days : CostRepoDaily(D, p, days))
GetProjectCostRuns(D, p, period, page, perPage) ==
    Reported(D, p, period, LAMBDA days :
        LET limit == Limit(DefaultPerPage(perPage), MaxPerPage)
        IN [data |-> CostRepoPaginated(D, p, days, limit, Offset(page, limit)),
            total |-> CostRepoCountRuns(D, p, days)])
GetProjectCostsByAgent(D, p) == Reported(D, p, Nil, LAMBDA days : CostRepoByAgent(D, p))
GetProjectCostsByRole(D, p) ==
    Reported(D, p, Nil, LAMBDA days :
        LET roles == CostRepoByRole(D, p) IN [roles |-> roles, total |-> UsdOf(roles)])

(* A story or a run of another project is not found. *)
GetStoryCosts(D, p, s) ==
    Report(IF s \in Live(D.stories) /\ D.stories[s].project = p THEN "ok" ELSE "not_found",
           CostRepoSumByStory(D, s))
Mine(D, p, r) == IF r \in Live(D.runs) /\ D.runs[r].project = p THEN "ok" ELSE "not_found"
GetRunCosts(D, p, r) ==
    Report(Mine(D, p, r), [total |-> CostRepoSumByRun(D, r), steps |-> CostRepoSteps(D, r)])
GetRunCostsByRole(D, p, r) ==
    Report(Mine(D, p, r), [total |-> CostRepoSumByRun(D, r), tokens |-> CostRepoTokensByRun(D, r),
                           roles |-> CostRepoRunByRole(D, r)])

-----------------------------------------------------------------------------
(* The handlers: the report or the error's status.  A page is told with the *)
(* size that was asked for, not the one that was used.                      *)

Answered(report) ==
    [status |-> IF report.err = "ok" THEN 200 ELSE StatusOf(report.err), body |-> report.body]

ProjectCostsRequest(D, p, period) == Answered(GetProjectCosts(D, p, Coalesce(period, "7d")))
ProjectCostSummaryRequest(D, p, period) ==
    Answered(GetProjectCostSummary(D, p, Coalesce(period, "7d")))
ProjectCostChartRequest(D, p, period) ==
    Answered(GetProjectCostChart(D, p, Coalesce(period, "7d")))
ProjectCostRunsRequest(D, p, period, page, perPage) ==
    Answered(GetProjectCostRuns(D, p, Coalesce(period, "7d"), DefaultPage(page),
                                DefaultPerPage(perPage)))
        @@ [page |-> DefaultPage(page), perPage |-> DefaultPerPage(perPage)]
ProjectCostsByAgentRequest(D, p) == Answered(GetProjectCostsByAgent(D, p))
ProjectCostsByRoleRequest(D, p) == Answered(GetProjectCostsByRole(D, p))
StoryCostsRequest(D, p, s) == Answered(GetStoryCosts(D, p, s))
RunCostsRequest(D, p, r) == Answered(GetRunCosts(D, p, r))
RunCostsByRoleRequest(D, p, r) == Answered(GetRunCostsByRole(D, p, r))
=============================================================================
