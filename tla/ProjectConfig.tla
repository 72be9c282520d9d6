--------------------------- MODULE ProjectConfig ---------------------------
(***************************************************************************)
(* Projects and their pipelines, from the statement to the handler.        *)
(*                                                                         *)
(* A project keeps its name, its owner, its git provider and `text', which *)
(* stands for the nullable columns.  A pipeline is the YAML of one         *)
(* project: its groups, or only the flat list of steps of the first        *)
(* versions.  A step is its id, name, action, guards and `rest', a guard   *)
(* its kind and on_fail.                                                   *)
(***************************************************************************)
EXTENDS AccountApi

CONSTANTS UUIDs     \* the step ids that are UUIDs; any other parses to uuid.Nil

NameClash(a, b) == a.name = b.name
ProjectClash(a, b) == a.project = b.project

-----------------------------------------------------------------------------
(* Statements and repositories.                                            *)

CreateProject(P, p) ==
    Insert(P, [live |-> TRUE, name |-> p.name, owner |-> p.owner,
               provider |-> p.provider, text |-> p.text], NameClash)
GetProject(P, i) == IF i \in Live(P) THEN Outcome(P, i, "none") ELSE Refused(P, "no_rows")
ListProjects(P, limit, offset) == ListWhere(P, LAMBDA r : TRUE, limit, offset)
CountProjects(P) == CountWhere(P, LAMBDA r : TRUE)
UpdateProject(P, i, p) ==
    IF i \notin Live(P) THEN Refused(P, "no_rows")
    ELSE Change(P, i, [P[i] EXCEPT !.name = p.name, !.owner = IF p.owner = 0 THEN @ ELSE p.owner,
                                   !.provider = p.provider, !.text = Coalesce(p.text, @)],
                NameClash)
(* The cascade reaches the events of the project, and those are append-only: *)
(* the trigger raises and the statement fails.                               *)
DeleteProject(P, i, hasEvents) ==
    IF i \in Live(P) /\ hasEvents THEN Refused(P, "raised") ELSE Erase(P, i)

ProjectRepoCreate(P, p) == Repo(CreateProject(P, p))
ProjectRepoGetByID(P, i) == Repo(GetProject(P, i))
ProjectRepoList(P, limit, offset) == ListProjects(P, limit, offset)
ProjectRepoCount(P) == CountProjects(P)
ProjectRepoUpdate(P, i, p) == Repo(UpdateProject(P, i, p))
ProjectRepoDelete(P, i, hasEvents) == RepoExec(DeleteProject(P, i, hasEvents))

GetPipelineConfig(C, p) == One(C, LAMBDA r : r.project = p)
(* ON CONFLICT (project_id) DO UPDATE: the version counts the writes.       *)
UpsertPipelineConfig(C, P, p, yaml) ==
    LET old == RowsWhere(C, LAMBDA r : r.project = p)
    IN IF p \notin Live(P) THEN Refused(C, "foreign_key")
       ELSE IF old = {} THEN Insert(C, [live |-> TRUE, project |-> p, yaml |-> yaml, version |-> 1],
                                    ProjectClash)
       ELSE LET i == CHOOSE k \in old : TRUE
            IN Change(C, i, [C[i] EXCEPT !.yaml = yaml, !.version = @ + 1], ProjectClash)

PipelineRepoGetByProjectID(C, p) == Repo(GetPipelineConfig(C, p))
PipelineRepoUpsert(C, P, p, yaml) == RepoExec(UpsertPipelineConfig(C, P, p, yaml))

-----------------------------------------------------------------------------
(* The YAML.                                                               *)

ValidActionTypes ==
    {"agent_run", "git_branch", "git_pr", "notification", "human", "ci_poll", "hitl_gate",
     "implement", "review", "merge", "test", "custom"}

NormalizeGuards(guards) ==
    [k \in DOMAIN guards |-> [guards[k] EXCEPT !.onFail = IF @ = Nil THEN "halt-gate" ELSE @]]

(* Steps without groups become the group "Default"; an unset transition is   *)
(* "auto", an unset on_fail "halt-gate".                                     *)
DefaultGroup(steps) ==
    [id |-> "default", name |-> "Default", transition |-> Nil, guards |-> <<>>, steps |-> steps]
NormalizeStep(s) == [s EXCEPT !.guards = NormalizeGuards(@)]
NormalizeGroup(g) ==
    [g EXCEPT !.transition = IF @ = Nil THEN "auto" ELSE @,
              !.guards = NormalizeGuards(@),
              !.steps = [k \in DOMAIN @ |-> NormalizeStep(@[k])]]
ParsePipelineConfigYAML(yaml) ==
    LET raw == CASE yaml.groups # <<>> -> yaml.groups
                 [] yaml.groups = <<>> /\ yaml.steps # <<>> -> <<DefaultGroup(yaml.steps)>>
                 [] OTHER -> <<>>
    IN [k \in DOMAIN raw |-> NormalizeGroup(raw[k])]

(* The first group with the id, the first step with the id. *)
TransitionForStage(groups, stage) ==
    LET k == SelectInSeq(groups, LAMBDA g : g.id = stage)
    IN IF k = 0 THEN "auto" ELSE groups[k].transition
HasStep(g, step) == \E j \in DOMAIN g.steps : g.steps[j].id = step
GuardsForStep(groups, step) ==
    LET k == SelectInSeq(groups, LAMBDA g : HasStep(g, step))
    IN IF k = 0 THEN <<>>
       ELSE groups[k].steps[SelectInSeq(groups[k].steps, LAMBDA s : s.id = step)].guards
            \o groups[k].guards
(* All the steps in order, each with the group it came from. *)
FlatStepsWithStage(groups) ==
    FlattenSeq([k \in DOMAIN groups |->
        [j \in DOMAIN groups[k].steps |-> [step |-> groups[k].steps[j], stage |-> groups[k].id]]])

ValidatePipelineConfigYAML(yaml) ==
    LET groups == ParsePipelineConfigYAML(yaml)
    IN /\ groups # <<>>
       /\ \A k \in DOMAIN groups :
            /\ groups[k].name # Nil /\ groups[k].steps # <<>>
            /\ \A j \in DOMAIN groups[k].steps :
                /\ groups[k].steps[j].name # Nil
                /\ groups[k].steps[j].action \in ValidActionTypes

(* The API's groups to YAML, field by field.  The request may carry a        *)
(* transition and guards; the YAML types here have no place for them.        *)
StepToYAML(s) == [id |-> s.id, name |-> s.name, action |-> s.action, guards |-> <<>>, rest |-> s.rest]
GroupsToYAML(groups) ==
    [groups |-> [k \in DOMAIN groups |->
        [id |-> groups[k].id, name |-> groups[k].name, transition |-> Nil, guards |-> <<>>,
         steps |-> [j \in DOMAIN groups[k].steps |-> StepToYAML(groups[k].steps[j])]]],
     steps |-> <<>>]
(* And back: a flat list of steps reads as no groups.                        *)
ToAPIPipelineConfig(yaml) ==
    [k \in DOMAIN yaml.groups |->
        [id |-> yaml.groups[k].id, name |-> yaml.groups[k].name, transition |-> Nil, guards |-> <<>>,
         steps |-> [j \in DOMAIN yaml.groups[k].steps |->
             LET s == yaml.groups[k].steps[j]
             IN [StepToYAML(s) EXCEPT !.id = IF @ \in UUIDs THEN @ ELSE "uuid.Nil"]]]]

-----------------------------------------------------------------------------
(* Services.                                                               *)

(* The first and the last of its five groups. *)
DefaultPipeline ==
    [groups |-> <<[id |-> "setup", name |-> "Setup", transition |-> Nil, guards |-> <<>>,
                   steps |-> <<[id |-> "git-branch", name |-> "Create Branch",
                                action |-> "git_branch", guards |-> <<>>, rest |-> "default"]>>],
                  [id |-> "delivery", name |-> "Delivery", transition |-> Nil, guards |-> <<>>,
                   steps |-> <<[id |-> "ci-poll", name |-> "Wait for CI", action |-> "ci_poll",
                                guards |-> <<>>, rest |-> "default"]>>]>>,
     steps |-> <<>>]

(* Mutant of PipelineServiceUpsert: the YAML is stored as it comes. *)
PipelineUpsertUnchecked(C, P, p, yaml) == PipelineRepoUpsert(C, P, p, yaml)

PipelineServiceUpsert(C, P, p, yaml) ==
    IF ValidatePipelineConfigYAML(yaml) THEN PipelineRepoUpsert(C, P, p, yaml) ELSE Invalid(C)
SeedDefault(C, P, p) == PipelineRepoUpsert(C, P, p, DefaultPipeline)

ProjectServiceCreate(P, p) ==
    IF p.name \in {Nil, "long"} \/ p.text = "long" THEN Invalid(P)
    ELSE ProjectRepoCreate(P, [p EXCEPT !.provider = IF @ = Nil THEN "github" ELSE @])
ProjectServiceList(P, page, perPage) ==
    LET limit == Limit(perPage, MaxPerPage)
    IN [rows |-> ProjectRepoList(P, limit, Offset(page, limit)), total |-> ProjectRepoCount(P)]
(* A project as it was read, with the fields of the request.  The handler    *)
(* sets a nullable field only when the request has it, so none is cleared.   *)
PatchedProject(row, patch) ==
    [row EXCEPT !.name = Coalesce(patch.name, @), !.provider = Coalesce(patch.provider, @),
                !.text = Coalesce(patch.text, @)]
ProjectServiceSave(P, i, row, patch) ==
    IF BadName(patch.name) \/ patch.text = "long" THEN Invalid(P)
    ELSE ProjectRepoUpdate(P, i, PatchedProject(row, patch))
ProjectServiceDelete(P, i, hasEvents) ==
    IF Ok(ProjectRepoGetByID(P, i)) THEN ProjectRepoDelete(P, i, hasEvents)
    ELSE ProjectRepoGetByID(P, i)

-----------------------------------------------------------------------------
(* Handlers.                                                               *)

CheckProjectAccess(M, who, p) ==
    IF who.role = "admin" \/ MemberRepoIsUserInProject(M, p, who.user) THEN "ok" ELSE "forbidden"

(* The caller becomes the owner, not a member.  The default pipeline is     *)
(* seeded by a second statement (SeedDefault).                              *)
CreateProjectRequest(P, who, p) ==
    Handle(P, who.role, ProjectServiceCreate(P, [p EXCEPT !.owner = who.user]), 201)
GetProjectRequest(P, M, who, p) ==
    LET access == CheckProjectAccess(M, who, p)
    IN IF access = "ok" THEN Fetched(P, ProjectRepoGetByID(P, p))
       ELSE [status |-> StatusOf(access), body |-> Nil]
(* An admin sees every project, anyone else the ones they are a member of.  *)
ListProjectsRequest(P, M, who, page, perPage) ==
    LET p == DefaultPage(page)
        n == DefaultPerPage(perPage)
    IN Listed(IF who.role = "admin" THEN ProjectServiceList(P, p, n)
              ELSE ListProjectsForUser(M, P, who.user, p, n), page, perPage)
UpdateProjectRequest(P, who, i, row, patch) ==
    Handle(P, who.role, ProjectServiceSave(P, i, row, patch), 200)
DeleteProjectRequest(P, who, i, hasEvents) ==
    Handle(P, who.role, ProjectServiceDelete(P, i, hasEvents), 204)

GetPipelineConfigRequest(C, p) ==
    LET o == PipelineRepoGetByProjectID(C, p)
    IN IF Ok(o) THEN Read(ToAPIPipelineConfig(C[o.id].yaml))
       ELSE [status |-> StatusOf(o.err), body |-> Nil]
UpdatePipelineConfigRequest(C, P, who, p, groups) ==
    Handle(C, who.role, PipelineServiceUpsert(C, P, p, GroupsToYAML(groups)), 200)
=============================================================================
