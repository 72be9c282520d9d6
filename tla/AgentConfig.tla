---------------------------- MODULE AgentConfig ----------------------------
(***************************************************************************)
(* Agents and what they run with: stacks, the environment of a project,    *)
(* and the bundle a container fetches, composed from the capabilities      *)
(* attached to the agent and the credentials they refer to.                *)
(*                                                                         *)
(* Nothing in the server writes capabilities, attachments or credentials:  *)
(* they are data here.  A capability is [kind, name, roles, cred, files];  *)
(* the agent's attachments are a set of <<agent, capability>>.             *)
(***************************************************************************)
EXTENDS ProjectConfig

AgentClash(a, b) == a.project # 0 /\ a.project = b.project /\ a.name = b.name
StackClash(a, b) == a.key = b.key
Providers == {"claude", "opencode"}
RuntimeKindFromProvider(provider) ==
    IF provider = "opencode" THEN "opencode" ELSE "claude_code"

-----------------------------------------------------------------------------
(* Agents.                                                                 *)

CreateAgent(A, P, S, a) ==
    IF a.project \notin Live(P) \cup {0} \/ a.stack \notin Live(S) \cup {0}
    THEN Refused(A, "foreign_key")
    ELSE Insert(A, [live |-> TRUE, name |-> a.name, scope |-> a.scope, project |-> a.project,
                    stack |-> a.stack, provider |-> a.provider, kind |-> a.kind,
                    template |-> a.template, type |-> a.type], AgentClash)
GetAgent(A, i) == IF i \in Live(A) THEN Outcome(A, i, "none") ELSE Refused(A, "no_rows")
ListGlobalAgents(A) == RowsWhere(A, LAMBDA r : r.scope = "global")
ListAgentsByProjectMerged(A, p) ==
    RowsWhere(A, LAMBDA r : r.project = p \/ r.scope = "global")
(* Scope, project and type stay. *)
UpdateAgent(A, S, i, a) ==
    CASE i \notin Live(A) -> Refused(A, "no_rows")
      [] i \in Live(A) /\ a.stack \notin Live(S) \cup {0} -> Refused(A, "foreign_key")
      [] OTHER -> Change(A, i, [A[i] EXCEPT !.name = a.name, !.stack = a.stack, !.kind = a.kind,
                                            !.template = a.template, !.provider = a.provider],
                         AgentClash)
DeleteAgent(A, i) == Erase(A, i)

(* An agent made through the API has no type of its own: it is "custom".    *)
(* The runtime kind follows the provider only while it is unset; a foreign  *)
(* key that fails is an internal error.                                     *)
WithKind(a) ==
    [a EXCEPT !.provider = IF @ = Nil THEN "claude" ELSE @,
              !.type = IF @ = Nil THEN "custom" ELSE @,
              !.kind = IF @ = Nil THEN RuntimeKindFromProvider(a.provider) ELSE @]
AgentErr(o) == IF o.err = "foreign_key" THEN Refused(o.t, "internal") ELSE Repo(o)
AgentRepoCreate(A, P, S, a) == AgentErr(CreateAgent(A, P, S, WithKind(a)))
AgentRepoGet(A, i) == Repo(GetAgent(A, i))
AgentRepoListGlobal(A) == ListGlobalAgents(A)
AgentRepoListMerged(A, p) == ListAgentsByProjectMerged(A, p)
AgentRepoUpdate(A, S, i, a) == AgentErr(UpdateAgent(A, S, i, WithKind(a)))
AgentRepoDelete(A, i) == RepoExec(DeleteAgent(A, i))

AgentServiceCreate(A, P, S, a) ==
    IF \/ a.name \in {Nil, "long"} \/ a.template = Nil
       \/ a.scope \notin {"global", "project"}
       \/ a.scope = "project" /\ a.project = 0
       \/ a.provider \notin Providers \cup {Nil}
    THEN Invalid(A)
    ELSE AgentRepoCreate(A, P, S, [a EXCEPT !.kind = Nil,
                                            !.provider = IF @ = Nil THEN "claude" ELSE @])
PatchedAgent(row, patch) ==
    [row EXCEPT !.name = Coalesce(patch.name, @), !.template = Coalesce(patch.template, @),
                !.provider = Coalesce(patch.provider, @),
                !.stack = IF patch.stack = 0 THEN @ ELSE patch.stack]
AgentServiceSave(A, S, i, row, patch) ==
    IF BadName(patch.name) \/ patch.template = "empty" \/ patch.provider \notin Providers \cup {Nil}
    THEN Invalid(A)
    ELSE AgentRepoUpdate(A, S, i, PatchedAgent(row, patch))
AgentServiceDelete(A, i) ==
    IF Ok(AgentRepoGet(A, i)) THEN AgentRepoDelete(A, i) ELSE AgentRepoGet(A, i)

(* The project of the path goes with every agent, a global one too. *)
CreateAgentRequest(A, P, S, who, p, a) ==
    Handle(A, who.role,
           AgentServiceCreate(A, P, S, [a EXCEPT !.project = p,
                                                 !.scope = IF @ = Nil THEN "project" ELSE @]), 201)
GetAgentRequest(A, i) == Fetched(A, AgentRepoGet(A, i))
(* No page is cut: page and per_page are only repeated. *)
ListGlobalAgentsRequest(A) == Read(AgentRepoListGlobal(A))
ListProjectAgentsRequest(A, p) == Read(AgentRepoListMerged(A, p))
UpdateAgentRequest(A, S, who, i, row, patch) ==
    Handle(A, who.role, AgentServiceSave(A, S, i, row, patch), 200)
DeleteAgentRequest(A, who, i) == Handle(A, who.role, AgentServiceDelete(A, i), 204)

-----------------------------------------------------------------------------
(* Stacks: the catalogue of the configuration, applied at every start.     *)

ListStacks(S) == Live(S)
(* CHECK (key IN ...) *)
StackKeys == {"go", "node", "python", "go-node"}
UpsertStack(S, s) ==
    LET old == RowsWhere(S, LAMBDA r : r.key = s.key)
    IN IF s.key \notin StackKeys THEN Refused(S, "check")
       ELSE IF old = {} THEN Insert(S, [live |-> TRUE, key |-> s.key, image |-> s.image], StackClash)
       ELSE LET i == CHOOSE k \in old : TRUE
            IN Change(S, i, [S[i] EXCEPT !.image = s.image], StackClash)
StackRepoUpsert(S, s) == RepoExec(UpsertStack(S, s))
StackCatalogueFromConfig(entries) ==
    {k \in DOMAIN entries : entries[k].key # Nil /\ entries[k].image # Nil}
(* One upsert after the other, up to one that fails: the error is logged.   *)
(* A stack that the catalogue lost is kept.                                 *)
SeedStacks(S, entries) ==
    LET upTo[k \in 0..Len(entries)] ==
            IF k = 0 THEN Outcome(S, 0, "ok")
            ELSE IF k \in StackCatalogueFromConfig(entries) /\ Ok(upTo[k - 1])
            THEN StackRepoUpsert(upTo[k - 1].t, entries[k]) ELSE upTo[k - 1]
    IN upTo[Len(entries)].t
ListStacksRequest(S) == Read(ListStacks(S))

-----------------------------------------------------------------------------
(* The environment of a project.                                           *)

ValidSources == {"devcontainer", "compose", "makefile", "declared"}
ValidStacks == {"go", "node", "python", "go-node"}

CreateEnvironment(E, P, e) ==
    IF e.project \notin Live(P) THEN Refused(E, "foreign_key")
    ELSE Insert(E, [live |-> TRUE, project |-> e.project, stacks |-> e.stacks,
                    source |-> e.source], ProjectClash)
GetEnvironmentByProjectID(E, p) == One(E, LAMBDA r : r.project = p)
UpdateEnvironment(E, i, e) ==
    IF i \notin Live(E) THEN Refused(E, "no_rows")
    ELSE Change(E, i, [E[i] EXCEPT !.stacks = e.stacks, !.source = e.source], ProjectClash)
DeleteEnvironment(E, i) == Erase(E, i)

EnvRepoCreate(E, P, e) == Repo(CreateEnvironment(E, P, e))
EnvRepoGetByProjectID(E, p) == Repo(GetEnvironmentByProjectID(E, p))
EnvRepoUpdate(E, i, e) == Repo(UpdateEnvironment(E, i, e))
EnvRepoDelete(E, i) == RepoExec(DeleteEnvironment(E, i))

ValidateEnvironmentInput(e) == e.source \in ValidSources /\ e.stacks \subseteq ValidStacks
(* `found' is the id the first statement read, 0 when there was none. *)
EnvServiceSave(E, P, found, e) ==
    LET full == [e EXCEPT !.source = IF @ = Nil THEN "declared" ELSE @]
    IN CASE ~ValidateEnvironmentInput(full) -> Invalid(E)
         [] ValidateEnvironmentInput(full) /\ found = 0 -> EnvRepoCreate(E, P, full)
         [] OTHER -> EnvRepoUpdate(E, found, full)
EnvServiceDelete(E, p) ==
    LET o == EnvRepoGetByProjectID(E, p) IN IF Ok(o) THEN EnvRepoDelete(E, o.id) ELSE o

GetProjectEnvironmentRequest(E, p) == Fetched(E, EnvRepoGetByProjectID(E, p))
PutProjectEnvironmentRequest(E, P, found, p, e) ==
    Reply(E, EnvServiceSave(E, P, found, [e EXCEPT !.project = p]), 200)
DeleteProjectEnvironmentRequest(E, p) == Reply(E, EnvServiceDelete(E, p), 204)

-----------------------------------------------------------------------------
(* Bundles.                                                                *)

RoleMatches(roles, role) == roles = {} \/ role \in roles

ListCapabilitiesForAgent(caps, attached, agent) ==
    SelectSeq(caps, LAMBDA c : <<agent, c.id>> \in attached)
GetProjectCredentialByName(creds, name, p) ==
    {c \in creds : c.name = name /\ c.project = p /\ p # 0}
GetGlobalCredentialByName(creds, name) == {c \in creds : c.name = name /\ c.project = 0}

(* The project's credential wins over the global one; none at all is an     *)
(* error, and so is one that does not decrypt.                              *)
Resolve(creds, name, p) ==
    LET own == GetProjectCredentialByName(creds, name, p)
        found == IF own # {} THEN own ELSE GetGlobalCredentialByName(creds, name)
    IN {c \in found : c.readable}

EmptyBundle == [skills |-> {}, servers |-> {}, secrets |-> {}, policy |-> {}]

AddSkill(b, c) == IF c.files THEN [b EXCEPT !.skills = @ \cup {c.name}] ELSE b
(* Without its secret the server is kept; a second server of the same name  *)
(* replaces the first.                                                      *)
AddMCPServer(b, c, creds, p, role) ==
    IF ~RoleMatches(c.roles, role) THEN b
    ELSE [b EXCEPT !.servers = {s \in @ : s.name # c.name} \cup {[name |-> c.name, cap |-> c.id]},
                   !.secrets = IF c.cred = Nil THEN @
                               ELSE @ \cup {<<c.cred, k.project>> : k \in Resolve(creds, c.cred, p)}]
AddToolPolicy(b, c, role) ==
    IF RoleMatches(c.roles, role) THEN [b EXCEPT !.policy = @ \cup {c.id}] ELSE b

(* An agent that is gone composes without the project's credentials. *)
ComposeBundle(A, caps, attached, creds, agent, role) ==
    LET o == AgentRepoGet(A, agent)
        p == IF Ok(o) THEN A[agent].project ELSE 0
        Add(b, c) == CASE c.kind = "skill" -> AddSkill(b, c)
                       [] c.kind = "mcp_server" -> AddMCPServer(b, c, creds, p, role)
                       [] c.kind = "tool_policy" -> AddToolPolicy(b, c, role)
                       [] OTHER -> b
    IN IF agent = 0 THEN EmptyBundle
       ELSE FoldLeft(Add, EmptyBundle, ListCapabilitiesForAgent(caps, attached, agent))

(* A failure to list gives an empty bundle, with 200. *)
BundleRequest(A, caps, attached, creds, token, fails) ==
    Read(IF fails THEN EmptyBundle
         ELSE ComposeBundle(A, caps, attached, creds, token.agent, token.role))
=============================================================================
