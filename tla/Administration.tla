--------------------------- MODULE Administration ---------------------------
(***************************************************************************)
(* The server's own requests on accounts, projects and their settings, as  *)
(* they meet in one database.                                              *)
(*                                                                         *)
(* A request whose service reads a row, or checks something, and writes    *)
(* later is a call: it begins with the read and holds what it read until   *)
(* its write.  The rest are one step.  What a request carries is drawn     *)
(* from Inputs; the requests of a behaviour are those in plan.may, at most *)
(* plan.left of them.                                                      *)
(***************************************************************************)
EXTENDS Notifications

CONSTANTS Inputs,       \* what requests carry: a record of small sets
          MaxCalls      \* requests in progress at a time

(* Addresses, passwords, people's names and the fields of a patch are       *)
(* texts; a patch holds Nil for a field that the request leaves out, an     *)
(* agent for an absent provider.  Log lines, and the entries of the          *)
(* catalogue, come one after the other.                                     *)
ASSUME InputsAssumption ==
    /\ Inputs.emails \subseteq STRING /\ Inputs.passwords \subseteq STRING
    /\ Inputs.people \subseteq STRING
    /\ \A patch \in Inputs.userPatches : patch \in [name : STRING, email : STRING, role : STRING]
    /\ \A agent \in Inputs.agents : "provider" \in DOMAIN agent
    /\ \A lines \in Inputs.lines : lines \in Seq(Range(lines))
    /\ Inputs.catalogue \in Seq(Range(Inputs.catalogue))

VARIABLES
    db,         \* table name -> table
    calls,      \* slot -> a request in progress
    plan,       \* [may, left]
    past        \* ghost: [loggedOut, granted, proven, held, reset, unseeded]

adminVars == <<db, calls, plan, past>>

Slots == 1..MaxCalls
NoCall == [kind |-> "none", who |-> [user |-> 0, role |-> Nil], id |-> 0, row |-> Nil, arg |-> Nil]

May(kind) ==
    /\ kind \in plan.may /\ plan.left > 0
    /\ plan' = [plan EXCEPT !.left = @ - 1]

Callers == {db.sessions[j] : j \in {k \in DOMAIN db.sessions :
                                        Auth(db.sessions, db.revoked, k) = "ok"}}
Admins == {who \in Callers : who.role = "admin"}

Put(table, r) == db' = [db EXCEPT ![table] = r.t]

Begin(kind, who, i, row, arg) ==
    LET free == {s \in Slots : calls[s].kind = "none"}
    IN /\ free # {}
       /\ calls' = [calls EXCEPT ![CHOOSE s \in free : \A r \in free : s <= r] =
                        [kind |-> kind, who |-> who, id |-> i, row |-> row, arg |-> arg]]
In(s, kind) == calls[s].kind = kind
End(s) == calls' = [calls EXCEPT ![s] = NoCall]

-----------------------------------------------------------------------------
(* Accounts.                                                               *)

RegisterUser ==
    /\ May("register")
    /\ \E email \in Inputs.emails, pw \in Inputs.passwords, name \in Inputs.people :
        LET r == RegisterRequest(db.users, email, pw, name)
        IN /\ Put("users", r)
           /\ past' = IF r.status # 201 THEN past
                      ELSE [past EXCEPT !.granted = @ \cup {<<r.id, "user">>},
                                        !.proven = @ \cup {<<r.id, pw>>},
                                        !.held = @ \cup {<<r.id, pw>>}]
    /\ UNCHANGED calls

LoginUser ==
    /\ May("login")
    /\ \E email \in Inputs.emails, pw \in Inputs.passwords :
        LET r == LoginRequest(db.users, email, pw)
        IN /\ r.status = 200
           /\ db' = [db EXCEPT !.sessions = Append(@, Claims(r.id, db.users[r.id].role))]
    /\ UNCHANGED <<calls, past>>

LogoutUser ==
    /\ May("logout")
    /\ \E jti \in DOMAIN db.sessions :
        /\ Auth(db.sessions, db.revoked, jti) = "ok"
        /\ Put("revoked", LogoutRequest(db.revoked, db.sessions, jti))
        /\ past' = [past EXCEPT !.loggedOut = @ \cup {jti}]
    /\ UNCHANGED calls

(* 24 hours go by for a session, an hour for a reset link. *)
Expire ==
    /\ May("expire")
    /\ \/ \E j \in DOMAIN db.sessions : db' = [db EXCEPT !.sessions[j].expired = TRUE]
       \/ \E i \in DOMAIN db.resets : db' = [db EXCEPT !.resets[i].expired = TRUE]
    /\ UNCHANGED <<calls, past>>

(* The hourly cleanup. *)
Purge ==
    /\ May("purge")
    /\ db' = [db EXCEPT !.revoked = PurgeExpiredTokens(@, db.sessions)]
    /\ UNCHANGED <<calls, past>>

ForgotPasswordMail ==
    /\ May("forgot")
    /\ \E email \in Inputs.emails :
        Put("resets", ForgotPasswordRequest(db.resets, db.users, email))
    /\ UNCHANGED <<calls, past>>

(* The token is looked at, the user loaded, the user saved, the token       *)
(* marked: statements of their own.                                         *)
ResetBegin ==
    /\ May("reset")
    /\ \E i \in DOMAIN db.resets, pw \in Inputs.passwords :
        LET o == ResetPasswordToken(db.resets, i, pw)
        IN /\ Ok(o) /\ Ok(ResetPasswordLoad(db.users, db.resets[i].user))
           /\ Begin("reset", [user |-> db.resets[i].user, role |-> Nil], i,
                    db.users[db.resets[i].user], pw)
    /\ UNCHANGED <<db, past>>
ResetSave(s) ==
    /\ In(s, "reset")
    /\ LET o == ResetPasswordSave(db.users, calls[s].who.user, calls[s].row, calls[s].arg)
       IN IF Ok(o) THEN /\ db' = [db EXCEPT !.users = o.t]
                        /\ past' = [past EXCEPT !.held = @ \cup
                               {<<calls[s].who.user, o.t[calls[s].who.user].password>>}]
                        /\ calls' = [calls EXCEPT ![s].kind = "mark"]
          ELSE End(s) /\ UNCHANGED <<db, past>>
    /\ UNCHANGED plan
ResetMark(s) ==
    /\ In(s, "mark")
    /\ db' = [db EXCEPT !.resets = TokenRepoMarkUsed(@, calls[s].id).t]
    /\ past' = [past EXCEPT !.reset = @ \cup {<<calls[s].who.user, calls[s].arg>>}]
    /\ End(s) /\ UNCHANGED plan

UpdateUserBegin ==
    /\ May("user")
    /\ \E who \in Admins, i \in DOMAIN db.users, patch \in Inputs.userPatches :
        /\ Ok(UserServiceGetByID(db.users, i))
        /\ Begin("user", who, i, db.users[i], patch)
    /\ UNCHANGED <<db, past>>
UpdateUserEnd(s) ==
    /\ In(s, "user")
    /\ LET c == calls[s]
           r == UpdateUserRequest(db.users, c.who, c.id, c.row, c.arg)
       IN /\ Put("users", r)
          /\ past' = IF r.status = 200 /\ c.arg.role # Nil
                     THEN [past EXCEPT !.granted = @ \cup {<<c.id, c.arg.role>>}] ELSE past
    /\ End(s) /\ UNCHANGED plan

UpdateProfileBegin ==
    /\ May("profile")
    /\ \E who \in Callers, patch \in Inputs.userPatches :
        /\ Ok(UpdateProfileLoad(db.users, who.user))
        /\ Begin("profile", who, who.user, db.users[who.user], patch)
    /\ UNCHANGED <<db, past>>
UpdateProfileEnd(s) ==
    /\ In(s, "profile")
    /\ Put("users", UpdateMyProfileRequest(db.users, calls[s].who, calls[s].row, calls[s].arg))
    /\ End(s) /\ UNCHANGED <<plan, past>>

ChangePasswordBegin ==
    /\ May("password")
    /\ \E who \in Callers, current \in Inputs.passwords, pw \in Inputs.passwords :
        /\ Ok(ChangeMyPasswordCheck(db.users, who, current, pw))
        /\ Begin("password", who, who.user, Nil, pw)
        /\ past' = IF db.users[who.user].password = current
                   THEN [past EXCEPT !.proven = @ \cup {<<who.user, pw>>}] ELSE past
    /\ UNCHANGED db
ChangePasswordEnd(s) ==
    /\ In(s, "password")
    /\ LET o == ChangePasswordSave(db.users, calls[s].id, calls[s].arg)
       IN /\ db' = [db EXCEPT !.users = o.t]
          /\ past' = [past EXCEPT !.held = @ \cup {<<calls[s].id, o.t[calls[s].id].password>>}]
    /\ End(s) /\ UNCHANGED plan

DeleteUserNow ==
    /\ May("deleteUser")
    /\ \E who \in Callers, i \in DOMAIN db.users : Put("users", DeleteUserRequest(db.users, who, i))
    /\ UNCHANGED <<calls, past>>

ChangeMembers ==
    /\ May("members")
    /\ \E who \in Callers, p \in DOMAIN db.projects, u \in DOMAIN db.users :
        \/ Put("members", AddUserRequest(db.members, db.users, db.projects, who,
                                         [project |-> p, user |-> u, role |-> Nil]))
        \/ Put("members", RemoveUserRequest(db.members, who, p, u))
    /\ UNCHANGED <<calls, past>>

ChangeKeys ==
    /\ May("keys")
    /\ \E who \in Callers :
        \/ \E k \in Inputs.keys : Put("keys", CreateMyAPIKeyRequest(db.keys, db.users, who, k))
        \/ \E i \in DOMAIN db.keys : Put("keys", DeleteMyAPIKeyRequest(db.keys, who, i))
    /\ UNCHANGED <<calls, past>>

-----------------------------------------------------------------------------
(* Projects and pipelines.                                                 *)

CreateProjectBegin ==
    /\ May("project")
    /\ \E who \in Admins, p \in Inputs.projects :
        LET r == CreateProjectRequest(db.projects, who, p)
        IN /\ r.status = 201
           /\ Put("projects", r)
           /\ Begin("seed", who, Len(r.t), Nil, Nil)
    /\ UNCHANGED past
CreateProjectEnd(s) ==
    /\ In(s, "seed")
    /\ LET o == SeedDefault(db.pipelines, db.projects, calls[s].id)
       IN db' = [db EXCEPT !.pipelines = IF Ok(o) THEN o.t ELSE @]
    /\ End(s) /\ UNCHANGED <<plan, past>>

UpdateProjectBegin ==
    /\ May("updateProject")
    /\ \E who \in Admins, p \in Live(db.projects), patch \in Inputs.projectPatches :
        Begin("project", who, p, db.projects[p], patch)
    /\ UNCHANGED <<db, past>>
UpdateProjectEnd(s) ==
    /\ In(s, "project")
    /\ LET c == calls[s]
       IN Put("projects", UpdateProjectRequest(db.projects, c.who, c.id, c.row, c.arg))
    /\ End(s) /\ UNCHANGED <<plan, past>>

(* Deleting agents: ON DELETE CASCADE of what is attached, SET NULL on costs. *)
Unassigned(K, ids) == [k \in DOMAIN K |-> [K[k] EXCEPT !.agent = IF @ \in ids THEN 0 ELSE @]]
WithoutAgents(d, ids) ==
    [d EXCEPT !.attached = {x \in @ : x[1] \notin ids}, !.costs = Unassigned(@, ids)]
(* ON DELETE CASCADE of the tables that refer to projects. *)
Of(T, p) == {i \in Live(T) : T[i].project = p}
Dropped(T, ids) == [i \in DOMAIN T |-> [T[i] EXCEPT !.live = @ /\ i \notin ids]]
Cascade(d, p) ==
    LET e == WithoutAgents(d, Of(d.agents, p))
    IN [n \in DOMAIN d |->
        CASE n \in {"members", "pipelines", "agents", "environments", "configs", "stories",
                    "runs", "costs"} -> Dropped(e[n], Of(d[n], p))
          [] n = "steps" -> Dropped(d.steps, {i \in Live(d.steps) : d.runs[d.steps[i].run].project = p})
          [] OTHER -> e[n]]
DeleteProjectNow(withEvents) ==
    /\ May("deleteProject")
    /\ \E who \in Admins, p \in DOMAIN db.projects :
        LET r == DeleteProjectRequest(db.projects, who, p, p \in withEvents)
        IN db' = IF r.status = 204 THEN Cascade([db EXCEPT !.projects = r.t], p) ELSE db
    /\ UNCHANGED <<calls, past>>

UpdatePipeline ==
    /\ May("pipeline")
    /\ \E who \in Callers, p \in DOMAIN db.projects, groups \in Inputs.pipelines :
        Put("pipelines", UpdatePipelineConfigRequest(db.pipelines, db.projects, who, p, groups))
    /\ UNCHANGED <<calls, past>>

-----------------------------------------------------------------------------
(* Agents, environments, notification channels.                            *)

CreateAgentNow ==
    /\ May("agent")
    /\ \E who \in Callers, p \in DOMAIN db.projects, a \in Inputs.agents :
        Put("agents", CreateAgentRequest(db.agents, db.projects, db.stacks, who, p, a))
    /\ UNCHANGED <<calls, past>>
UpdateAgentBegin ==
    /\ May("updateAgent")
    /\ \E who \in Admins, i \in Live(db.agents), patch \in Inputs.agentPatches :
        Begin("agent", who, i, db.agents[i], patch)
    /\ UNCHANGED <<db, past>>
UpdateAgentEnd(s) ==
    /\ In(s, "agent")
    /\ LET c == calls[s]
       IN Put("agents", UpdateAgentRequest(db.agents, db.stacks, c.who, c.id, c.row, c.arg))
    /\ End(s) /\ UNCHANGED <<plan, past>>
(* Its attachments go with it; the costs it caused lose their agent. *)
DeleteAgentNow ==
    /\ May("deleteAgent")
    /\ \E who \in Callers, i \in Live(db.agents) :
        LET r == DeleteAgentRequest(db.agents, who, i)
        IN db' = IF r.status = 204 THEN WithoutAgents([db EXCEPT !.agents = r.t], {i}) ELSE db
    /\ UNCHANGED <<calls, past>>

(* Is there a row?  Then it is updated, else inserted: by another statement. *)
PutEnvironmentBegin ==
    /\ May("environment")
    /\ \E who \in Callers, p \in DOMAIN db.projects, e \in Inputs.environments :
        Begin("environment", who, p, EnvRepoGetByProjectID(db.environments, p).id, e)
    /\ UNCHANGED <<db, past>>
PutEnvironmentEnd(s) ==
    /\ In(s, "environment")
    /\ LET c == calls[s]
       IN Put("environments",
              PutProjectEnvironmentRequest(db.environments, db.projects, c.row, c.id, c.arg))
    /\ End(s) /\ UNCHANGED <<plan, past>>
DeleteEnvironmentNow ==
    /\ May("environment")
    /\ Callers # {}
    /\ \E p \in DOMAIN db.projects :
        Put("environments", DeleteProjectEnvironmentRequest(db.environments, p))
    /\ UNCHANGED <<calls, past>>

ChangeChannels ==
    /\ May("channels")
    /\ Callers # {}
    /\ \/ \E p \in DOMAIN db.projects, c \in Inputs.configs :
            Put("configs", CreateConfigRequest(db.configs, db.projects, [c EXCEPT !.project = p]))
       \/ \E i \in DOMAIN db.configs, c \in Inputs.configs :
            Put("configs", UpdateConfigRequest(db.configs, i, c))
       \/ \E i \in DOMAIN db.configs : Put("configs", DeleteConfigRequest(db.configs, i))
    /\ UNCHANGED <<calls, past>>

-----------------------------------------------------------------------------
(* The statement that seeds the pipeline fails: the request does, with its  *)
(* project in place.                                                        *)
SeedFails(s) ==
    /\ In(s, "seed")
    /\ past' = [past EXCEPT !.unseeded = @ \cup {calls[s].id}]
    /\ End(s) /\ UNCHANGED <<db, plan>>

(* A crash drops the requests in progress; a project whose pipeline was to  *)
(* be seeded stays without one.  A start applies the stacks' catalogue.     *)
CallsLost ==
    /\ calls' = [s \in Slots |-> NoCall]
    /\ past' = [past EXCEPT !.unseeded = @ \cup {calls[s].id : s \in {r \in Slots : In(r, "seed")}}]
    /\ UNCHANGED <<db, plan>>
Started ==
    /\ db' = [db EXCEPT !.stacks = SeedStacks(@, Inputs.catalogue)]
    /\ UNCHANGED <<calls, plan, past>>

AdminInit(d, p) ==
    /\ db = d
    /\ calls = [s \in Slots |-> NoCall]
    /\ plan = p
    /\ past = [loggedOut |-> {}, reset |-> {}, unseeded |-> {},
               granted |-> {<<i, d.users[i].role>> : i \in DOMAIN d.users},
               proven |-> {<<i, d.users[i].password>> : i \in DOMAIN d.users},
               held |-> {<<i, d.users[i].password>> : i \in DOMAIN d.users}]

AdminRequests(withEvents) ==
    \/ RegisterUser \/ LoginUser \/ LogoutUser \/ Expire \/ Purge \/ ForgotPasswordMail
    \/ ResetBegin \/ UpdateUserBegin \/ UpdateProfileBegin \/ ChangePasswordBegin
    \/ DeleteUserNow \/ ChangeMembers \/ ChangeKeys
    \/ CreateProjectBegin \/ UpdateProjectBegin \/ DeleteProjectNow(withEvents) \/ UpdatePipeline
    \/ CreateAgentNow \/ UpdateAgentBegin \/ DeleteAgentNow
    \/ PutEnvironmentBegin \/ DeleteEnvironmentNow \/ ChangeChannels
AdminSteps ==
    \E s \in Slots :
        \/ ResetSave(s) \/ ResetMark(s) \/ UpdateUserEnd(s) \/ UpdateProfileEnd(s)
        \/ ChangePasswordEnd(s) \/ CreateProjectEnd(s) \/ UpdateProjectEnd(s)
        \/ UpdateAgentEnd(s) \/ PutEnvironmentEnd(s)
=============================================================================
