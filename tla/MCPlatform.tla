----------------------------- MODULE MCPlatform -----------------------------
(* Scenarios of the server around the runs.                               *)
EXTENDS Platform

MCPrice == [m1 |-> [input |-> 1, output |-> 2], m1mini |-> [input |-> 3, output |-> 1]]
MCPrefixes == [m |-> {}, m1minix |-> {"m1", "m1mini"}]

Step(id, action) == [id |-> id, name |-> action, action |-> action, guards |-> <<>>, rest |-> Nil]
Group(steps) == [id |-> "g", name |-> "G", transition |-> "manual", guards |-> <<>>, steps |-> steps]
Pipelines == {<<Group(<<Step("u1", "agent_run"), Step("s2", "git_pr")>>)>>,
              <<Group(<<>>)>>, <<Group(<<Step("u1", "dance")>>)>>}

NoPatch == [name |-> Nil, email |-> Nil, role |-> Nil]
Agent(name, scope) == [name |-> name, scope |-> scope, project |-> 0, stack |-> 1, provider |-> Nil,
                       kind |-> Nil, template |-> "t", type |-> Nil]
AgentPatch == [name |-> Nil, template |-> Nil, provider |-> Nil, stack |-> 0]
Environment(source) == [project |-> 0, stacks |-> {"go"}, source |-> source]
Channel(channel, enabled, names) ==
    [project |-> 0, channel |-> channel, target |-> "url", filter |-> names, enabled |-> enabled]
Event(m, i, usd) == [model |-> m, input |-> i, output |-> 1, usd |-> usd]

MCInputs ==
    [emails |-> {"a", "b", "c"}, passwords |-> {"pw1", "pw2", "short"}, people |-> {"someone"},
     userPatches |-> {[NoPatch EXCEPT !.role = "admin"], [NoPatch EXCEPT !.role = "user"],
                      [NoPatch EXCEPT !.email = "c", !.role = "admin"]},
     keys |-> {[user |-> 0, provider |-> "claude", name |-> n, secret |-> "s"] : n \in {"k", Nil}},
     projects |-> {[name |-> n, owner |-> 0, provider |-> Nil, text |-> Nil] : n \in {"p1", "p2"}},
     projectPatches |-> {[name |-> n, provider |-> Nil, text |-> Nil] : n \in {"p1", "p3"}},
     pipelines |-> Pipelines,
     agents |-> {Agent("x", Nil), Agent("x", "global"), [Agent("y", Nil) EXCEPT !.stack = 9]},
     agentPatches |-> {[AgentPatch EXCEPT !.provider = "opencode"],
                       [AgentPatch EXCEPT !.name = "z", !.stack = 2]},
     environments |-> {Environment(Nil), Environment("guess"), Environment("makefile")},
     configs |-> {Channel("discord", Nil, {"run.failed"}), Channel("pigeon", "on", {}),
                  Channel("webhook", "off", {})},
     catalogue |-> <<[key |-> "go", image |-> "go:1"], [key |-> "node", image |-> "node:2"],
                     [key |-> "none", image |-> Nil], [key |-> "rust", image |-> "rust:1"],
                     [key |-> "go", image |-> "go:2"]>>,
     names |-> {"run.failed"}, lines |-> {<<"l1", "l2">>},
     reports |-> {<<Event("m1minix", 1, 0)>>, <<Event("m1", 1, 0), Event(Nil, 2, 5)>>,
                  <<Event("m", 1, 0)>>}]

User(email, pw, role) == [live |-> TRUE, deleted |-> FALSE, email |-> email, password |-> pw,
                          name |-> "n", role |-> role]
Project(name) == [live |-> TRUE, name |-> name, owner |-> 1, provider |-> "github", text |-> Nil]
Pipeline(p) == [live |-> TRUE, project |-> p, yaml |-> DefaultPipeline, version |-> 1]
AgentRow(name, scope, p, type) ==
    [live |-> TRUE, name |-> name, scope |-> scope, project |-> p, stack |-> 1,
     provider |-> "claude", kind |-> "claude_code", template |-> "t", type |-> type]
Row(s, a, age, usd) == [live |-> TRUE, step |-> s, project |-> 1, agent |-> a, age |-> age,
                        usd |-> usd, input |-> 1, output |-> 1, model |-> "m1"]

Db == [users |-> <<User("a", "pw1", "admin"), User("b", "pw2", "user")>>,
       sessions |-> <<Claims(1, "admin"), Claims(2, "user")>>, revoked |-> {}, resets |-> <<>>,
       members |-> <<[live |-> TRUE, project |-> 1, user |-> 2, role |-> "member"]>>,
       keys |-> <<>>, projects |-> <<Project("p1")>>, pipelines |-> <<Pipeline(1)>>,
       agents |-> <<AgentRow("dev", "project", 1, "dev")>>,
       stacks |-> <<[live |-> TRUE, key |-> "go", image |-> "go:1"],
                    [live |-> TRUE, key |-> "node", image |-> "node:1"]>>,
       environments |-> <<>>, configs |-> <<>>,
       caps |-> <<[id |-> 1, kind |-> "mcp_server", name |-> "hub", roles |-> {"dev"},
                   cred |-> "tok", files |-> TRUE]>>,
       attached |-> {<<1, 1>>},
       creds |-> {[name |-> "tok", project |-> p, readable |-> TRUE] : p \in {0, 1, 2}},
       stories |-> <<>>, runs |-> <<>>, steps |-> <<>>, costs |-> <<>>]

Billed ==
    [Db EXCEPT
        !.stories = <<[live |-> TRUE, project |-> 1], [live |-> TRUE, project |-> 1]>>,
        !.runs = <<[live |-> TRUE, project |-> 1, story |-> 1, status |-> "completed"],
                   [live |-> TRUE, project |-> 1, story |-> 2, status |-> "failed"]>>,
        !.steps = <<[live |-> TRUE, run |-> 1, name |-> "implement", order |-> 1],
                    [live |-> TRUE, run |-> 2, name |-> "review", order |-> 1]>>,
        !.costs = <<Row(1, 1, 0, 4), Row(2, 0, 5, 2), Row(1, 1, 28, 1)>>]

NoMore == [events |-> 0, faults |-> 0, streams |-> 0, reports |-> 0, days |-> 0]
Plan(n, may) == [may |-> may, left |-> n]
Quiet == [db |-> Db, plan |-> Plan(0, {}), left |-> NoMore]

MCScenarios ==
    {\* sessions
     [Quiet EXCEPT !.plan = Plan(4, {"login", "logout", "expire", "purge"})],
     \* roles and profiles
     [Quiet EXCEPT !.plan = Plan(3, {"user", "profile", "login"})],
     \* passwords
     [Quiet EXCEPT !.plan = Plan(3, {"password", "login"})],
     [Quiet EXCEPT !.plan = Plan(4, {"forgot", "reset", "expire", "deleteUser"})],
     \* users, members and keys
     [Quiet EXCEPT !.plan = Plan(3, {"register", "deleteUser", "members", "keys"})],
     \* projects
     [Quiet EXCEPT !.plan = Plan(3, {"project", "updateProject", "deleteProject", "pipeline"}),
        !.left.faults = 1],
     \* their settings
     [Quiet EXCEPT !.plan = Plan(3, {"agent", "updateAgent", "deleteAgent"}), !.left.faults = 1],
     [Quiet EXCEPT !.plan = Plan(3, {"environment", "channels"})],
     \* events and streams
     [Quiet EXCEPT !.left.events = 2, !.left.streams = 2],
     [Quiet EXCEPT !.left.events = 2, !.left.faults = 1],
     [Quiet EXCEPT !.left.events = 3],
     [Quiet EXCEPT !.left.events = 1, !.left.streams = 2, !.left.faults = 2],
     \* channels, and a project that has events
     [Quiet EXCEPT !.plan = Plan(2, {"channels", "deleteProject"}), !.left.events = 2],
     [Quiet EXCEPT !.db = Billed, !.left.events = 2],
     \* a project that the dispatcher does not know
     [Quiet EXCEPT !.plan = Plan(1, {"project"}), !.left.events = 1, !.left.streams = 1],
     \* costs
     [Quiet EXCEPT !.db = Billed, !.plan = Plan(1, {"deleteAgent", "deleteProject"}),
        !.left.reports = 2, !.left.days = 2]}

(* The connection of the listener is lost once, while two events are published. *)
MCOutages == {[Quiet EXCEPT !.left.events = 2, !.left.faults = 1]}
=============================================================================
