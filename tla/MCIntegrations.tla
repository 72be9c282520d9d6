--------------------------- MODULE MCIntegrations ---------------------------
(* Scenarios of one project                                               *)
EXTENDS Integrations

MCDone == {"done"}
MCChecks ==
    [github |-> {<<>>, <<"queued">>, <<"failure">>, <<"success", "queued">>,
                 <<"success", "success", "failure">>},
     gitea |-> {<<>>, <<"pending">>, <<"success", "error">>, <<"success">>}]

Connected == Upsert("t1", 1, "connected", FALSE, TRUE)

Issue(n, title, parent) ==
    [id |-> "P" \o n, kind |-> "Issue", node |-> "N" \o n, repo |-> "APP", number |-> n,
     title |-> title, type |-> Nil, subs |-> FALSE, parent |-> parent,
     fields |-> [f \in {"Status"} |-> "todo"], truncated |-> FALSE]

Big == [Issue("1", "epic", Nil) EXCEPT !.type = "Epic"]
Child == Issue("2", "child", "N1")
Draft == [Issue("3", "draft", Nil) EXCEPT !.kind = "DraftIssue"]
(* Another repository of the board, whose name gives the same key.          *)
Twin == [Issue("2", "twin", Nil) EXCEPT !.id = "P4", !.node = "N4"]

Block == [key |-> [repo |-> "MD", number |-> "1", suffix |-> Nil], title |-> "doc",
          epic |-> "epic", raw |-> "done", bad |-> FALSE]

(* The child as a former import stored it, and a story made in the app.     *)
Stored ==
    [live |-> TRUE, key |-> DeriveKey(Child), title |-> "child", objective |-> Nil,
     epic |-> 0, status |-> "backlog", stage |-> Nil, source |-> GitHub, ext |-> "N2",
     item |-> "P2", hash |-> NoHash, wb |-> Nil]
Manual == [Stored EXCEPT !.key = Block.key, !.title = "mine", !.source = "manual",
                         !.ext = Nil, !.item = Nil]
ManualEpic == [live |-> TRUE, name |-> "epic", status |-> "backlog", source |-> "manual", ext |-> Nil]

None == [asks |-> 0, faults |-> 0, changes |-> 0, rotations |-> 0]
NoGit == [faults |-> 0, retries |-> 0, reports |-> 0]
Nothing == [imports |-> 0, faults |-> 0, edits |-> 0, runs |-> 0, connects |-> 0]

Quiet == [provider |-> "github", conn |-> Connected, requests |-> None, git |-> NoGit, steps |-> FALSE,
          stories |-> <<>>, epics |-> <<>>, board |-> <<Big, Child>>, text |-> <<Block>>,
          left |-> Nothing, connector |-> NoConnector, jobs |-> <<>>]

MCScenarios ==
    {\* the credential alone
     [Quiet EXCEPT !.conn = NoConn,
        !.requests = [asks |-> 3, faults |-> 1, changes |-> 1, rotations |-> 1]],
     \* the git steps
     [Quiet EXCEPT !.steps = TRUE, !.git = [faults |-> 1, retries |-> 1, reports |-> 2],
        !.requests = [None EXCEPT !.changes = 1, !.asks = 1]],
     [Quiet EXCEPT !.steps = TRUE, !.git = [faults |-> 1, retries |-> 1, reports |-> 1],
        !.requests.asks = 1, !.provider = "gitea"],
     \* two imports of the board and of the document
     [Quiet EXCEPT !.epics = <<ManualEpic>>, !.stories = <<Manual>>, !.left.imports = 3],
     \* keys that clash
     [Quiet EXCEPT !.board = <<Twin, Child, Draft>>, !.text = <<>>, !.left.imports = 2],
     \* a user edits meanwhile
     [Quiet EXCEPT !.left.imports = 2, !.left.edits = 1, !.text = <<>>],
     [Quiet EXCEPT !.left.imports = 1, !.left.edits = 2, !.board = <<>>],
     \* statements and queries fail
     [Quiet EXCEPT !.left.imports = 3, !.left.faults = 1, !.text = <<>>],
     [Quiet EXCEPT !.left.imports = 2, !.conn = NoConn, !.requests.asks = 1, !.text = <<>>],
     \* a run holds the story
     [Quiet EXCEPT !.stories = <<Stored>>, !.left.imports = 2, !.left.runs = 1,
        !.board = <<Child>>, !.text = <<>>],
     \* its status goes back to the board
     [Quiet EXCEPT !.stories = <<Stored>>, !.left.runs = 1, !.left.faults = 2,
        !.requests.changes = 1, !.connector = UpsertPlanningConnector(On)],
     [Quiet EXCEPT !.stories = <<Stored>>, !.left.runs = 1, !.left.connects = 1,
        !.left.edits = 1, !.connector = UpsertPlanningConnector(On)],
     [Quiet EXCEPT !.stories = <<[Stored EXCEPT !.item = Nil]>>, !.left.runs = 1,
        !.left.imports = 1, !.text = <<>>, !.connector = UpsertPlanningConnector(On)],
     [Quiet EXCEPT !.stories = <<Stored>>, !.left.runs = 1, !.conn = NoConn,
        !.left.connects = 1, !.connector = UpsertPlanningConnector(On)]}
=============================================================================
