----------------------------- MODULE Integrations -----------------------------
(***************************************************************************)
(* One project and the services it is connected to: the stored credential, *)
(* the git steps of its run, the imports of its stories and the write-back *)
(* of their status, all over the same rows and the same token.             *)
(*                                                                         *)
(* A behaviour plays one scenario: the rows, the board and the document it *)
(* starts with, and how much of everything may happen.                     *)
(***************************************************************************)
EXTENDS WriteBack

CONSTANTS Scenarios

(* A project starts without a connection, or with one whose status is that   *)
(* of a token never probed, or accepted when it was.                         *)
ASSUME ScenariosAssumption ==
    \A s \in Scenarios :
        \/ s.conn = NoConn
        \/ \E token \in Tokens, k \in 0..1, status \in {"unconfigured", "connected", "expired"},
             expired, validated \in BOOLEAN :
                s.conn = Upsert(token, k, status, expired, validated)

(* The columns of a story and the fields of an item of a board.              *)
StoryColumns == {"live", "key", "title", "objective", "epic", "status", "stage", "source",
                 "ext", "item", "hash", "wb"}
ItemFields == {"id", "kind", "node", "repo", "number", "title", "type", "subs", "parent",
               "fields", "truncated"}
StoryRow(row) ==
    /\ DOMAIN row = StoryColumns /\ row.live \in BOOLEAN
    /\ row.source \in {"manual", GitHub, Markdown}
    /\ row.source = "manual" => row.hash = NoHash

(* What the schema checks of a row; an epic is one of the project's.         *)
WriteBackStatuses == {"pending", "synced", "failed", "disabled"}
StoryFits(row, E) ==
    /\ row.status \in StoryStatuses /\ row.wb \in WriteBackStatuses \cup {Nil}
    /\ row.epic \in Live(E) \cup {0}
EpicColumns == {"live", "name", "status", "source", "ext"}
EpicFits(row) == DOMAIN row = EpicColumns /\ row.live \in BOOLEAN /\ row.status \in EpicStatuses

(* A job of the queue is retried until it is discarded.                      *)
JobFits(j) ==
    /\ j.pc \in {"queued", "resolve", "field", "push", "done", "discarded"}
    /\ j.tries \in 0..Attempts
    /\ j.tries = Attempts <=> j.pc = "discarded"
JobColumns == {"story", "status", "pc", "tries", "token", "item", "option"}
Budgets == {"imports", "faults", "edits", "runs", "connects"}

(* The epics a source names, by their references.                            *)
EpicRefs(source, items, blocks) ==
    IF source = GitHub THEN EpicsOn(items)
    ELSE LET named == MarkdownEpics(blocks) IN {named[k].ext : k \in DOMAIN named}

(* A hash covers the title beside it, and stands for a link to the parent.   *)
Covers(row, items, blocks) ==
    row.hash # NoHash => /\ row.title = row.hash[1]
                         /\ row.hash[3] \in EpicRefs(row.source, items, blocks) => row.epic # 0

(* A project starts with rows as imports and users leave them; an item is    *)
(* on a board once, and an author uses a key once.                           *)
ASSUME ProjectAssumption ==
    \A s \in Scenarios :
        /\ s.stories \in Seq(Range(s.stories)) /\ s.epics \in Seq(Range(s.epics))
        /\ s.jobs \in Seq(Range(s.jobs)) /\ s.left \in [Budgets -> Nat]
        /\ \A j \in DOMAIN s.jobs : DOMAIN s.jobs[j] = JobColumns /\ JobFits(s.jobs[j])
        /\ \A e \in DOMAIN s.epics :
            /\ EpicFits(s.epics[e])
            /\ \A k \in Live(s.epics) \ {e} : e \in Live(s.epics) => ~EpicClash(s.epics[e], s.epics[k])
        /\ \A i \in DOMAIN s.stories : StoryFits(s.stories[i], s.epics)
        /\ s.board \in Seq(Range(s.board)) /\ s.text \in Seq(Range(s.text))
        /\ \A i \in DOMAIN s.stories :
            /\ StoryRow(s.stories[i]) /\ Covers(s.stories[i], s.board, s.text)
            /\ \A k \in Live(s.stories) \ {i} : i \in Live(s.stories) => ~StoryClash(s.stories[i], s.stories[k])
        /\ \A i \in DOMAIN s.board :
            /\ DOMAIN s.board[i] = ItemFields /\ ItemRef(s.board[i]) # Nil
            /\ \A k \in DOMAIN s.board \ {i} : ItemRef(s.board[i]) # ItemRef(s.board[k])
        /\ \A i, k \in DOMAIN s.text : s.text[i].key = s.text[k].key => i = k

vars == <<connVars, gitVars, planVars, writeVars>>

Init ==
    \E s \in Scenarios :
        /\ ConnInit(s.conn, s.provider, s.requests)
        /\ GitInit(s.git, IF s.steps THEN "ready" ELSE "off")
        /\ stories = s.stories /\ epics = s.epics /\ board = s.board /\ text = s.text
        /\ imp = [p \in Imports |-> IdleImport]
        /\ left = s.left
        /\ settled = {} /\ clean = TRUE
        /\ connector = s.connector
        /\ run = NoRun /\ user = NoEdit
        /\ jobs = s.jobs /\ audit = <<>> /\ dropped = {}

Requests ==
    /\ ConnNext
    /\ UNCHANGED <<gitVars, planVars, writeVars>>

GitWork ==
    /\ GitNext
    /\ UNCHANGED <<planVars, writeVars>>

Import(p) ==
    \/ ImportPlanning(p, "admin", Github(FALSE))
    \/ ImportPlanning(p, "admin", Github(TRUE))
    \/ ImportPlanning(p, "admin", Document(FALSE))

Importing ==
    /\ \E p \in Imports : Import(p) \/ ImportStep(p) \/ ItemFault(p)
    /\ UNCHANGED <<gitVars, writeVars>>

RunStep ==
    \/ LoadStatus \/ UpdateStoryStatus \/ EnqueueWriteBack \/ EnterStage \/ ClearStage
    \/ \E t \in {"done", "failed", "backlog"} : RunEnds(t)

Patch == [title |-> "renamed", objective |-> Nil, status |-> Nil, epic |-> 0]
Typed == [key |-> [repo |-> "MD", number |-> "1", suffix |-> Nil], title |-> "typed",
          objective |-> "why", epic |-> 0, status |-> Nil]
EpicPatches == {[name |-> "doc epic", status |-> Nil], [name |-> Nil, status |-> "dropped"]}
TypedEpic == [name |-> "epic", status |-> Nil]
Renamed(k) == [board EXCEPT ![k].title = "retitled"]

Editing ==
    \/ \E i \in Live(stories) : UserReads(i, Patch) \/ UserDeletes(i)
    \/ UserSaves
    \/ \E e \in Live(epics) : UserDeletesEpic(e)
    \/ UserCreates(Typed)
    \/ \E e \in Live(epics), patch \in EpicPatches : UserReadsEpic(e, patch)
    \/ UserSavesEpic
    \/ UserCreatesEpic(TypedEpic)
    \/ \E k \in DOMAIN board : BoardEdited(Renamed(k))

On == [NoConnector EXCEPT !.url = TRUE, !.enabled = TRUE,
                          !.mapping = [s \in StoryStatuses |-> IF s = "backlog" THEN Nil ELSE s]]

Writing ==
    /\ \/ \E c \in {On, [On EXCEPT !.enabled = FALSE]} : SetConnector("owner", c)
       \/ \E i \in Live(stories) : LaunchStory(i)
       \/ RunStep
       \/ Editing
       \/ \E j \in DOMAIN jobs : WriteBackStep(j)
    /\ UNCHANGED gitVars

Next == Requests \/ GitWork \/ Importing \/ Writing

Spec == Init /\ [][Next]_vars

MaxJobs == 2

(* Every request, job and step that has begun is carried on; a retry of the *)
(* write-back is scheduled again by River.                                  *)
Fairness ==
    /\ WF_vars(GitStep /\ UNCHANGED <<planVars, writeVars>>)
    /\ WF_vars(\E p \in Imports : ImportStep(p) /\ UNCHANGED <<gitVars, writeVars>>)
    /\ WF_vars(RunStep /\ UNCHANGED gitVars)
    /\ \A j \in 1..MaxJobs : WF_vars(j \in DOMAIN jobs /\ WriteBackStep(j) /\ UNCHANGED gitVars)

FairSpec == Spec /\ Fairness

-----------------------------------------------------------------------------
(* The pages of a list, one row a page and one page too many; what a page    *)
(* announces is what they hold.                                             *)
Filter == [key |-> NoKey, epic |-> 0, statuses |-> {}]
Pages(filter) ==
    [k \in 1..Cardinality(Live(stories)) + 1 |-> ListStoriesRequest(stories, filter, k, 1).body]
Shown(filter) ==
    LET pages == Pages(filter)
        rows == FlattenSeq([k \in DOMAIN pages |-> pages[k].rows])
    IN IF \A k \in DOMAIN pages : pages[k].total = Len(rows) THEN Range(rows) ELSE {0}
Served ==
    /\ Shown(Filter) = Live(stories)
    /\ \A s \in StoryStatuses :
        Shown([Filter EXCEPT !.statuses = {s}]) = {i \in Live(stories) : stories[i].status = s}
    /\ \A i \in DOMAIN stories :
        /\ GetStoryRequest(stories, i).status = 200 <=> i \in Live(stories)
        /\ i \in Live(stories) =>
            ListStoriesRequest(stories, [Filter EXCEPT !.key = stories[i].key], 1, 1).body = stories[i]
    /\ \A e \in Live(epics) :
        LET mine == {i \in Live(stories) : stories[i].epic = e}
            shown == ListEpicsRequest(stories, epics, 1, MaxPerPage).body.rows
        IN /\ GetEpicRequest(epics, e).status = 200
           /\ Shown([Filter EXCEPT !.epic = e]) = mine
           /\ \E k \in DOMAIN shown :
                /\ shown[k].epic = epics[e]
                /\ MapThenSumSet(LAMBDA s : shown[k].counts[s], StoryStatuses) = Cardinality(mine)

(* Rows and jobs are what the columns allow, no two rows of a table clash,   *)
(* no story keeps an epic that was deleted, no job was attempted more often  *)
(* than its MaxAttempts, and no budget is overdrawn.                         *)
RowsFit ==
    /\ \A i \in Live(stories) :
        /\ StoryFits(stories[i], epics)
        /\ \A k \in Live(stories) \ {i} : ~StoryClash(stories[i], stories[k])
    /\ \A e \in Live(epics) :
        /\ EpicFits(epics[e])
        /\ \A k \in Live(epics) \ {e} : ~EpicClash(epics[e], epics[k])
    /\ \A j \in DOMAIN jobs : JobFits(jobs[j])
    /\ \A b \in DOMAIN left : left[b] \in Nat

(* Type: the tables fit, and the API serves each row of them once. *)
TypeOK == Served /\ ConnTypeOK /\ RowsFit

-----------------------------------------------------------------------------
(* The items an import of this source would read now. *)
Source(cfg) ==
    IF cfg.source = GitHub THEN FetchBoard(board, "Status", "Epic") ELSE FetchMarkdown(text)

Identity(cfg, is, row) ==
    IF cfg.source = Markdown THEN row.key = is.key
    ELSE row.source = cfg.source /\ row.ext = is.ext

Undisturbed(i) == i.pc = "over" /\ i.quiet /\ ~Failed(i.log) /\ ~i.cfg.dry

(* An import that ran alone and counted no failure leaves each story item    *)
(* in exactly one row, and that row up to date: its hash is the item's hash, *)
(* unless a run holds it.  If nobody else ever touched the stories, then     *)
(* the title is the item's too and a story whose parent was imported is      *)
(* linked to an epic: an equal hash then never hides an older row.           *)
Converges ==
    \A p \in Imports : Undisturbed(imp[p]) =>
        LET cfg == imp[p].cfg
            src == Source(cfg)
        IN \A k \in DOMAIN src.stories :
            LET is == src.stories[k]
                rows == {i \in Live(stories) : Identity(cfg, is, stories[i])}
            IN /\ Cardinality(rows) = 1
               /\ \A i \in rows :
                    /\ Locked(stories[i]) \/ stories[i].hash = CanonicalHash(cfg, is)
                    /\ clean => /\ stories[i].title = is.title
                                /\ \/ Locked(stories[i]) \/ stories[i].epic # 0
                                   \/ \A e \in DOMAIN src.epics : src.epics[e].ext # is.epic

(* An import of a source that a clean import left up to date, and that       *)
(* nobody has touched since, writes nothing: no row flips back and forth.    *)
Idempotent ==
    \A p \in Imports : imp[p].re /\ Undisturbed(imp[p]) => ~Wrote(imp[p].log)

(* The status that is shown of the stored token is earned: "connected" by a probe *)
(* that accepted this very token, "invalid" and "insufficient_scope" by the  *)
(* provider's refusal of it or, for invalid, by a key that cannot decrypt    *)
(* it; unless an answer about another token arrived in between.              *)
StatusEarned ==
    ~raced =>
        LET shown == StatusView(conn).status
        IN /\ shown = "connected" => conn.live /\ conn.token \in accepted
           /\ shown = "insufficient_scope" => conn.live /\ conn.token \in refused
           /\ shown = "invalid" => conn.live /\ (conn.token \in refused \/ ~Decrypts(conn))

-----------------------------------------------------------------------------
(* The scenario's requests come to an end: every import is over, a CI poll   *)
(* ends whatever the forge says, and no story is left marked as pending,     *)
(* unless its job was lost or given up: nothing resolves the mark then.      *)
GivenUp(i) ==
    i \in dropped \/ \E j \in DOMAIN jobs : jobs[j].story = i /\ jobs[j].pc = "discarded"

PendingStory(i) == i \in Live(stories) /\ stories[i].wb = "pending" /\ ~GivenUp(i)

Settled ==
    /\ \A i \in Live(stories) : ~PendingStory(i)
    /\ job.pc # "ci_poll"
    /\ \A p \in Imports : imp[p].pc \in {"idle", "over"}

IntegrationsSettle == <>[]Settled
===============================================================================
