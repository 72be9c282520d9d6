------------------------------ MODULE WriteBack ------------------------------
(***************************************************************************)
(* The other writers of the stories, and the way back to the tracker.      *)
(*                                                                         *)
(* The executor of a run and the users read a row and later write all of   *)
(* it.  After the executor stored running, done or failed it marks the     *)
(* story pending and enqueues a job that pushes the status to the board;   *)
(* the worker may fail, retry, be late or be overtaken.                    *)
(***************************************************************************)
EXTENDS PlanningImport

CONSTANTS Attempts      \* MaxAttempts of a write-back job (10 in the code)

ASSUME AttemptsAssumption == Attempts \in Nat \ {0}

VARIABLES connector,    \* the planning_connectors row
          run,          \* the run that drives a story, as far as the story sees it
          user,         \* a user's update between its read and its write
          jobs,         \* the write-back jobs, in the order of their insertion
          audit,        \* planning_write_backs: append-only
          dropped       \* history: stories whose outcome could not be recorded

writeVars == <<connector, run, user, jobs, audit, dropped>>

NoConnector == [live |-> FALSE, source |-> GitHub, url |-> FALSE, enabled |-> FALSE,
                mapping |-> [s \in StoryStatuses |-> Nil]]
NoRun == [pc |-> "idle", story |-> 0, target |-> Nil, row |-> NoRow]
NoEdit == [pc |-> "idle", story |-> 0, row |-> NoRow, patch |-> NoRow]

-----------------------------------------------------------------------------
(* The connector.                                                          *)

OptionFor(mapping, status) == mapping[status]
HasAnyTarget(mapping) == \E s \in StoryStatuses : mapping[s] # Nil

UpsertPlanningConnector(c) == [c EXCEPT !.live = TRUE]

(* Write-back needs a token and a target. *)
SetConnector(role, c) ==
    /\ Authorized(role)
    /\ left.connects > 0
    /\ left' = [left EXCEPT !.connects = @ - 1]
    /\ LET t == TokenForProject(conn)
       IN /\ conn' = IF c.enabled THEN t.conn ELSE conn
          /\ connector' = IF c.enabled /\ (t.token = Nil \/ ~HasAnyTarget(c.mapping))
                          THEN connector ELSE UpsertPlanningConnector(c)
    /\ UNCHANGED <<stories, epics, board, text, imp, settled, clean, run, user, jobs, audit,
                   dropped, key, provider, remote, ops, accepted, refused, raced, connLeft>>

-----------------------------------------------------------------------------
(* Writes of others than the imports.                                      *)

(* Somebody stored a row that differs in more than its status. *)
Foreign(dirty) ==
    /\ imp' = Disturb(imp, 0)
    /\ settled' = {}
    /\ clean' = (clean /\ ~dirty)

(* The row that is stored takes back what somebody else wrote since. *)
TakesBack(row, i) ==
    i \in DOMAIN stories /\ \/ row.title # stories[i].title
                            \/ row.objective # stories[i].objective
                            \/ row.epic # stories[i].epic

-----------------------------------------------------------------------------
(* The executor.  updateStoryStatus(target), then what comes after it.     *)

AfterStatus(target) == IF target = "running" THEN "enter" ELSE "idle"

LaunchStory(i) ==
    /\ run.pc = "idle" /\ left.runs > 0 /\ i \in Live(stories)
    /\ run' = [NoRun EXCEPT !.pc = "load", !.story = i, !.target = "running"]
    /\ left' = [left EXCEPT !.runs = @ - 1]
    /\ UNCHANGED <<stories, epics, board, text, imp, settled, clean, connVars, connector, user,
                   jobs, audit, dropped>>

LoadStatus ==
    /\ run.pc = "load"
    /\ LET q == StoryRepoGetByID(stories, run.story)
       IN run' = IF Ok(q) THEN [run EXCEPT !.pc = "save", !.row = stories[q.id]]
                 ELSE [run EXCEPT !.pc = AfterStatus(run.target)]
    /\ UNCHANGED <<planVars, connVars, connector, user, jobs, audit, dropped>>

(* The whole row, as it was read, with the new status. *)
UpdateStoryStatus ==
    /\ run.pc = "save"
    /\ LET o == StoryRepoUpdate(stories, epics, run.story, [run.row EXCEPT !.status = run.target])
       IN /\ stories' = o.t
          /\ IF Ok(o) THEN Foreign(TakesBack(run.row, run.story))
             ELSE UNCHANGED <<imp, settled, clean>>
          /\ run' = [run EXCEPT !.row = NoRow,
                       !.pc = IF Ok(o) /\ run.target # "backlog" THEN "enqueue"
                              ELSE AfterStatus(run.target)]
    /\ UNCHANGED <<epics, board, text, left, connVars, connector, user, jobs, audit, dropped>>

NewJob(i, status) ==
    [story |-> i, status |-> status, pc |-> "queued", tries |-> 0, token |-> Nil,
     item |-> Nil, option |-> Nil]

(* Best effort: the mark or the job may be lost, and the run goes on. *)
EnqueueWriteBack ==
    /\ run.pc = "enqueue"
    /\ \E lost \in SUBSET {"mark", "job"} :
        /\ Cardinality(lost) <= left.faults
        /\ left' = [left EXCEPT !.faults = @ - Cardinality(lost)]
        /\ stories' = IF "mark" \in lost THEN stories
                      ELSE StoryRepoSetWritebackStatus(stories, run.story, "pending").t
        /\ jobs' = IF "job" \in lost THEN jobs ELSE Append(jobs, NewJob(run.story, run.target))
        /\ dropped' = IF "job" \in lost THEN dropped \cup {run.story} ELSE dropped
    /\ run' = [run EXCEPT !.pc = AfterStatus(run.target)]
    /\ UNCHANGED <<epics, board, text, imp, settled, clean, connVars, connector, user, audit>>

(* enterStage, and clearStoryCurrentStage when the run completes. *)
StoreStage(stage, pc) ==
    LET o == StoryRepoUpdateStage(stories, run.story, stage)
    IN /\ stories' = o.t
       /\ IF Ok(o) THEN Foreign(FALSE) ELSE UNCHANGED <<imp, settled, clean>>
       /\ run' = [run EXCEPT !.pc = pc]
       /\ UNCHANGED <<epics, board, text, left, connVars, connector, user, jobs, audit, dropped>>

EnterStage == run.pc = "enter" /\ StoreStage("build", "work")
ClearStage == run.pc = "clear" /\ StoreStage(Nil, "load")

(* Completion clears the stage first; failure and cancellation keep it. *)
RunEnds(target) ==
    /\ run.pc = "work"
    /\ run' = [run EXCEPT !.target = target, !.pc = IF target = "done" THEN "clear" ELSE "load"]
    /\ UNCHANGED <<planVars, connVars, connector, user, jobs, audit, dropped>>

-----------------------------------------------------------------------------
(* The users.                                                              *)

UserVars == <<board, text, connVars, connector, run, jobs, audit, dropped>>

UserReads(i, patch) ==
    /\ user.pc = "idle" /\ left.edits > 0
    /\ Ok(StoryServiceLoad(stories, i))
    /\ user' = [pc |-> "save", story |-> i, row |-> stories[i], patch |-> patch]
    /\ left' = [left EXCEPT !.edits = @ - 1]
    /\ UNCHANGED <<stories, epics, imp, settled, clean, UserVars>>

UserSaves ==
    /\ user.pc = "save"
    /\ LET r == UpdateStoryRequest(stories, epics, "admin", user.story, user.row, user.patch)
       IN /\ stories' = r.t
          /\ IF r.status = 200 THEN Foreign(TRUE) ELSE UNCHANGED <<imp, settled, clean>>
    /\ user' = NoEdit
    /\ UNCHANGED <<epics, left, UserVars>>

UserDeletes(i) ==
    /\ left.edits > 0
    /\ stories' = DeleteStoryRequest(stories, "admin", i).t
    /\ Foreign(TRUE)
    /\ left' = [left EXCEPT !.edits = @ - 1]
    /\ UNCHANGED <<epics, user, UserVars>>

(* The epic's stories lose their epic. *)
UserDeletesEpic(e) ==
    /\ left.edits > 0 /\ user.pc = "idle"
    /\ epics' = DeleteEpicRequest(epics, "admin", e).t
    /\ stories' = OrphanStories(stories, e)
    /\ Foreign(TRUE)
    /\ left' = [left EXCEPT !.edits = @ - 1]
    /\ UNCHANGED <<user, UserVars>>

UserCreates(s) ==
    /\ left.edits > 0 /\ user.pc = "idle"
    /\ stories' = CreateStoryRequest(stories, epics, "admin", s).t
    /\ Foreign(TRUE)
    /\ left' = [left EXCEPT !.edits = @ - 1]
    /\ UNCHANGED <<epics, user, UserVars>>

(* The same for an epic; `story' then holds its id. *)
UserReadsEpic(e, patch) ==
    /\ user.pc = "idle" /\ left.edits > 0
    /\ Ok(EpicRepoGetByID(epics, e))
    /\ user' = [pc |-> "save epic", story |-> e, row |-> epics[e], patch |-> patch]
    /\ left' = [left EXCEPT !.edits = @ - 1]
    /\ UNCHANGED <<stories, epics, imp, settled, clean, UserVars>>

UserSavesEpic ==
    /\ user.pc = "save epic"
    /\ LET r == UpdateEpicRequest(epics, "admin", user.story, user.row, user.patch)
       IN /\ epics' = r.t
          /\ IF r.status = 200 THEN Foreign(TRUE) ELSE UNCHANGED <<imp, settled, clean>>
    /\ user' = NoEdit
    /\ UNCHANGED <<stories, left, UserVars>>

UserCreatesEpic(e) ==
    /\ left.edits > 0 /\ user.pc = "idle"
    /\ epics' = CreateEpicRequest(epics, "admin", e).t
    /\ Foreign(TRUE)
    /\ left' = [left EXCEPT !.edits = @ - 1]
    /\ UNCHANGED <<stories, user, UserVars>>

EpicsOn(items) ==
    LET on == FetchBoard(items, "Status", "Epic").epics IN {on[k].ext : k \in DOMAIN on}

(* The tracker's users change an item or move it; authors edit the text. *)
BoardEdited(items) ==
    /\ left.edits > 0
    /\ board' = items
    /\ Foreign(EpicsOn(items) # EpicsOn(board))
    /\ left' = [left EXCEPT !.edits = @ - 1]
    /\ UNCHANGED <<stories, epics, text, user, connVars, connector, run, jobs, audit, dropped>>

-----------------------------------------------------------------------------
(* The worker.                                                             *)

WorkVars == <<epics, text, connector, run, user>>

(* Why nothing is pushed at all. *)
Disabled(row, status) ==
    \/ ~connector.live \/ ~connector.enabled
    \/ connector.source # GitHub \/ row.source # GitHub
    \/ OptionFor(connector.mapping, status) = Nil

(* Mutant of RecordOutcome: a write-back that is off leaves no mark. *)
RecordPushOnly(j, mark) ==
    /\ jobs' = [jobs EXCEPT ![j].pc = "done", ![j].token = Nil]
    /\ stories' = IF mark = "disabled" THEN stories
                  ELSE StoryRepoSetWritebackStatus(stories, jobs[j].story, mark).t
    /\ UNCHANGED <<left, audit, dropped>>

(* recordSuccess, recordFailure, markDisabled: the mark, then the audit row, *)
(* both best effort.  An attempt whose two minutes are over loses both.     *)
RecordOutcome(j, mark) ==
    /\ jobs' = [jobs EXCEPT ![j].pc = "done", ![j].token = Nil]
    /\ \E lost \in SUBSET {"mark", "row"} :
        /\ Cardinality(lost) <= left.faults
        /\ left' = [left EXCEPT !.faults = @ - Cardinality(lost)]
        /\ stories' = IF "mark" \in lost THEN stories
                      ELSE StoryRepoSetWritebackStatus(stories, jobs[j].story, mark).t
        /\ audit' = IF "row" \in lost \/ mark = "disabled" THEN audit
                    ELSE Append(audit, [story |-> jobs[j].story, success |-> mark = "synced"])
        /\ dropped' = IF "mark" \in lost THEN dropped \cup {jobs[j].story} ELSE dropped

(* Mutant of RetryLater: no limit on the attempts. *)
RetryForever(j) ==
    /\ jobs' = [jobs EXCEPT ![j].tries = @ + 1, ![j].token = Nil, ![j].pc = "queued"]
    /\ UNCHANGED <<stories, audit, dropped>>

(* A transient error: River retries, with backoff, or gives up. *)
RetryLater(j) ==
    LET tried == jobs[j].tries + 1
    IN /\ jobs' = [jobs EXCEPT ![j].tries = tried, ![j].token = Nil,
                               ![j].pc = IF tried >= Attempts THEN "discarded" ELSE "queued"]
       /\ UNCHANGED <<stories, audit, dropped>>

(* SyncStatus, up to the first remote call. *)
SyncStatus(j) ==
    LET w == jobs[j]
        q == StoryRepoGetByID(stories, w.story)
        row == stories[w.story]
        t == TokenForProject(conn)
    IN /\ w.pc = "queued"
       /\ \/ /\ ~Ok(q)
             /\ jobs' = [jobs EXCEPT ![j].pc = "done"]
             /\ UNCHANGED <<stories, audit, dropped, left, conn>>
          \/ /\ Ok(q) /\ Disabled(row, w.status)
             /\ RecordOutcome(j, "disabled")
             /\ UNCHANGED conn
          \/ /\ Ok(q) /\ ~Disabled(row, w.status)
             /\ row.item = Nil \/ ~connector.url
             /\ RecordOutcome(j, "failed")
             /\ UNCHANGED conn
          \/ /\ Ok(q) /\ ~Disabled(row, w.status) /\ row.item # Nil /\ connector.url
             /\ conn' = t.conn
             /\ IF t.token = Nil THEN RecordOutcome(j, "failed")
                ELSE /\ jobs' = [jobs EXCEPT ![j].pc = "resolve", ![j].token = t.token,
                              ![j].item = row.item,
                              ![j].option = OptionFor(connector.mapping, w.status)]
                     /\ UNCHANGED <<stories, audit, dropped, left>>
       /\ UNCHANGED <<imp, settled, clean, board, WorkVars, key, provider, remote, ops, accepted, refused,
                      raced, connLeft>>

(* The audit code of an error: 401 and 403 come before a rate limit. *)
ClassifyWriteBackError(err) ==
    CASE err = "401" -> "UNAUTHORIZED"
      [] err \in {"403", "403 rate limit"} -> "FORBIDDEN"
      [] err = "429" -> "RATE_LIMITED"
      [] err = "5xx" -> "SERVER_ERROR"
      [] OTHER -> "WRITE_BACK_ERROR"

IsTransient(code) == code \in {"RATE_LIMITED", "SERVER_ERROR"}

(* What an attempt does with the error of a remote call. *)
AttemptFailed(j, answer, err) ==
    CASE IsTransient(ClassifyWriteBackError(err)) -> RetryLater(j) /\ SpendFault(answer)
      [] ~IsTransient(ClassifyWriteBackError(err)) /\ answer \in Passing \cup {"lost"} ->
            /\ jobs' = [jobs EXCEPT ![j].pc = "done"]
            /\ stories' = StoryRepoSetWritebackStatus(stories, jobs[j].story, "failed").t
            /\ audit' = Append(audit, [story |-> jobs[j].story, success |-> FALSE])
            /\ left' = [left EXCEPT !.faults = @ - 1]
            /\ UNCHANGED dropped
      [] OTHER -> RecordOutcome(j, "failed")

Advance(j, pc) ==
    /\ jobs' = [jobs EXCEPT ![j].pc = pc]
    /\ UNCHANGED <<stories, audit, dropped, left>>

(* The two lookups before the mutation: the board, then its status field. *)
FindBoard(j) ==
    /\ jobs[j].pc = "resolve"
    /\ \E answer \in QueryAnswers(jobs[j].token) :
        LET err == ResolveProjectID(answer)
        IN /\ Heal(jobs[j].token, err)
           /\ IF err = "ok" THEN Advance(j, "field") ELSE AttemptFailed(j, answer, err)
    /\ UNCHANGED <<imp, settled, clean, board, WorkVars>>

StatusOptions(j) ==
    /\ jobs[j].pc = "field"
    /\ \E answer \in QueryAnswers(jobs[j].token) :
        /\ Heal(jobs[j].token, answer)
        /\ IF answer = "ok" THEN Advance(j, "push") ELSE AttemptFailed(j, answer, answer)
    /\ UNCHANGED <<imp, settled, clean, board, WorkVars>>

(* The board after the mutation. *)
SetField(items, item, option) ==
    [k \in DOMAIN items |->
        IF items[k].id = item THEN [items[k] EXCEPT !.fields =
            [f \in DOMAIN @ \cup {"Status"} |-> IF f = "Status" THEN option ELSE @[f]]]
        ELSE items[k]]

(* The mutation and the comment.  The item and the option are those of the  *)
(* attempt's start; its answer may be lost after its effect.                *)
PushStatus(j) ==
    LET w == jobs[j]
        found == \E k \in DOMAIN board : board[k].id = w.item
        pushed == SetField(board, w.item, w.option)
    IN /\ w.pc = "push"
       /\ \E answer \in QueryAnswers(w.token) \cup (IF left.faults > 0 THEN {"lost"} ELSE {}) :
           LET err == IF answer = "ok" /\ ~found THEN "no item" ELSE answer
           IN /\ Heal(w.token, err)
              /\ board' = IF err \in {"ok", "lost"} THEN pushed ELSE board
              /\ IF board' # board THEN Foreign(EpicsOn(pushed) # EpicsOn(board))
                 ELSE UNCHANGED <<imp, settled, clean>>
              /\ IF err = "ok" THEN RecordOutcome(j, "synced") ELSE AttemptFailed(j, answer, err)
       /\ UNCHANGED WorkVars

WriteBackStep(j) == SyncStatus(j) \/ FindBoard(j) \/ StatusOptions(j) \/ PushStatus(j)
===============================================================================
