---------------------------- MODULE PlanningImport ----------------------------
(***************************************************************************)
(* Planning imports over the tables, statement by statement: the source is *)
(* resolved and fetched, then every epic and every story is looked up,     *)
(* decided on the row that was read, and written.  Between two statements  *)
(* other imports, the executor and the users write the same rows.          *)
(***************************************************************************)
EXTENDS Planning, GitActions

CONSTANTS Imports,      \* concurrent imports
          DoneOptions   \* the status options that mean done

ASSUME ImportsAssumption == 0 \notin Imports

VARIABLES stories, epics,   \* the two tables of the project
          board,        \* the GitHub Projects board: its items in order
          text,         \* the markdown document: its blocks in order
          imp,          \* import -> its progress
          left,         \* budgets of imports, statement faults, edits, launches
          settled,      \* history: the sources a clean import left up to date
          clean         \* history: no item failed, nobody else wrote a story, and
                        \* no title was stored beside the hash of another

planVars == <<stories, epics, board, text, imp, left, settled, clean>>

NoRow == [live |-> FALSE]
NoCfg == [source |-> Nil]
IdleImport ==
    [pc |-> "idle", cfg |-> NoCfg, token |-> Nil, epics |-> <<>>, stories |-> <<>>,
     id |-> 0, row |-> NoRow, key |-> NoKey, n |-> 0, epicOf |-> <<>>, log |-> <<>>,
     quiet |-> TRUE, re |-> FALSE]

Github(dry) == [source |-> GitHub, dry |-> dry, done |-> DoneOptions, ok |-> TRUE]
Document(dry) == [source |-> Markdown, dry |-> dry, done |-> {}, ok |-> text # <<>>]

-----------------------------------------------------------------------------
(* History.                                                                *)

(* Somebody wrote: no import that is under way or over is quiet any more. *)
Disturb(t, except) ==
    [p \in Imports |-> IF p = except THEN t[p] ELSE [t[p] EXCEPT !.quiet = FALSE]]

Running(t) == {p \in Imports : t[p].pc \notin {"idle", "over"}}

Wrote(log) == \E k \in DOMAIN log : log[k] \in {"create", "update", "refresh", "backfill"}
Failed(log) == \E k \in DOMAIN log : log[k] \in {"fail", "SOURCE_ERROR"}

-----------------------------------------------------------------------------
(* Starting and fetching.                                                  *)

ImportPlanning(p, role, cfg) ==
    /\ imp[p].pc \in {"idle", "over"}
    /\ left.imports > 0
    /\ AsAdmin(role, Outcome(<<>>, 0, "ok")).err = "ok"
    /\ ConfigOk(cfg)
    /\ imp' = [imp EXCEPT ![p] =
                 [IdleImport EXCEPT !.pc = "source", !.cfg = cfg,
                                    !.quiet = Running(imp) = {},
                                    !.re = cfg.source \in settled]]
    /\ left' = [left EXCEPT !.imports = @ - 1]
    /\ UNCHANGED <<stories, epics, board, text, settled, clean, connVars>>

Stop(p, why) == imp' = [imp EXCEPT ![p].pc = "over", ![p].log = Append(@, why)]

(* What the loop over the items does next. *)
Goto(i, log) ==
    [i EXCEPT !.log = log, !.id = 0, !.row = NoRow, !.key = NoKey, !.n = 0,
              !.pc = IF Len(i.epics) > 0 THEN "epic" ELSE IF Len(i.stories) > 0 THEN "story" ELSE "over"]

(* For: markdown needs no credential, GitHub the token of the project. *)
For(p) ==
    LET i == imp[p]
        t == TokenForProject(conn)
    IN /\ i.pc = "source"
       /\ IF i.cfg.source = Markdown
          THEN /\ imp' = [imp EXCEPT ![p] =
                    Goto([i EXCEPT !.epics = MarkdownEpics(text), !.stories = MarkdownStories(text)], <<>>)]
               /\ UNCHANGED conn
          ELSE /\ conn' = t.conn
               /\ IF t.token = Nil THEN Stop(p, "SOURCE_ERROR")
                  ELSE imp' = [imp EXCEPT ![p].pc = "resolve", ![p].token = t.token]
       /\ UNCHANGED <<stories, epics, board, text, left, settled, clean, key, provider, remote, ops,
                      accepted, refused, raced, connLeft>>

(* Faults of the tracker that say nothing of the credential, after the      *)
(* retries of rateLimitRetryTransport.                                     *)
Passing == {"429", "5xx", "403 rate limit"}

(* What a GraphQL query with this token may answer. *)
QueryAnswers(token) ==
    {OperationError(token)} \cup (IF left.faults > 0 THEN Passing ELSE {})

(* resolveProjectID: whatever went wrong, the error says that the board    *)
(* was not found or is inaccessible.                                       *)
ResolveProjectID(answer) == IF answer = "ok" THEN "ok" ELSE "not found or inaccessible"

SpendFault(answer) ==
    left' = [left EXCEPT !.faults = IF answer \in Passing THEN @ - 1 ELSE @]

(* reconcilingAdapter and reconcilingSink. *)
Heal(token, err) ==
    /\ conn' = ReconcileFromOperationError(conn, err)
    /\ IF ClassifyOperationError(err) = Nil THEN UNCHANGED raced ELSE NoteRace(token)
    /\ NoteRefusal(token, err)
    /\ UNCHANGED <<key, provider, remote, ops, accepted, connLeft>>

Resolve(p) ==
    /\ imp[p].pc = "resolve"
    /\ \E answer \in QueryAnswers(imp[p].token) :
        /\ SpendFault(answer)
        /\ Heal(imp[p].token, ResolveProjectID(answer))
        /\ IF ResolveProjectID(answer) = "ok" THEN imp' = [imp EXCEPT ![p].pc = "items"]
           ELSE Stop(p, "SOURCE_ERROR")
    /\ UNCHANGED <<stories, epics, board, text, settled, clean>>

Fetch(p) ==
    LET i == imp[p]
    IN /\ i.pc = "items"
       /\ \E answer \in QueryAnswers(i.token) :
           /\ SpendFault(answer)
           /\ Heal(i.token, answer)
           /\ IF answer = "ok"
              THEN LET res == FetchBoard(board, "Status", "Epic")
                   IN imp' = [imp EXCEPT ![p] =
                        Goto([i EXCEPT !.epics = res.epics, !.stories = res.stories], <<>>)]
              ELSE Stop(p, "SOURCE_ERROR")
       /\ UNCHANGED <<stories, epics, board, text, settled, clean>>

-----------------------------------------------------------------------------
(* Items.                                                                  *)

(* The current item is done. *)
NextEpic(p, i, why) == [imp EXCEPT ![p] = Goto([i EXCEPT !.epics = Tail(@)], Append(i.log, why))]
NextStory(p, i, why) == [imp EXCEPT ![p] = Goto([i EXCEPT !.stories = Tail(@)], Append(i.log, why))]
Link(i, ext, e) == [i EXCEPT !.epicOf = [x \in DOMAIN @ \cup {ext} |-> IF x = ext THEN e ELSE @[x]]]

(* A clean import ends: its source is settled, unless it was a dry run. *)
Settle(t) ==
    LET done == {p \in Imports : imp[p].pc # "over" /\ t[p].pc = "over"}
        good == {p \in done : t[p].quiet /\ ~Failed(t[p].log) /\ ~t[p].cfg.dry}
        src == {t[p].cfg.source : p \in good}
    IN settled \cup src

(* A step that reads only. *)
Reads(t) ==
    /\ imp' = t
    /\ settled' = Settle(t)
    /\ UNCHANGED <<stories, epics, board, text, left, clean, connVars>>

(* A statement fails: the item is counted failed and the batch goes on. *)
ItemFault(p) ==
    LET i == imp[p]
        t == IF i.pc \in {"epic", "epicName", "epicWrite"} THEN NextEpic(p, i, "fail")
             ELSE NextStory(p, i, "fail")
    IN /\ left.faults > 0
       /\ i.pc \in {"epic", "epicName", "epicWrite", "story", "storyKey", "storyWrite"}
       /\ imp' = t
       /\ settled' = Settle(t)
       /\ clean' = FALSE
       /\ left' = [left EXCEPT !.faults = @ - 1]
       /\ UNCHANGED <<stories, epics, board, text, connVars>>

(* importEpic, the lookup by source reference. *)
EpicByRef(p) ==
    LET i == imp[p]
        ie == Head(i.epics)
        q == EpicRepoGetBySourceRef(epics, i.cfg.source, ie.ext)
    IN /\ i.pc = "epic"
       /\ Reads(IF ~Ok(q) THEN [imp EXCEPT ![p].pc = "epicName"]
                ELSE IF ~EpicChanged(epics[q.id], EpicTarget(i.cfg, ie, epics[q.id]))
                     THEN NextEpic(p, Link(i, ie.ext, q.id), "skip")
                     ELSE [imp EXCEPT ![p].pc = "epicWrite", ![p].id = q.id,
                                      ![p].row = epics[q.id]])

(* importEpic, adoption by name: an epic made in the app is adopted, one   *)
(* that another item owns is linked and left alone.                        *)
EpicByName(p) ==
    LET i == imp[p]
        ie == Head(i.epics)
        q == EpicRepoGetByName(epics, ie.name)
    IN /\ i.pc = "epicName"
       /\ Reads(IF ~Ok(q) THEN [imp EXCEPT ![p].pc = "epicWrite", ![p].id = 0]
                ELSE IF Adopts(epics[q.id])
                     THEN [imp EXCEPT ![p].pc = "epicWrite", ![p].id = q.id,
                                      ![p].row = epics[q.id]]
                     ELSE NextEpic(p, Link(i, ie.ext, q.id), "link"))

(* A step that ran a write: its outcome, the next table of imports, and     *)
(* whether it stored a title that the hash beside it does not cover.        *)
Writes(p, o, t, uncovered) ==
    /\ imp' = Disturb(t, p)
    /\ settled' = Settle(Disturb(t, p))
    /\ clean' = (clean /\ Ok(o) /\ ~uncovered)
    /\ UNCHANGED <<board, text, left, connVars>>

(* createEpic and writeEpicUpdate.  An update links the children first,    *)
(* and whether it then succeeds or not.                                    *)
EpicWrite(p) ==
    LET i == imp[p]
        ie == Head(i.epics)
        o == IF i.id = 0 THEN EpicRepoCreateFromImport(epics, NewEpic(i.cfg, ie))
             ELSE EpicRepoUpdateFromImport(epics, i.id, EpicTarget(i.cfg, ie, i.row))
        e == IF i.id # 0 THEN i.id ELSE o.id
        linked == IF e = 0 THEN i ELSE Link(i, ie.ext, e)
        act == IF i.id = 0 THEN "create" ELSE "update"
    IN /\ i.pc = "epicWrite"
       /\ IF i.cfg.dry
          THEN /\ imp' = NextEpic(p, IF i.id = 0 THEN i ELSE linked, act)
               /\ UNCHANGED <<stories, epics, board, text, left, settled, clean, connVars>>
          ELSE /\ epics' = o.t
               /\ Writes(p, o, NextEpic(p, linked, IF Ok(o) THEN act ELSE "fail"), FALSE)
               /\ UNCHANGED stories

(* importStory and resolveStoryIdentity. *)
StoryByIdentity(p) ==
    LET i == imp[p]
        is == Head(i.stories)
        q == IF i.cfg.source = Markdown THEN StoryRepoGetByKey(stories, is.key)
             ELSE StoryRepoGetBySourceRef(stories, i.cfg.source, is.ext)
        found == [imp EXCEPT ![p].pc = "storyWrite", ![p].id = q.id, ![p].row = stories[q.id]]
    IN /\ i.pc = "story"
       /\ Reads(CASE ItemError(is) # Nil -> NextStory(p, i, "fail")
                  [] ItemError(is) = Nil /\ Ok(q) ->
                        IF KeyTakenByRemote(i.cfg, stories[q.id]) THEN NextStory(p, i, "fail")
                        ELSE found
                  [] ItemError(is) = Nil /\ ~Ok(q) /\ i.cfg.source = Markdown ->
                        [imp EXCEPT ![p].pc = "storyWrite", ![p].key = is.key]
                  [] OTHER -> [imp EXCEPT ![p].pc = "storyKey", ![p].key = is.key])

(* resolveRemoteCreateKey: one lookup of its loop of eight. *)
ResolveKey(p) ==
    LET i == imp[p]
        is == Head(i.stories)
        q == StoryRepoGetByKey(stories, i.key)
        free == ~Ok(q) \/ (stories[q.id].source = i.cfg.source /\ stories[q.id].ext = is.ext)
    IN /\ i.pc = "storyKey"
       /\ Reads(IF free \/ i.n = 8 THEN [imp EXCEPT ![p].pc = "storyWrite"]
                ELSE [imp EXCEPT ![p].key = DisambiguateKey(is.key, is.ext, i.n),
                                 ![p].n = @ + 1])

(* The statement gave the row another title. *)
Retitled(t, id) == id \in DOMAIN stories /\ t[id].title # stories[id].title

(* createStory and updateStory: decided on the row that was read. *)
StoryWrite(p) ==
    LET i == imp[p]
        is == Head(i.stories)
        parent == IF is.epic # Nil /\ is.epic \in DOMAIN i.epicOf THEN i.epicOf[is.epic] ELSE 0
        act == IF i.id = 0 THEN "create" ELSE StoryDecision(i.cfg, is, i.row)
        o == CASE act = "create" ->
                    StoryRepoCreateFromImport(stories, epics, NewStory(i.cfg, is, i.key, parent))
               [] act = "update" ->
                    StoryRepoUpdateFromImport(stories, epics, i.id, Merged(i.cfg, is, i.row, parent))
               [] act = "refresh" ->
                    StoryRepoUpdateProvenanceOnly(stories, i.id, Provenance(i.cfg, is, i.row))
               [] act = "backfill" ->
                    StoryRepoUpdateProvenanceOnly(stories, i.id, [i.row EXCEPT !.item = is.item])
               [] OTHER -> Outcome(stories, i.id, "ok")
    IN /\ i.pc = "storyWrite"
       /\ IF i.cfg.dry \/ act \in {"skip", "lock"}
          THEN Reads(NextStory(p, i, act))
          ELSE /\ stories' = o.t
               /\ Writes(p, o, NextStory(p, i, IF Ok(o) THEN act ELSE "fail"),
                         act \in {"refresh", "backfill"} /\ Retitled(o.t, i.id))
               /\ UNCHANGED epics

ImportStep(p) ==
    \/ For(p) \/ Resolve(p) \/ Fetch(p)
    \/ EpicByRef(p) \/ EpicByName(p) \/ EpicWrite(p)
    \/ StoryByIdentity(p) \/ ResolveKey(p) \/ StoryWrite(p)
===============================================================================
