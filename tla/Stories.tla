------------------------------ MODULE Stories -------------------------------
(***************************************************************************)
(* The stories and epics of one project: the statements, the repositories  *)
(* over them, the services and the HTTP handlers.  Everything here is a    *)
(* function of the two tables; PlanningImport and WriteBack supply them    *)
(* and the interleaving.                                                   *)
(*                                                                         *)
(* A story keeps its key, its title, `objective' (which stands for the     *)
(* optional texts that an import preserves when the source omits them),    *)
(* its epic, status and stage, and its provenance: source, ext             *)
(* (external_id), item (external_item_id), hash (last_import_hash) and     *)
(* wb (writeback_status).                                                  *)
(***************************************************************************)
EXTENDS Tables

StoryStatuses == {"backlog", "running", "done", "failed"}
EpicStatuses == {"backlog", "in_progress", "done"}

NoHash == <<>>
NoKey == [repo |-> Nil, number |-> Nil, suffix |-> Nil]

(* A key is [repo, number, suffix]; storyKeyPattern accepts all but a       *)
(* malformed one.                                                           *)
KeyOk(key) == key.repo \notin {Nil, "malformed"}

SameRef(a, b) == a.ext # Nil /\ a.source = b.source /\ a.ext = b.ext

(* stories_uq_project_key and stories_uq_source_external. *)
StoryClash(a, b) == a.key = b.key \/ SameRef(a, b)
(* epics_uq_project_name and epics_uq_source_external. *)
EpicClash(a, b) == a.name = b.name \/ SameRef(a, b)

-----------------------------------------------------------------------------
(* Statements on stories.                                                  *)

GetStory(S, i) == IF i \in Live(S) THEN Outcome(S, i, "none") ELSE Refused(S, "no_rows")

GetStoryByKey(S, key) == One(S, LAMBDA r : r.key = key)

GetStoryBySourceRef(S, source, ext) ==
    One(S, LAMBDA r : r.source = source /\ r.ext = ext)

CreateStory(S, s) ==
    Insert(S, [live |-> TRUE, key |-> s.key, title |-> s.title,
               objective |-> s.objective, epic |-> s.epic, status |-> s.status,
               stage |-> Nil, source |-> "manual", ext |-> Nil, item |-> Nil,
               hash |-> NoHash, wb |-> Nil], StoryClash)

CreateStoryFromImport(S, s) ==
    Insert(S, [live |-> TRUE, key |-> s.key, title |-> s.title,
               objective |-> s.objective, epic |-> s.epic, status |-> s.status,
               stage |-> Nil, source |-> s.source, ext |-> s.ext, item |-> s.item,
               hash |-> s.hash, wb |-> Nil], StoryClash)

UpdateStory(S, i, s) ==
    IF i \notin Live(S) THEN Refused(S, "no_rows")
    ELSE Change(S, i, [S[i] EXCEPT !.title = Coalesce(s.title, @),
                                   !.objective = Coalesce(s.objective, @),
                                   !.status = Coalesce(s.status, @),
                                   !.epic = IF s.epic = 0 THEN @ ELSE s.epic],
                StoryClash)

UpdateStoryCurrentStage(S, i, stage) ==
    IF i \notin Live(S) THEN Refused(S, "no_rows")
    ELSE Change(S, i, [S[i] EXCEPT !.stage = stage], StoryClash)

UpdateStoryFromImport(S, i, s) ==
    IF i \notin Live(S) THEN Refused(S, "no_rows")
    ELSE Change(S, i, [S[i] EXCEPT !.title = s.title, !.objective = s.objective,
                                   !.status = s.status, !.epic = s.epic,
                                   !.source = s.source, !.ext = s.ext,
                                   !.item = s.item, !.hash = s.hash], StoryClash)

UpdateStoryProvenanceOnly(S, i, s) ==
    IF i \notin Live(S) THEN Refused(S, "no_rows")
    ELSE Change(S, i, [S[i] EXCEPT !.title = s.title, !.source = s.source,
                                   !.ext = s.ext, !.item = s.item], StoryClash)

SetStoryWritebackStatus(S, i, w) ==
    Outcome([j \in DOMAIN S |-> IF j = i THEN [S[j] EXCEPT !.wb = w] ELSE S[j]],
            i, "none")

DeleteStory(S, i) == Erase(S, i)

ListStoriesByProject(S, limit, offset) ==
    ListWhere(S, LAMBDA r : TRUE, limit, offset)

ListStoriesByStatus(S, statuses, limit, offset) ==
    ListWhere(S, LAMBDA r : r.status \in statuses, limit, offset)

ListStoriesByEpic(S, e, limit, offset) ==
    ListWhere(S, LAMBDA r : r.epic = e, limit, offset)

CountStoriesByProject(S) == CountWhere(S, LAMBDA r : TRUE)

CountStoriesByStatus(S, statuses) == CountWhere(S, LAMBDA r : r.status \in statuses)

CountStoriesByEpicGroupedByStatus(S, e) ==
    [s \in StoryStatuses |-> CountWhere(S, LAMBDA r : r.epic = e /\ r.status = s)]

-----------------------------------------------------------------------------
(* Statements on epics.                                                    *)

GetEpic(E, i) == IF i \in Live(E) THEN Outcome(E, i, "none") ELSE Refused(E, "no_rows")

GetEpicByName(E, name) == One(E, LAMBDA r : r.name = name)

GetEpicBySourceRef(E, source, ext) ==
    One(E, LAMBDA r : r.source = source /\ r.ext = ext)

CreateEpic(E, e) ==
    Insert(E, [live |-> TRUE, name |-> e.name, status |-> e.status,
               source |-> "manual", ext |-> Nil], EpicClash)

CreateEpicFromImport(E, e) ==
    Insert(E, [live |-> TRUE, name |-> e.name, status |-> e.status,
               source |-> e.source, ext |-> e.ext], EpicClash)

UpdateEpic(E, i, e) ==
    IF i \notin Live(E) THEN Refused(E, "no_rows")
    ELSE Change(E, i, [E[i] EXCEPT !.name = Coalesce(e.name, @),
                                   !.status = Coalesce(e.status, @)], EpicClash)

UpdateEpicFromImport(E, i, e) ==
    IF i \notin Live(E) THEN Refused(E, "no_rows")
    ELSE Change(E, i, [E[i] EXCEPT !.name = e.name, !.status = e.status,
                                   !.source = e.source, !.ext = e.ext], EpicClash)

DeleteEpic(E, i) == Erase(E, i)

ListEpicsByProject(E, limit, offset) == ListWhere(E, LAMBDA r : TRUE, limit, offset)

CountEpicsByProject(E) == CountWhere(E, LAMBDA r : TRUE)

(* stories.epic_id: ON DELETE SET NULL. *)
OrphanStories(S, e) ==
    [i \in DOMAIN S |-> IF S[i].epic = e THEN [S[i] EXCEPT !.epic = 0] ELSE S[i]]
=============================================================================
