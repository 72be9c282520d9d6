------------------------------ MODULE StoryApi ------------------------------
(***************************************************************************)
(* Stories and epics through the repositories, the services and the HTTP   *)
(* handlers.  Every method yields an Outcome; a handler yields the HTTP    *)
(* status beside it.  Update is read-modify-write: it is split in the read *)
(* (...Load) and the write of the whole row (...Save), because other       *)
(* writers run between them.                                               *)
(***************************************************************************)
EXTENDS Stories

(* Repositories: the statement, its error translated.  A write whose epic   *)
(* was deleted meanwhile violates the foreign key, no special case here.    *)
WithEpic(S, E, s, o) ==
    IF s.epic # 0 /\ s.epic \notin Live(E) THEN Refused(S, "internal") ELSE o

StoryRepoCreate(S, E, s) == WithEpic(S, E, s, Repo(CreateStory(S, s)))
StoryRepoGetByID(S, i) == Repo(GetStory(S, i))
StoryRepoGetByKey(S, key) == Repo(GetStoryByKey(S, key))
StoryRepoGetBySourceRef(S, source, ext) == Repo(GetStoryBySourceRef(S, source, ext))
StoryRepoUpdate(S, E, i, s) == WithEpic(S, E, s, Repo(UpdateStory(S, i, s)))
StoryRepoUpdateStage(S, i, stage) == Repo(UpdateStoryCurrentStage(S, i, stage))
StoryRepoDelete(S, i) == RepoExec(DeleteStory(S, i))
StoryRepoUpdateFromImport(S, E, i, s) ==
    WithEpic(S, E, s, Repo(UpdateStoryFromImport(S, i, s)))
StoryRepoUpdateProvenanceOnly(S, i, s) ==
    LET q == UpdateStoryProvenanceOnly(S, i, s)
    IN IF q.err = "unique" THEN [q EXCEPT !.err = "internal"] ELSE Repo(q)
StoryRepoSetWritebackStatus(S, i, w) == RepoExec(SetStoryWritebackStatus(S, i, w))
StoryRepoListByProject(S, limit, offset) == ListStoriesByProject(S, limit, offset)
StoryRepoListByStatus(S, st, limit, offset) == ListStoriesByStatus(S, st, limit, offset)
StoryRepoListByEpic(S, e, limit, offset) == ListStoriesByEpic(S, e, limit, offset)
StoryRepoCountByStatus(S, st) == CountStoriesByStatus(S, st)
StoryRepoCountByEpic(S, e) == CountStoriesByEpicGroupedByStatus(S, e)

StoryRepoCreateFromImport(S, E, s) ==
    WithEpic(S, E, s, Repo(CreateStoryFromImport(S, s)))

EpicRepoCreate(E, e) == Repo(CreateEpic(E, e))
EpicRepoGetByID(E, i) == Repo(GetEpic(E, i))
EpicRepoGetByName(E, name) == Repo(GetEpicByName(E, name))
EpicRepoGetBySourceRef(E, source, ext) == Repo(GetEpicBySourceRef(E, source, ext))
EpicRepoUpdate(E, i, e) == Repo(UpdateEpic(E, i, e))
EpicRepoCreateFromImport(E, e) == Repo(CreateEpicFromImport(E, e))
EpicRepoUpdateFromImport(E, i, e) == Repo(UpdateEpicFromImport(E, i, e))
EpicRepoDelete(E, i) == RepoExec(DeleteEpic(E, i))
EpicRepoListByProject(E, limit, offset) == ListEpicsByProject(E, limit, offset)

-----------------------------------------------------------------------------
(* Services.                                                               *)

MaxPerPage == 100

(* An empty status means backlog. *)
WithStatus(s) == [s EXCEPT !.status = IF @ = Nil THEN "backlog" ELSE @]

StoryServiceCreate(S, E, s) ==
    IF ~KeyOk(s.key) \/ s.title = Nil \/ WithStatus(s).status \notin StoryStatuses
    THEN Invalid(S)
    ELSE StoryRepoCreate(S, E, WithStatus(s))

StoryServiceLoad(S, i) == StoryRepoGetByID(S, i)

(* The row that Save writes: the one that was loaded, with the fields the  *)
(* request carries.                                                        *)
Patched(row, patch) ==
    [row EXCEPT !.title = Coalesce(patch.title, @),
                !.objective = Coalesce(patch.objective, @),
                !.status = Coalesce(patch.status, @),
                !.epic = IF patch.epic = 0 THEN @ ELSE patch.epic]

StoryServiceSave(S, E, i, row, patch) ==
    IF patch.title = "empty" \/ patch.status \notin StoryStatuses \cup {Nil}
    THEN Invalid(S)
    ELSE StoryRepoUpdate(S, E, i, Patched(row, patch))

StoryServiceDelete(S, i) ==
    IF Ok(StoryRepoGetByID(S, i)) THEN StoryRepoDelete(S, i)
    ELSE StoryRepoGetByID(S, i)

StoryServiceListByProject(S, page, perPage) ==
    LET limit == Limit(perPage, MaxPerPage)
    IN [rows |-> StoryRepoListByProject(S, limit, Offset(page, limit)),
        total |-> CountStoriesByProject(S)]

StoryServiceListByStatus(S, statuses, page, perPage) ==
    LET limit == Limit(perPage, MaxPerPage)
    IN [rows |-> StoryRepoListByStatus(S, statuses, limit, Offset(page, limit)),
        total |-> StoryRepoCountByStatus(S, statuses)]

StoryServiceListByEpic(S, e, page, perPage) ==
    LET limit == Limit(perPage, MaxPerPage)
        n == StoryRepoCountByEpic(S, e)
    IN [rows |-> StoryRepoListByEpic(S, e, limit, Offset(page, limit)),
        total |-> n["backlog"] + n["running"] + n["done"] + n["failed"]]

EpicServiceCreate(E, e) ==
    IF e.name = Nil \/ WithStatus(e).status \notin EpicStatuses THEN Invalid(E)
    ELSE EpicRepoCreate(E, WithStatus(e))

EpicServiceSave(E, i, row, patch) ==
    IF patch.name = "empty" \/ patch.status \notin EpicStatuses \cup {Nil}
    THEN Invalid(E)
    ELSE EpicRepoUpdate(E, i, [row EXCEPT !.name = Coalesce(patch.name, @),
                                          !.status = Coalesce(patch.status, @)])

EpicServiceDelete(E, i) ==
    IF Ok(EpicRepoGetByID(E, i)) THEN EpicRepoDelete(E, i)
    ELSE EpicRepoGetByID(E, i)

EpicServiceListByProject(E, page, perPage) ==
    LET limit == Limit(perPage, MaxPerPage)
    IN [rows |-> EpicRepoListByProject(E, limit, Offset(page, limit)),
        total |-> CountEpicsByProject(E)]

-----------------------------------------------------------------------------
(* Handlers: the writes are for admins.                                    *)

AsAdmin(role, o) == IF role = "admin" THEN o ELSE [o EXCEPT !.err = "forbidden"]
Handle(T, role, o, success) ==
    LET r == AsAdmin(role, o)
    IN [t |-> IF Ok(r) THEN r.t ELSE T, status |-> Response(r, success)]

CreateStoryRequest(S, E, role, s) == Handle(S, role, StoryServiceCreate(S, E, s), 201)
UpdateStoryRequest(S, E, role, i, row, patch) ==
    Handle(S, role, StoryServiceSave(S, E, i, row, patch), 200)
DeleteStoryRequest(S, role, i) == Handle(S, role, StoryServiceDelete(S, i), 204)
CreateEpicRequest(E, role, e) == Handle(E, role, EpicServiceCreate(E, e), 201)
UpdateEpicRequest(E, role, i, row, patch) ==
    Handle(E, role, EpicServiceSave(E, i, row, patch), 200)
DeleteEpicRequest(E, role, i) == Handle(E, role, EpicServiceDelete(E, i), 204)

(* The reads are for everyone.  The page is the clamped one, the pagination *)
(* block repeats the per_page of the request.                               *)
Read(body) == [status |-> 200, body |-> body]
Fetched(T, o) == IF Ok(o) THEN Read(T[o.id]) ELSE [status |-> StatusOf(o.err), body |-> Nil]
Listed(list, page, perPage) ==
    Read([rows |-> list.rows, total |-> list.total,
          page |-> DefaultPage(page), perPage |-> DefaultPerPage(perPage)])

GetStoryRequest(S, i) == Fetched(S, StoryServiceLoad(S, i))
GetEpicRequest(E, i) == Fetched(E, EpicRepoGetByID(E, i))

(* A key wins over an epic, an epic over a status filter. *)
ListStoriesRequest(S, filter, page, perPage) ==
    LET p == DefaultPage(page)
        n == DefaultPerPage(perPage)
    IN CASE filter.key # NoKey -> Fetched(S, StoryRepoGetByKey(S, filter.key))
         [] filter.key = NoKey /\ filter.epic # 0 ->
                Listed(StoryServiceListByEpic(S, filter.epic, p, n), page, perPage)
         [] filter.key = NoKey /\ filter.epic = 0 /\ filter.statuses # {} ->
                Listed(StoryServiceListByStatus(S, filter.statuses, p, n), page, perPage)
         [] OTHER -> Listed(StoryServiceListByProject(S, p, n), page, perPage)

(* Each epic carries the number of its stories per status. *)
APIEpic(S, E, i) == [epic |-> E[i], counts |-> StoryRepoCountByEpic(S, i)]
ListEpicsRequest(S, E, page, perPage) ==
    LET list == EpicServiceListByProject(E, DefaultPage(page), DefaultPerPage(perPage))
    IN Listed([list EXCEPT !.rows = [k \in DOMAIN @ |-> APIEpic(S, E, @[k])]], page, perPage)
=============================================================================
