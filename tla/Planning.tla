------------------------------ MODULE Planning ------------------------------
(***************************************************************************)
(* The decisions of a planning import, as functions of the row that was    *)
(* read and the item that is imported: status projection, identity,        *)
(* canonical hash, freezing, merging; and the two source adapters, which   *)
(* turn a markdown text or a GitHub Projects board into items.             *)
(*                                                                         *)
(* An imported epic is [ext, key, name, raw], an imported story            *)
(* [ext, item, key, title, objective, epic, raw, bad]: epic is the         *)
(* external id of its parent or Nil, raw the status as the source spells   *)
(* it, bad a parse error.  A configuration is [source, dry, done, ok]:     *)
(* done is the set of done options, ok says that the source is not empty.  *)
(***************************************************************************)
EXTENDS StoryApi

(* The elements of a sequence at some of its places, in their order. *)
Rank(places, i) == Cardinality({j \in places : j <= i})
Picked(s, places) ==
    [k \in 1..Cardinality(places) |-> s[CHOOSE i \in places : Rank(places, i) = k]]

GitHub == "github_projects"
Markdown == "markdown"

(* buildImportConfig: an empty text or board URL is a validation error. *)
ConfigOk(cfg) == cfg.source \in {GitHub, Markdown} /\ cfg.ok

-----------------------------------------------------------------------------
(* Status projection: explicit only, and promote only.                     *)

ProjectStatus(cfg, raw) ==
    IF \/ cfg.source = GitHub /\ raw # Nil /\ raw \in cfg.done
       \/ cfg.source = Markdown /\ raw = "done"
    THEN "done" ELSE "backlog"

ResolveStoryStatus(row, mapped) ==
    IF row.status = "backlog" /\ row.stage = Nil /\ mapped = "done" THEN "done"
    ELSE row.status

ResolveEpicStatus(row, mapped) ==
    IF row.status = "backlog" /\ mapped = "done" THEN "done" ELSE row.status

-----------------------------------------------------------------------------
(* Epics.                                                                  *)

NewEpic(cfg, ie) ==
    [name |-> ie.name, status |-> ProjectStatus(cfg, ie.raw),
     source |-> cfg.source, ext |-> ie.ext]

EpicTarget(cfg, ie, row) ==
    [NewEpic(cfg, ie) EXCEPT !.status = ResolveEpicStatus(row, @)]

EpicChanged(row, target) ==
    \/ row.name # target.name
    \/ row.status # target.status
    \/ row.source # target.source
    \/ row.ext # target.ext

(* Mutant of Adopts: whoever finds an epic by its name takes it over. *)
AdoptsAny(row) == TRUE

(* An epic found by name is adopted when it was made in the app.  One that *)
(* another source or another item owns is linked and left alone.           *)
Adopts(row) == row.source = "manual"

-----------------------------------------------------------------------------
(* Stories.                                                                *)

(* Mutant of CanonicalHash: a field of the spec is left out. *)
HashWithoutTitle(cfg, is) == <<is.objective, is.epic, ProjectStatus(cfg, is.raw)>>

(* The spec of an item: what the hash covers, and no more. *)
CanonicalHash(cfg, is) ==
    <<is.title, is.objective, is.epic, ProjectStatus(cfg, is.raw)>>

(* Items that fail before the database is read. *)
ItemError(is) ==
    CASE is.bad -> "PARSE_ERROR"
      [] ~is.bad /\ ~KeyOk(is.key) -> "KEY_FORMAT"
      [] ~is.bad /\ KeyOk(is.key) /\ is.title = Nil -> "PARSE_ERROR"
      [] OTHER -> Nil

(* A story that runs, failed or sits in a stage: status and spec frozen. *)
Locked(row) == row.status \in {"running", "failed"} \/ row.stage # Nil

(* A markdown key is the author's: it adopts manual and markdown rows only. *)
KeyTakenByRemote(cfg, row) == cfg.source = Markdown /\ row.source \notin {"manual", Markdown}

(* BASE<slice of hash>-NUMBER: the four characters of the first attempt may *)
(* belong to two items, the longer slices belong to one.                    *)
DisambiguateKey(key, ext, attempt) ==
    [key EXCEPT !.suffix = IF attempt = 0 THEN "short" ELSE ext]

(* What a changed, unlocked row becomes. *)
NewStory(cfg, is, key, epic) ==
    [key |-> key, title |-> is.title, objective |-> is.objective, epic |-> epic,
     status |-> ProjectStatus(cfg, is.raw), source |-> cfg.source, ext |-> is.ext,
     item |-> is.item, hash |-> CanonicalHash(cfg, is)]

Merged(cfg, is, row, epic) ==
    [row EXCEPT !.title = is.title,
                !.objective = Coalesce(is.objective, @),
                !.epic = IF @ = 0 THEN epic ELSE @,
                !.status = ResolveStoryStatus(row, ProjectStatus(cfg, is.raw)),
                !.source = cfg.source,
                !.ext = is.ext,
                !.item = Coalesce(is.item, @),
                !.hash = CanonicalHash(cfg, is)]

(* What a locked row becomes: the title and the provenance. *)
Provenance(cfg, is, row) ==
    [row EXCEPT !.title = is.title, !.source = cfg.source, !.ext = is.ext,
                !.item = Coalesce(is.item, @)]

(* updateStory: what is done with the row that was read.                   *)
(*   skip      same spec, and nothing to fill in                           *)
(*   backfill  same spec, the item id was never stored                     *)
(*   lock      frozen, nothing cosmetic changed                            *)
(*   refresh   frozen, title or provenance changed                         *)
(*   update    changed                                                     *)
StoryDecision(cfg, is, row) ==
    IF Locked(row)
    THEN IF Provenance(cfg, is, row) = row THEN "lock" ELSE "refresh"
    ELSE IF row.hash # CanonicalHash(cfg, is) THEN "update"
    ELSE IF is.item \notin {Nil, row.item} THEN "backfill" ELSE "skip"

-----------------------------------------------------------------------------
(* MarkdownAdapter: one item per parsed block; every epic named by a block *)
(* once, in the order of appearance.  A block is [key, title, epic, raw,   *)
(* bad].                                                                   *)

FirstMention(blocks, i) ==
    blocks[i].epic # Nil /\ \A j \in 1..(i - 1) : blocks[j].epic # blocks[i].epic

MarkdownEpics(blocks) ==
    LET first == Picked(blocks, {i \in DOMAIN blocks : FirstMention(blocks, i)})
    IN [k \in DOMAIN first |->
          LET e == first[k].epic
          IN [ext |-> e, key |-> e, name |-> e, raw |-> Nil]]

(* The text of a key. *)
KeyText(key) == key.repo \o "-" \o key.number

MarkdownStories(blocks) ==
    [i \in DOMAIN blocks |->
        [ext |-> KeyText(blocks[i].key), item |-> Nil, key |-> blocks[i].key,
         title |-> blocks[i].title, objective |-> Nil, epic |-> blocks[i].epic,
         raw |-> blocks[i].raw, bad |-> blocks[i].bad]]

FetchMarkdown(blocks) ==
    [epics |-> MarkdownEpics(blocks), stories |-> MarkdownStories(blocks)]

-----------------------------------------------------------------------------
(* GitHubProjectsAdapter.  An item of a board is [id, kind, node, repo,    *)
(* number, title, type, subs, parent, fields, truncated]: kind is the type *)
(* of its content, fields its single-select values by field name.          *)

(* An item without a readable content is skipped with a warning. *)
Readable(it) == it.kind \in {"Issue", "PullRequest", "DraftIssue"}

(* The status option; a truncated page of field values may hide it. *)
RawStatus(it, field) ==
    IF it.truncated \/ field \notin DOMAIN it.fields THEN Nil ELSE it.fields[field]

DeriveKey(it) == [repo |-> it.repo, number |-> it.number, suffix |-> Nil]
DraftKey(it) == [repo |-> "DRAFT", number |-> it.id, suffix |-> Nil]

IsEpic(it, epicType) == it.kind = "Issue" /\ (it.type = epicType \/ it.subs)

BoardEpic(it, field) ==
    [ext |-> it.node, key |-> DeriveKey(it), name |-> it.title,
     raw |-> RawStatus(it, field)]

(* A draft has no node of its own: the item stands for it. *)
ItemRef(it) == IF it.kind = "DraftIssue" THEN it.id ELSE it.node

BoardStory(it, field) ==
    [ext |-> ItemRef(it),
     item |-> it.id,
     key |-> IF it.kind = "DraftIssue" THEN DraftKey(it) ELSE DeriveKey(it),
     title |-> it.title, objective |-> Nil,
     epic |-> IF it.kind = "Issue" THEN it.parent ELSE Nil,
     raw |-> RawStatus(it, field), bad |-> FALSE]

FetchBoard(items, field, epicType) ==
    LET read == {k \in DOMAIN items : Readable(items[k])}
        grouping == {k \in read : IsEpic(items[k], epicType)}
        epics == Picked(items, grouping)
        rest == Picked(items, read \ grouping)
    IN [epics |-> [i \in DOMAIN epics |-> BoardEpic(epics[i], field)],
        stories |-> [i \in DOMAIN rest |-> BoardStory(rest[i], field)]]
=============================================================================
