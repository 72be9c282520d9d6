------------------------------- MODULE Tables -------------------------------
(***************************************************************************)
(* Tables and the statements the repositories run on them.                 *)
(*                                                                         *)
(* A table is the sequence of the rows ever inserted: a row's id is its    *)
(* place, so ids grow with created_at, and a deleted row keeps its place   *)
(* with live = FALSE.  A statement maps a table to an Outcome: the table   *)
(* it leaves, the id of the row it returns and how it ended.  The          *)
(* repositories translate that end into a domain error, and the handlers   *)
(* the domain error into an HTTP status.                                   *)
(***************************************************************************)
EXTENDS Integers, Sequences, FiniteSets, SequencesExt

Nil == "nil"            \* NULL, a nil pointer, an empty string

Outcome(T, i, err) == [t |-> T, id |-> i, err |-> err]
Refused(T, err) == Outcome(T, 0, err)

Live(T) == {i \in DOMAIN T : T[i].live}
RowsWhere(T, P(_)) == {i \in Live(T) : P(T[i])}

(* SELECT ... WHERE: one row, or pgx.ErrNoRows. *)
One(T, P(_)) ==
    LET found == RowsWhere(T, P)
    IN IF found = {} THEN Refused(T, "no_rows")
       ELSE Outcome(T, CHOOSE i \in found : TRUE, "none")

(* INSERT into a table with the unique indexes in Clash. *)
Insert(T, row, Clash(_, _)) ==
    IF \E i \in Live(T) : Clash(T[i], row) THEN Refused(T, "unique")
    ELSE Outcome(Append(T, row), Len(T) + 1, "none")

(* UPDATE ... WHERE id = i RETURNING *. *)
Change(T, i, row, Clash(_, _)) ==
    IF i \notin Live(T) THEN Refused(T, "no_rows")
    ELSE IF \E j \in Live(T) \ {i} : Clash(T[j], row) THEN Refused(T, "unique")
    ELSE Outcome([T EXCEPT ![i] = row], i, "none")

(* DELETE ... WHERE id = i: no error when there is no such row. *)
Erase(T, i) ==
    Outcome([j \in DOMAIN T |-> [T[j] EXCEPT !.live = @ /\ j # i]], i, "none")

NoClash(a, b) == FALSE

(* COALESCE: a NULL argument keeps the column. *)
Coalesce(new, old) == IF new = Nil THEN old ELSE new

(* ORDER BY created_at DESC LIMIT limit OFFSET offset. *)
NewestFirst(ids) == SetToSortSeq(ids, LAMBDA a, b : a > b)
Page(s, limit, offset) ==
    SubSeq(s, offset + 1, IF offset + limit < Len(s) THEN offset + limit ELSE Len(s))
ListWhere(T, P(_), limit, offset) == Page(NewestFirst(RowsWhere(T, P)), limit, offset)
CountWhere(T, P(_)) == Cardinality(RowsWhere(T, P))

-----------------------------------------------------------------------------
(* Errors.                                                                 *)

(* isUniqueViolation, isForeignKeyViolation and pgx.ErrNoRows. *)
DomainError(err) ==
    CASE err = "none" -> "ok"
      [] err = "no_rows" -> "not_found"
      [] err = "unique" -> "conflict"
      [] err = "foreign_key" -> "not_found"
      [] OTHER -> "internal"

(* What a repository method returns: the statement, its error translated. *)
Repo(q) == [q EXCEPT !.err = DomainError(q.err)]

(* A method whose statement maps no error but a failure: :exec statements. *)
RepoExec(q) == [q EXCEPT !.err = IF q.err = "none" THEN "ok" ELSE "internal"]

Invalid(T) == Refused(T, "validation")
Ok(o) == o.err = "ok"

(* mapCategoryToStatus. *)
StatusOf(category) ==
    CASE category = "not_found" -> 404
      [] category = "validation" -> 400
      [] category = "conflict" -> 409
      [] category = "unauthorized" -> 401
      [] category = "forbidden" -> 403
      [] category = "invalid_state" -> 422
      [] OTHER -> 500

Response(o, success) == IF Ok(o) THEN success ELSE StatusOf(o.err)

(* A missing or non-positive page is 1, a missing or non-positive size 20. *)
DefaultPage(page) == IF page <= 0 THEN 1 ELSE page
DefaultPerPage(perPage) == IF perPage <= 0 THEN 20 ELSE perPage

(* clampPagination: at most cap rows a page. *)
Limit(perPage, cap) ==
    IF perPage < 1 THEN 20 ELSE IF perPage > cap THEN cap ELSE perPage
Offset(page, limit) == (DefaultPage(page) - 1) * limit
=============================================================================
