------------------------------ MODULE Accounts ------------------------------
(***************************************************************************)
(* The statements on users, members, API keys, reset tokens and revoked    *)
(* tokens.                                                                 *)
(*                                                                         *)
(* A user is deleted by setting deleted_at: the row stays live, and every  *)
(* statement but the unique index on the email leaves it out.  A reset     *)
(* token is the place of its row; the table of revoked tokens is the set   *)
(* of the jti's in it.                                                     *)
(***************************************************************************)
EXTENDS Tables

Roles == {"admin", "user"}
ProjectRoles == {"owner", "member"}

Here(r) == ~r.deleted
EmailClash(a, b) == a.email = b.email
MemberClash(a, b) == a.project = b.project /\ a.user = b.user
KeyClash(a, b) == a.user = b.user /\ a.provider = b.provider /\ a.name = b.name

Stored(U, P, row) == row.project \in Live(P) /\ row.user \in Live(U)

-----------------------------------------------------------------------------
(* Users.                                                                  *)

CreateUser(U, u) ==
    Insert(U, [live |-> TRUE, deleted |-> FALSE, email |-> u.email,
               password |-> u.password, name |-> u.name, role |-> u.role], EmailClash)
GetUserByID(U, i) ==
    IF i \in RowsWhere(U, Here) THEN Outcome(U, i, "none") ELSE Refused(U, "no_rows")
GetUserByEmail(U, email) == One(U, LAMBDA r : Here(r) /\ r.email = email)
ListUsers(U, limit, offset) == ListWhere(U, Here, limit, offset)
CountUsers(U) == CountWhere(U, Here)

(* Name, email and role only: the hash has a statement of its own. *)
UpdateUser(U, i, u) ==
    IF i \notin RowsWhere(U, Here) THEN Refused(U, "no_rows")
    ELSE Change(U, i, [U[i] EXCEPT !.name = Coalesce(u.name, @),
                                   !.email = Coalesce(u.email, @),
                                   !.role = Coalesce(u.role, @)], EmailClash)

UpdateUserPasswordHash(U, i, hash) ==
    Outcome([j \in DOMAIN U |-> IF j = i /\ Here(U[j]) THEN [U[j] EXCEPT !.password = hash]
                                ELSE U[j]], i, "none")
DeleteUser(U, i) ==
    Outcome([j \in DOMAIN U |-> [U[j] EXCEPT !.deleted = @ \/ j = i]], i, "none")

-----------------------------------------------------------------------------
(* Members of a project.                                                   *)

AddUserToProject(M, U, P, row) ==
    IF ~Stored(U, P, row) THEN Refused(M, "foreign_key")
    ELSE Insert(M, [live |-> TRUE, project |-> row.project, user |-> row.user,
                    role |-> row.role], MemberClash)
IsUserInProject(M, p, u) == \E i \in Live(M) : M[i].project = p /\ M[i].user = u
RemoveUserFromProject(M, p, u) ==
    Outcome([i \in DOMAIN M |-> [M[i] EXCEPT !.live = @ /\ ~(M[i].project = p /\ M[i].user = u)]],
            0, "none")

(* Oldest first, and a deleted user is still listed. *)
ListProjectUsers(M, U, p) ==
    LET ids == Reverse(NewestFirst(RowsWhere(M, LAMBDA r : r.project = p)))
    IN [k \in DOMAIN ids |-> [user |-> M[ids[k]].user, email |-> U[M[ids[k]].user].email,
                              role |-> M[ids[k]].role]]
ProjectsOf(M, P, u) == {p \in Live(P) : IsUserInProject(M, p, u)}
ListProjectsByUser(M, P, u, limit, offset) ==
    Page(NewestFirst(ProjectsOf(M, P, u)), limit, offset)
CountProjectsByUser(M, P, u) == Cardinality(ProjectsOf(M, P, u))

-----------------------------------------------------------------------------
(* API keys of a user.                                                     *)

CreateUserAPIKey(K, U, k) ==
    IF k.user \notin Live(U) THEN Refused(K, "foreign_key")
    ELSE Insert(K, [live |-> TRUE, user |-> k.user, provider |-> k.provider,
                    name |-> k.name, secret |-> k.secret], KeyClash)
GetUserAPIKey(K, i) ==
    IF i \in Live(K) THEN Outcome(K, i, "none") ELSE Refused(K, "no_rows")
(* LIMIT 1 without an order: any of the user's keys for the provider.       *)
GetUserAPIKeyByProvider(K, u, provider) ==
    One(K, LAMBDA r : r.user = u /\ r.provider = provider)
ListUserAPIKeys(K, u) == RowsWhere(K, LAMBDA r : r.user = u)
DeleteUserAPIKey(K, i) == Erase(K, i)

-----------------------------------------------------------------------------
(* Tokens.                                                                 *)

CreatePasswordResetToken(T, U, u) ==
    IF u \notin Live(U) THEN Refused(T, "foreign_key")
    ELSE Insert(T, [live |-> TRUE, user |-> u, expired |-> FALSE, used |-> FALSE], NoClash)
GetPasswordResetToken(T, i) ==
    IF i \in Live(T) THEN Outcome(T, i, "none") ELSE Refused(T, "no_rows")
(* Unconditional: a token used twice is marked twice.                      *)
MarkPasswordResetTokenUsed(T, i) ==
    Outcome([j \in DOMAIN T |-> [T[j] EXCEPT !.used = @ \/ j = i]], i, "none")

InsertRevokedToken(R, jti) == R \cup {jti}
IsTokenRevoked(R, jti) == jti \in R
DeleteExpiredRevokedTokens(R, sessions) == {jti \in R : ~sessions[jti].expired}
=============================================================================
