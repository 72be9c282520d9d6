----------------------------- MODULE AccountApi -----------------------------
(***************************************************************************)
(* Accounts through the repositories, the services and the HTTP handlers.  *)
(* Where a service reads and then writes, the read (...Load) and the write *)
(* (...Save) are operators of their own: other requests run in between.    *)
(* A session is the claims of an issued JWT: user, role and whether its    *)
(* 24 hours are over; its jti is its place.                                *)
(***************************************************************************)
EXTENDS Accounts, StoryApi

(* The user repository hands on the driver's error: unless the service     *)
(* looks at it, it is an internal error for the handler.                   *)
UserRepoCreate(U, u) == CreateUser(U, u)
UserRepoGetByEmail(U, email) == GetUserByEmail(U, email)
UserRepoGetByID(U, i) == GetUserByID(U, i)
UserRepoList(U, limit, offset) == ListUsers(U, limit, offset)
UserRepoUpdate(U, i, u) == UpdateUser(U, i, u)
UserRepoUpdatePasswordHash(U, i, hash) == UpdateUserPasswordHash(U, i, hash)
UserRepoDelete(U, i) == DeleteUser(U, i)

Plain(o) == [o EXCEPT !.err = IF o.err = "none" THEN "ok" ELSE "internal"]
As(o, category) == [o EXCEPT !.err = IF o.err = "none" THEN "ok" ELSE category]

TokenRepoCreate(T, U, u) == Plain(CreatePasswordResetToken(T, U, u))
TokenRepoGetByToken(T, i) == Repo(GetPasswordResetToken(T, i))
TokenRepoMarkUsed(T, i) == RepoExec(MarkPasswordResetTokenUsed(T, i))

MemberRepoAddUser(M, U, P, row) == Repo(AddUserToProject(M, U, P, row))
MemberRepoRemoveUser(M, p, u) == RepoExec(RemoveUserFromProject(M, p, u))
MemberRepoListMembers(M, U, p) == ListProjectUsers(M, U, p)
MemberRepoIsUserInProject(M, p, u) == IsUserInProject(M, p, u)
MemberRepoListProjectsByUser(M, P, u, limit, offset) ==
    ListProjectsByUser(M, P, u, limit, offset)
MemberRepoCountProjectsByUser(M, P, u) == CountProjectsByUser(M, P, u)

APIKeyRepoCreate(K, U, k) == Repo(CreateUserAPIKey(K, U, k))
APIKeyRepoGetByID(K, i) == Repo(GetUserAPIKey(K, i))
APIKeyRepoListByUser(K, u) == ListUserAPIKeys(K, u)
APIKeyRepoGetByUserAndProvider(K, u, provider) == Repo(GetUserAPIKeyByProvider(K, u, provider))
APIKeyRepoDelete(K, i) == RepoExec(DeleteUserAPIKey(K, i))

-----------------------------------------------------------------------------
(* AuthService.  "short" stands for a password of less than 8 characters.   *)

Claims(i, role) == [user |-> i, role |-> role, expired |-> FALSE]

Register(U, email, password, name) ==
    IF Nil \in {email, password, name} \/ password = "short" THEN Invalid(U)
    ELSE LET o == UserRepoCreate(U, [email |-> email, password |-> password,
                                     name |-> name, role |-> "user"])
         IN [o EXCEPT !.err = CASE o.err = "none" -> "ok"
                                [] o.err = "unique" -> "conflict"
                                [] OTHER -> "internal"]

Login(U, email, password) ==
    LET o == UserRepoGetByEmail(U, email)
    IN CASE Nil \in {email, password} -> Invalid(U)
         [] o.err # "none" -> Refused(U, "unauthorized")
         [] OTHER -> IF U[o.id].password = password THEN As(o, "internal")
                     ELSE Refused(U, "unauthorized")

(* The JWT is accepted while it is not expired and not revoked; the user's  *)
(* row is not looked at.                                                    *)
ValidateToken(sessions, jti) == ~sessions[jti].expired
Accepted(sessions, R, jti) == ValidateToken(sessions, jti) /\ ~IsTokenRevoked(R, jti)

Logout(R, sessions, jti) ==
    IF ValidateToken(sessions, jti) THEN InsertRevokedToken(R, jti) ELSE R
(* Mutant of PurgeExpiredTokens: the cleanup forgets the expiry. *)
PurgeEveryToken(R, sessions) == {}

PurgeExpiredTokens(R, sessions) == DeleteExpiredRevokedTokens(R, sessions)

(* An unknown address is not told apart. *)
ForgotPassword(T, U, email) ==
    LET o == UserRepoGetByEmail(U, email)
    IN CASE email = Nil -> Invalid(T)
         [] email # Nil /\ o.err # "none" -> Outcome(T, 0, "ok")
         [] OTHER -> TokenRepoCreate(T, U, o.id)

ResetPasswordToken(T, i, password) ==
    LET o == TokenRepoGetByToken(T, i)
    IN CASE Nil = password \/ password = "short" -> Invalid(T)
         [] ~Ok(o) -> Refused(T, "validation")
         [] OTHER -> IF T[i].used \/ T[i].expired THEN Refused(T, "validation") ELSE o

ResetPasswordLoad(U, i) == Plain(UserRepoGetByID(U, i))
(* The loaded user with the new hash, through the statement that does not   *)
(* write the hash.                                                          *)
ResetPasswordSave(U, i, row, password) ==
    Plain(UserRepoUpdate(U, i, [row EXCEPT !.password = password]))

-----------------------------------------------------------------------------
(* UserService.                                                             *)

(* A patch holds Nil for a field the request leaves out, "empty" or "long"  *)
(* for a value that the service refuses.                                    *)
BadName(name) == name \in {"empty", "long"}
PatchedUser(row, patch) ==
    [row EXCEPT !.name = Coalesce(patch.name, @), !.email = Coalesce(patch.email, @),
                !.role = Coalesce(patch.role, @)]

UserServiceGetByID(U, i) == As(UserRepoGetByID(U, i), "not_found")
UserServiceList(U, page, perPage) ==
    LET limit == Limit(perPage, MaxPerPage)
    IN [rows |-> UserRepoList(U, limit, Offset(page, limit)), total |-> CountUsers(U)]
UserServiceSave(U, i, row, patch) ==
    IF BadName(patch.name) \/ patch.email = "empty" \/ patch.role \notin Roles \cup {Nil}
    THEN Invalid(U)
    ELSE Plain(UserRepoUpdate(U, i, PatchedUser(row, patch)))

UpdateProfileLoad(U, i) == As(UserRepoGetByID(U, i), "unauthorized")

(* Mutant of UpdateProfileSave: the request's role is taken over. *)
UpdateProfileWithRole(U, i, row, patch) ==
    Plain(UserRepoUpdate(U, i, PatchedUser(row, patch)))

(* Name and email; the role the row had when it was read is written back.   *)
UpdateProfileSave(U, i, row, patch) ==
    IF BadName(patch.name) \/ patch.email = "empty" THEN Invalid(U)
    ELSE LET o == UserRepoUpdate(U, i, PatchedUser(row, [patch EXCEPT !.role = Nil]))
         IN IF o.err = "unique" /\ patch.email # Nil THEN Refused(U, "conflict") ELSE Plain(o)

ChangePasswordLoad(U, i, current, password) ==
    LET o == UserRepoGetByID(U, i)
    IN CASE o.err # "none" -> Refused(U, "unauthorized")
         [] o.err = "none" /\ U[i].password # current -> Refused(U, "unauthorized")
         [] OTHER -> IF password = "short" THEN Invalid(U) ELSE As(o, "unauthorized")
ChangePasswordSave(U, i, password) == Plain(UserRepoUpdatePasswordHash(U, i, password))

UserServiceDelete(U, i) ==
    IF Ok(UserServiceGetByID(U, i)) THEN Plain(UserRepoDelete(U, i))
    ELSE UserServiceGetByID(U, i)

-----------------------------------------------------------------------------
(* ProjectUserService and APIKeyService.                                    *)

(* A project that is missing is "not found"; a user who is missing comes    *)
(* back as the driver's error.                                              *)
AddUserCheck(M, U, P, row) ==
    CASE row.role \notin ProjectRoles -> Invalid(M)
      [] row.role \in ProjectRoles /\ row.project \notin Live(P) -> Refused(M, "not_found")
      [] OTHER -> [Plain(UserRepoGetByID(U, row.user)) EXCEPT !.t = M]
RemoveUser(M, p, u) ==
    IF MemberRepoIsUserInProject(M, p, u) THEN MemberRepoRemoveUser(M, p, u)
    ELSE Refused(M, "not_found")
ListMembers(M, U, P, p) ==
    IF p \in Live(P) THEN [err |-> "ok", rows |-> MemberRepoListMembers(M, U, p)]
    ELSE [err |-> "not_found", rows |-> <<>>]
ListProjectsForUser(M, P, u, page, perPage) ==
    LET limit == Limit(perPage, MaxPerPage)
    IN [rows |-> MemberRepoListProjectsByUser(M, P, u, limit, Offset(page, limit)),
        total |-> MemberRepoCountProjectsByUser(M, P, u)]

CreateKey(K, U, k) ==
    IF Nil \in {k.provider, k.name, k.secret} THEN Invalid(K) ELSE APIKeyRepoCreate(K, U, k)
DecryptKeyForUserProvider(K, u, provider) ==
    LET o == APIKeyRepoGetByUserAndProvider(K, u, provider)
    IN IF Ok(o) THEN K[o.id].secret ELSE Nil
ListKeys(K, u) == APIKeyRepoListByUser(K, u)
(* A key that is missing or someone else's is left alone, without an error. *)
DeleteKey(K, u, i) ==
    LET o == APIKeyRepoGetByID(K, i)
    IN IF Ok(o) /\ K[i].user = u THEN APIKeyRepoDelete(K, i)
       ELSE Outcome(K, 0, IF o.err \in {"ok", "not_found"} THEN "ok" ELSE o.err)

-----------------------------------------------------------------------------
(* Middleware and handlers.                                                 *)

(* The caller of a request is the session it carries: role and user are the *)
(* ones of the claims.                                                      *)
Auth(sessions, R, jti) ==
    IF jti \in DOMAIN sessions /\ Accepted(sessions, R, jti) THEN "ok" ELSE "unauthorized"

(* The membership check of the routes under a project. *)
RequireProjectAccess(M, who, p) ==
    CASE who.role = "admin" -> "ok"
      [] who.role # "admin" /\ p = 0 -> "validation"
      [] OTHER -> IF MemberRepoIsUserInProject(M, p, who.user) THEN "ok" ELSE "forbidden"

Reply(T, o, success) ==
    [t |-> IF Ok(o) THEN o.t ELSE T, status |-> Response(o, success), id |-> o.id]

RegisterRequest(U, email, password, name) == Reply(U, Register(U, email, password, name), 201)
LoginRequest(U, email, password) == Reply(U, Login(U, email, password), 200)
(* Whatever happens, the cookie is cleared and the answer is 204.           *)
LogoutRequest(R, sessions, jti) == [t |-> Logout(R, sessions, jti), status |-> 204]
(* Only an empty address is told: every other error is ignored.             *)
ForgotPasswordRequest(T, U, email) ==
    LET o == ForgotPassword(T, U, email)
    IN [t |-> IF Ok(o) THEN o.t ELSE T, status |-> IF email = Nil THEN 400 ELSE 202]
MeRequest(U, who) ==
    LET o == UserRepoGetByID(U, who.user)
    IN IF o.err = "none" THEN Read(U[who.user]) ELSE [status |-> 401, body |-> Nil]

ListUsersRequest(U, who, page, perPage) ==
    IF who.role # "admin" THEN [status |-> 403, body |-> Nil]
    ELSE Listed(UserServiceList(U, DefaultPage(page), DefaultPerPage(perPage)), page, perPage)
GetUserRequest(U, who, i) ==
    IF who.role # "admin" THEN [status |-> 403, body |-> Nil]
    ELSE Fetched(U, UserServiceGetByID(U, i))
UpdateUserRequest(U, who, i, row, patch) ==
    Handle(U, who.role, UserServiceSave(U, i, row, patch), 200)
DeleteUserRequest(U, who, i) == Handle(U, who.role, UserServiceDelete(U, i), 204)

GetMyProfileRequest(U, who) == Fetched(U, UpdateProfileLoad(U, who.user))
UpdateMyProfileRequest(U, who, row, patch) ==
    IF patch.name = Nil /\ patch.email = Nil THEN Reply(U, Invalid(U), 200)
    ELSE Reply(U, UpdateProfileSave(U, who.user, row, patch), 200)
ChangeMyPasswordCheck(U, who, current, password) ==
    IF Nil \in {current, password} THEN Invalid(U)
    ELSE ChangePasswordLoad(U, who.user, current, password)

AddUserRequest(M, U, P, who, row) ==
    LET r == [row EXCEPT !.role = IF @ = Nil THEN "member" ELSE @]
        check == AddUserCheck(M, U, P, r)
    IN Handle(M, who.role, IF Ok(check) THEN MemberRepoAddUser(M, U, P, r) ELSE check, 201)
RemoveUserRequest(M, who, p, u) == Handle(M, who.role, RemoveUser(M, p, u), 204)
ListMembersRequest(M, U, P, who, p) ==
    LET access == RequireProjectAccess(M, who, p)
        list == ListMembers(M, U, P, p)
    IN CASE access # "ok" -> [status |-> StatusOf(access), body |-> Nil]
         [] access = "ok" /\ list.err # "ok" -> [status |-> StatusOf(list.err), body |-> Nil]
         [] OTHER -> Read(list.rows)

ListMyAPIKeysRequest(K, who) == Read(ListKeys(K, who.user))
CreateMyAPIKeyRequest(K, U, who, k) == Reply(K, CreateKey(K, U, [k EXCEPT !.user = who.user]), 201)
DeleteMyAPIKeyRequest(K, who, i) == Reply(K, DeleteKey(K, who.user, i), 204)
=============================================================================
