---------------------------- MODULE PlatformProofs ---------------------------
(* Sessions, roles and passwords are kept, and the tables are what the      *)
(* schema allows, for any number of users, of requests in progress and of   *)
(* requests, and whatever else the server does.                             *)
(*                                                                          *)
(* A request that writes a user writes what it read some steps before.  The *)
(* invariant must say what such a request holds: the role in the row it     *)
(* read was granted, the password it is to store was proven; and it must    *)
(* say of a session that logged out that it is in the table of revoked      *)
(* tokens or expired, which is what the cleanup looks at.                   *)
(*                                                                          *)
(* The tables follow statement by statement: what each leaves fits, the     *)
(* repository, the service and the handler pass it on or leave the table    *)
(* alone, and what is deleted with a project or an agent takes the rows     *)
(* along that refer to it.  That the queues keep their sizes rests on the   *)
(* shape of the bus, from EventProofs.                                      *)
EXTENDS EventProofs, WellFoundedInduction

Tabled == {"users", "sessions", "revoked"}
Noted == {"loggedOut", "granted", "proven"}
Patches == [name : STRING, email : STRING, role : STRING]
Shaped(c) == c = [kind |-> c.kind, who |-> c.who, id |-> c.id, row |-> c.row, arg |-> c.arg]

(* What a request in progress holds, given what was granted and proven.     *)
Writing == {"user", "profile", "reset", "password"}
Knows(c, granted, proven) ==
    /\ c.kind \in {"user", "profile"} =>
        /\ c.row \in UserRows /\ c.arg \in Patches
        /\ <<c.id, c.row.role>> \in granted
    /\ c.kind = "profile" => c.who.user = c.id
    /\ c.kind = "reset" =>
        /\ c.row \in UserRows /\ c.arg \in STRING
        /\ <<c.who.user, c.row.role>> \in granted
    /\ c.kind = "password" => c.arg \in STRING /\ <<c.id, c.arg>> \in proven

Typed ==
    /\ Tabled \subseteq DOMAIN db /\ Noted \subseteq DOMAIN past
    /\ db.users \in Seq(UserRows) /\ db.sessions \in Seq(SessionRows)
    /\ calls = [s \in Slots |-> calls[s]]
    /\ \A s \in Slots : Shaped(calls[s])
CallsKnow == \A s \in Slots : Knows(calls[s], past.granted, past.proven)
LoggedOut ==
    \A j \in past.loggedOut :
        j \in DOMAIN db.sessions /\ (j \in db.revoked \/ db.sessions[j].expired)
IInv == Typed /\ CallsKnow /\ LoggedOut /\ RoleGranted /\ PasswordProven

(* What a step does to the tables, the ghost and the calls.                 *)
TablesStay == Tabled \subseteq DOMAIN db' /\ \A n \in Tabled : db'[n] = db[n]
PastGrows ==
    /\ Noted \subseteq DOMAIN past'
    /\ past.granted \subseteq past'.granted /\ past.proven \subseteq past'.proven

CallsMove ==
    /\ calls' = [s \in Slots |-> calls'[s]]
    /\ \A s \in Slots : calls'[s] # calls[s] =>
         Shaped(calls'[s]) /\ Knows(calls'[s], past'.granted, past'.proven)

-----------------------------------------------------------------------------
(* The statements.                                                          *)

LEMMA MapIsSeq ==
  ASSUME NEW S, NEW n \in Nat, NEW f \in [1..n -> S]
  PROVE  f \in Seq(S) /\ Len(f) = n /\ DOMAIN f = 1..n
BY SeqDef

(* The statement that updates a user writes no password, and no role but    *)
(* the one it is given.                                                     *)
LEMMA UserUpdated ==
  ASSUME NEW U \in Seq(UserRows), NEW i, NEW u \in UserRows
  PROVE  /\ UpdateUser(U, i, u).t \in Seq(UserRows)
         /\ DOMAIN UpdateUser(U, i, u).t = DOMAIN U
         /\ \A j \in DOMAIN U :
              /\ UpdateUser(U, i, u).t[j].password = U[j].password
              /\ \/ UpdateUser(U, i, u).t[j].role = U[j].role
                 \/ j = i /\ UpdateUser(U, i, u).t[j].role = u.role
<1> DEFINE row == [U[i] EXCEPT !.name = Coalesce(u.name, @), !.email = Coalesce(u.email, @),
                               !.role = Coalesce(u.role, @)]
<1>1. DOMAIN U = 1..Len(U) /\ Len(U) \in Nat /\ \A j \in DOMAIN U : U[j] \in UserRows
  BY LenProperties, ElementOfSeq
<1>2. UpdateUser(U, i, u).t = U
      \/ (i \in DOMAIN U /\ UpdateUser(U, i, u).t = [U EXCEPT ![i] = row])
  BY DEF UpdateUser, Change, Refused, Outcome, Live
<1>3. CASE UpdateUser(U, i, u).t = U
  BY <1>3
<1>4. CASE i \in DOMAIN U /\ UpdateUser(U, i, u).t = [U EXCEPT ![i] = row]
  <2>1. U[i] \in UserRows
    BY <1>1, <1>4
  <2>2. row \in UserRows /\ row.password = U[i].password /\ row.role \in {U[i].role, u.role}
    BY <2>1 DEF UserRows, Coalesce
  <2> HIDE DEF row
  <2>3. /\ [U EXCEPT ![i] = row] \in Seq(UserRows) /\ Len([U EXCEPT ![i] = row]) = Len(U)
        /\ DOMAIN [U EXCEPT ![i] = row] = DOMAIN U
        /\ \A j \in DOMAIN U : [U EXCEPT ![i] = row][j] = IF j = i THEN row ELSE U[j]
    BY <1>1, <1>4, <2>2, ExceptSeq
  <2> QED BY <1>4, <2>2, <2>3
<1> QED BY <1>2, <1>3, <1>4

LEMMA HashUpdated ==
  ASSUME NEW U \in Seq(UserRows), NEW i, NEW hash \in STRING
  PROVE  /\ UpdateUserPasswordHash(U, i, hash).t \in Seq(UserRows)
         /\ DOMAIN UpdateUserPasswordHash(U, i, hash).t = DOMAIN U
         /\ \A j \in DOMAIN U :
              /\ UpdateUserPasswordHash(U, i, hash).t[j].role = U[j].role
              /\ \/ UpdateUserPasswordHash(U, i, hash).t[j].password = U[j].password
                 \/ j = i /\ UpdateUserPasswordHash(U, i, hash).t[j].password = hash
<1> DEFINE W == UpdateUserPasswordHash(U, i, hash).t
<1>1. DOMAIN U = 1..Len(U) /\ Len(U) \in Nat /\ \A j \in DOMAIN U : U[j] \in UserRows
  BY LenProperties, ElementOfSeq
<1>2. W = [j \in DOMAIN U |-> IF j = i /\ Here(U[j]) THEN [U[j] EXCEPT !.password = hash]
                              ELSE U[j]]
  BY DEF UpdateUserPasswordHash, Outcome
<1> HIDE DEF W
<1>3. \A j \in DOMAIN U : W[j] = U[j] \/ (j = i /\ W[j] = [U[j] EXCEPT !.password = hash])
  BY <1>2
<1>4. \A j \in DOMAIN U : /\ W[j] \in UserRows /\ W[j].role = U[j].role
                          /\ W[j].password = U[j].password \/ (j = i /\ W[j].password = hash)
  BY <1>1, <1>3, ZenonT(40) DEF UserRows
<1>5. W \in [1..Len(U) -> UserRows]
  BY <1>1, <1>2, <1>4
<1>6. W \in Seq(UserRows) /\ DOMAIN W = DOMAIN U
  BY <1>1, <1>5, MapIsSeq
<1> QED BY <1>4, <1>6 DEF W

LEMMA UserDeleted ==
  ASSUME NEW U \in Seq(UserRows), NEW i
  PROVE  /\ DeleteUser(U, i).t \in Seq(UserRows)
         /\ DOMAIN DeleteUser(U, i).t = DOMAIN U
         /\ \A j \in DOMAIN U : /\ DeleteUser(U, i).t[j].role = U[j].role
                                /\ DeleteUser(U, i).t[j].password = U[j].password
<1> DEFINE W == DeleteUser(U, i).t
<1>1. DOMAIN U = 1..Len(U) /\ Len(U) \in Nat /\ \A j \in DOMAIN U : U[j] \in UserRows
  BY LenProperties, ElementOfSeq
<1>2. W = [j \in DOMAIN U |-> [U[j] EXCEPT !.deleted = @ \/ j = i]]
  BY DEF DeleteUser, Outcome
<1> HIDE DEF W
<1>3. \A j \in DOMAIN U : (U[j].deleted \/ j = i) \in BOOLEAN
  OBVIOUS
<1>4. \A j \in DOMAIN U : W[j] \in UserRows /\ W[j].role = U[j].role
                          /\ W[j].password = U[j].password
  BY <1>1, <1>2, <1>3 DEF UserRows
<1>5. W \in [1..Len(U) -> UserRows]
  BY <1>1, <1>2, <1>4
<1>6. W \in Seq(UserRows) /\ DOMAIN W = DOMAIN U
  BY <1>1, <1>5, MapIsSeq
<1> QED BY <1>4, <1>6 DEF W

LEMMA UserCreated ==
  ASSUME NEW U \in Seq(UserRows), NEW email \in STRING, NEW pw \in STRING, NEW name \in STRING
  PROVE  LET r == RegisterRequest(U, email, pw, name)
         IN \/ r.status # 201 /\ r.t = U
            \/ /\ r.status = 201 /\ r.id = Len(U) + 1 /\ r.t \in Seq(UserRows)
               /\ Len(r.t) = Len(U) + 1
               /\ r.t[r.id].role = "user" /\ r.t[r.id].password = pw
               /\ \A j \in DOMAIN U : r.t[j] = U[j]
<1> DEFINE u == [email |-> email, password |-> pw, name |-> name, role |-> "user"]
           row == [live |-> TRUE, deleted |-> FALSE, email |-> email, password |-> pw,
                   name |-> name, role |-> "user"]
           o == CreateUser(U, u)
           g == Register(U, email, pw, name)
           r == RegisterRequest(U, email, pw, name)
<1>1. row \in UserRows
  BY DEF UserRows, Roles
<1>2. o = Refused(U, "unique") \/ o = Outcome(Append(U, row), Len(U) + 1, "none")
  BY DEF CreateUser, Insert
<1> HIDE DEF row, o
<1>3. /\ \/ o.t = U /\ o.err = "unique"
         \/ o.t = Append(U, row) /\ o.id = Len(U) + 1 /\ o.err = "none"
      /\ o = [t |-> o.t, id |-> o.id, err |-> o.err]
  BY <1>2 DEF Refused, Outcome
<1>4. g.err # "ok" \/ (o.err = "none" /\ g.err = "ok" /\ g.t = o.t /\ g.id = o.id)
  <2>1. CASE Nil \in {email, pw, name} \/ pw = "short"
    <3>1. g = Invalid(U)
      BY <2>1 DEF Register
    <3> QED BY <3>1 DEF Invalid, Refused, Outcome
  <2>2. CASE ~(Nil \in {email, pw, name} \/ pw = "short")
    <3>1. g = [o EXCEPT !.err = CASE o.err = "none" -> "ok"
                                  [] o.err = "unique" -> "conflict"
                                  [] OTHER -> "internal"]
      BY <2>2 DEF Register, UserRepoCreate, o
    <3> HIDE DEF g
    <3> QED BY <1>3, <3>1
  <2> QED BY <2>1, <2>2
<1>5. /\ r = [t |-> IF Ok(g) THEN g.t ELSE U, status |-> Response(g, 201), id |-> g.id]
      /\ Ok(g) <=> g.err = "ok"
      /\ Response(g, 201) = 201 <=> g.err = "ok"
  BY DEF RegisterRequest, Reply, Ok, Response, StatusOf
<1> HIDE DEF g, r
<1>6. CASE g.err # "ok"
  BY <1>5, <1>6 DEF r
<1>7. CASE o.err = "none" /\ g.err = "ok" /\ g.t = o.t /\ g.id = o.id
  <2>1. r.status = 201 /\ r.t = Append(U, row) /\ r.id = Len(U) + 1
    BY <1>3, <1>5, <1>7
  <2>2. /\ Append(U, row) \in Seq(UserRows) /\ Len(Append(U, row)) = Len(U) + 1
        /\ \A j \in DOMAIN U : Append(U, row)[j] = U[j]
        /\ Append(U, row)[Len(U) + 1] = row
    BY <1>1, AppendProperties, LenProperties
  <2>3. row.role = "user" /\ row.password = pw
    BY DEF row
  <2> QED BY <2>1, <2>2, <2>3 DEF r
<1> QED BY <1>4, <1>6, <1>7

-----------------------------------------------------------------------------
(* Steps that leave the users and the sessions alone.                       *)

LEMMA KnowsGrows ==
  ASSUME NEW c, NEW g, NEW h, NEW p, NEW q, g \subseteq h, p \subseteq q, Knows(c, g, p)
  PROVE  Knows(c, h, q)
BY DEF Knows

LEMMA CallsKeep ==
  ASSUME IInv, PastGrows, CallsMove
  PROVE  /\ CallsKnow' /\ calls' = [s \in Slots |-> calls'[s]]
         /\ \A s \in Slots : Shaped(calls'[s])
<1>1. ASSUME NEW s \in Slots
      PROVE  Shaped(calls'[s]) /\ Knows(calls'[s], past'.granted, past'.proven)
  <2>1. CASE calls'[s] = calls[s]
    <3>1. Knows(calls[s], past.granted, past.proven) /\ Shaped(calls[s])
      BY DEF IInv, CallsKnow, Typed
    <3> QED BY <2>1, <3>1, KnowsGrows DEF PastGrows
  <2> QED BY <2>1 DEF CallsMove
<1> QED BY <1>1 DEF CallsKnow, CallsMove

LEMMA StillKeeps ==
  ASSUME IInv, TablesStay, PastGrows, past'.loggedOut = past.loggedOut, CallsMove
  PROVE  IInv'
<1>1. /\ CallsKnow' /\ calls' = [s \in Slots |-> calls'[s]]
      /\ \A s \in Slots : Shaped(calls'[s])
  BY CallsKeep
<1>2. /\ db'.users = db.users /\ db'.sessions = db.sessions /\ db'.revoked = db.revoked
      /\ Tabled \subseteq DOMAIN db' /\ Noted \subseteq DOMAIN past'
  BY DEF TablesStay, Tabled, PastGrows
<1>3. Typed'
  BY <1>1, <1>2 DEF IInv, Typed
<1>4. LoggedOut'
  BY <1>2 DEF IInv, LoggedOut
<1>5. RoleGranted' /\ PasswordProven'
  BY <1>2 DEF IInv, RoleGranted, PasswordProven, PastGrows
<1> QED BY <1>1, <1>3, <1>4, <1>5 DEF IInv

(* A request that writes to another table: what most of them do.            *)
LEMMA PutElsewhere ==
  ASSUME IInv, NEW table, table \notin Tabled, NEW r, Put(table, r)
  PROVE  TablesStay
BY DEF IInv, Typed, TablesStay, Put, Tabled

LEMMA PastStays ==
  ASSUME IInv, UNCHANGED past
  PROVE  PastGrows /\ past'.loggedOut = past.loggedOut
BY DEF IInv, Typed, PastGrows

LEMMA EndOfCall ==
  ASSUME IInv, NEW s \in Slots, End(s)
  PROVE  CallsMove
<1>1. Shaped(NoCall) /\ NoCall.kind = "none"
  BY DEF Shaped, NoCall
<1>2. Knows(NoCall, past'.granted, past'.proven)
  BY <1>1 DEF Knows
<1>3. \A t \in Slots : calls'[t] = calls[t] \/ calls'[t] = NoCall
  BY DEF End, IInv, Typed
<1>4. calls' = [t \in Slots |-> calls'[t]]
  <2>1. DOMAIN calls = Slots
    BY DEF IInv, Typed
  <2>2. calls' = [t \in Slots |-> IF t = s THEN NoCall ELSE calls[t]]
    BY <2>1, Zenon DEF End
  <2> QED BY <2>2
<1> QED BY <1>1, <1>2, <1>3, <1>4 DEF CallsMove

LEMMA BeginOfCall ==
  ASSUME IInv, NEW kind, NEW who, NEW i, NEW row, NEW arg, Begin(kind, who, i, row, arg),
         Knows([kind |-> kind, who |-> who, id |-> i, row |-> row, arg |-> arg],
               past'.granted, past'.proven)
  PROVE  CallsMove
<1> DEFINE c == [kind |-> kind, who |-> who, id |-> i, row |-> row, arg |-> arg]
           slot == CHOOSE s \in {t \in Slots : calls[t].kind = "none"} :
                       \A r \in {t \in Slots : calls[t].kind = "none"} : s <= r
<1>1. Shaped(c)
  BY DEF Shaped
<1>2. calls' = [calls EXCEPT ![slot] = c]
  BY DEF Begin
<1> HIDE DEF slot, c
<1>3. \A t \in Slots : calls'[t] = calls[t] \/ calls'[t] = c
  BY <1>2 DEF IInv, Typed
<1>4. calls' = [t \in Slots |-> calls'[t]]
  <2>1. DOMAIN calls = Slots
    BY DEF IInv, Typed
  <2>2. calls' = [t \in Slots |-> IF t = slot THEN c ELSE calls[t]]
    BY <1>2, <2>1, Zenon
  <2> QED BY <2>2
<1> QED BY <1>1, <1>3, <1>4 DEF c, CallsMove

LEMMA OtherCallsKnow ==
  ASSUME NEW kind, kind \notin Writing, NEW who, NEW i, NEW row, NEW arg, NEW g, NEW p
  PROVE  Knows([kind |-> kind, who |-> who, id |-> i, row |-> row, arg |-> arg], g, p)
BY DEF Knows, Writing

-----------------------------------------------------------------------------
(* Steps that write a user.                                                 *)

LEMMA UsersWritten ==
  ASSUME IInv, PastGrows, past'.loggedOut = past.loggedOut, CallsMove,
         NEW U \in Seq(UserRows), db' = [db EXCEPT !.users = U],
         \A j \in DOMAIN U : /\ <<j, U[j].role>> \in past'.granted
                             /\ <<j, U[j].password>> \in past'.proven
  PROVE  IInv'
<1>1. /\ CallsKnow' /\ calls' = [s \in Slots |-> calls'[s]]
      /\ \A s \in Slots : Shaped(calls'[s])
  BY CallsKeep
<1>2. /\ db'.users = U /\ db'.sessions = db.sessions /\ db'.revoked = db.revoked
      /\ Tabled \subseteq DOMAIN db' /\ Noted \subseteq DOMAIN past'
  BY DEF Tabled, PastGrows, IInv, Typed
<1>3. Typed'
  BY <1>1, <1>2 DEF IInv, Typed
<1>4. LoggedOut'
  BY <1>2 DEF IInv, LoggedOut
<1>5. RoleGranted' /\ PasswordProven'
  BY <1>2 DEF IInv, RoleGranted, PasswordProven, PastGrows
<1> QED BY <1>1, <1>3, <1>4, <1>5 DEF IInv

(* What a request that saves the row it read leaves in the table: the role  *)
(* is the one before, or the one the request saved.                         *)
SavedAs(U, W, i, role) ==
    /\ W \in Seq(UserRows) /\ DOMAIN W = DOMAIN U
    /\ \A j \in DOMAIN U :
        /\ W[j].password = U[j].password
        /\ W[j].role = U[j].role \/ (j = i /\ W[j].role = role)

LEMMA UserSaved ==
  ASSUME NEW U \in Seq(UserRows), NEW i, NEW u \in UserRows
  PROVE  /\ SavedAs(U, UpdateUser(U, i, u).t, i, u.role)
         /\ UpdateUser(U, i, u) = Outcome(UpdateUser(U, i, u).t, UpdateUser(U, i, u).id,
                                          UpdateUser(U, i, u).err)
<1>1. UpdateUser(U, i, u) = Outcome(UpdateUser(U, i, u).t, UpdateUser(U, i, u).id,
                                   UpdateUser(U, i, u).err)
  BY DEF UpdateUser, Change, Refused, Outcome
<1> QED BY <1>1, UserUpdated DEF SavedAs

LEMMA Untouched ==
  ASSUME NEW U \in Seq(UserRows), NEW i, NEW role
  PROVE  SavedAs(U, U, i, role)
BY DEF SavedAs

LEMMA PlainTable ==
  ASSUME NEW T, NEW i, NEW err
  PROVE  /\ Plain(Outcome(T, i, err)).t = T
         /\ Plain(Outcome(T, i, err)) =
                Outcome(T, i, IF err = "none" THEN "ok" ELSE "internal")
BY DEF Plain, Outcome

LEMMA RowPatched ==
  ASSUME NEW row \in UserRows, NEW patch \in Patches, patch.role \in Roles \cup {Nil}
  PROVE  /\ PatchedUser(row, patch) \in UserRows
         /\ PatchedUser(row, patch).role = IF patch.role = Nil THEN row.role ELSE patch.role
BY DEF PatchedUser, UserRows, Patches, Coalesce

LEMMA UserRequestSaves ==
  ASSUME NEW U \in Seq(UserRows), NEW who, NEW i, NEW row \in UserRows, NEW patch \in Patches
  PROVE  LET r == UpdateUserRequest(U, who, i, row, patch)
         IN \/ r.t = U
            \/ /\ r.status = 200
               /\ SavedAs(U, r.t, i, IF patch.role = Nil THEN row.role ELSE patch.role)
<1> DEFINE o == UserServiceSave(U, i, row, patch)
           r == UpdateUserRequest(U, who, i, row, patch)
           a == AsAdmin(who.role, o)
<1>1. \/ o = Invalid(U)
      \/ /\ patch.role \in Roles \cup {Nil}
         /\ o = Plain(UpdateUser(U, i, PatchedUser(row, patch)))
  BY DEF UserServiceSave, UserRepoUpdate
<1>2. r = [t |-> IF Ok(a) THEN a.t ELSE U, status |-> Response(a, 200)]
  BY DEF UpdateUserRequest, Handle
<1>3. a = o \/ ~Ok(a)
  BY DEF AsAdmin, Ok, Refused, Outcome
<1>4. CASE ~Ok(a)
  BY <1>2, <1>4
<1>5. CASE a = o /\ Ok(a)
  <2>1. o # Invalid(U)
    BY <1>5 DEF Invalid, Refused, Outcome, Ok
  <2>2. patch.role \in Roles \cup {Nil} /\ o = Plain(UpdateUser(U, i, PatchedUser(row, patch)))
    BY <1>1, <2>1
  <2>3. SavedAs(U, o.t, i, IF patch.role = Nil THEN row.role ELSE patch.role)
    BY <2>2, RowPatched, UserSaved, PlainTable
  <2>4. r.status = 200 /\ r.t = o.t
    BY <1>2, <1>5 DEF Response
  <2> HIDE DEF o, r
  <2> QED BY <2>3, <2>4 DEF r
<1> QED BY <1>3, <1>4, <1>5

LEMMA ProfileRequestSaves ==
  ASSUME NEW U \in Seq(UserRows), NEW who, NEW row \in UserRows, NEW patch \in Patches
  PROVE  SavedAs(U, UpdateMyProfileRequest(U, who, row, patch).t, who.user, row.role)
<1> DEFINE o == UpdateProfileSave(U, who.user, row, patch)
           r == UpdateMyProfileRequest(U, who, row, patch)
           u == PatchedUser(row, [patch EXCEPT !.role = Nil])
           w == UpdateUser(U, who.user, u)
<1>1. u \in UserRows /\ u.role = row.role
  BY DEF PatchedUser, UserRows, Patches, Coalesce
<1>2. o = Invalid(U) \/ o = Refused(U, "conflict") \/ o = Plain(w)
  BY DEF UpdateProfileSave, UserRepoUpdate
<1>3. r.t = U \/ (r.t = o.t /\ Ok(o))
  BY DEF UpdateMyProfileRequest, Reply, Invalid, Refused, Outcome
<1> HIDE DEF u, r
<1>4. CASE r.t = U
  BY <1>4, Untouched DEF r
<1>5. CASE r.t = o.t /\ Ok(o)
  <2>1. o = Plain(w)
    BY <1>2, <1>5 DEF Invalid, Refused, Outcome, Ok
  <2>2. SavedAs(U, w.t, who.user, u.role) /\ w = Outcome(w.t, w.id, w.err)
    BY <1>1, UserSaved
  <2> HIDE DEF o, w
  <2>3. o.t = w.t
    BY <2>1, <2>2, PlainTable
  <2> QED BY <1>1, <1>5, <2>2, <2>3 DEF r
<1> QED BY <1>3, <1>4, <1>5

LEMMA ResetSaves ==
  ASSUME NEW U \in Seq(UserRows), NEW i, NEW row \in UserRows, NEW pw \in STRING
  PROVE  SavedAs(U, ResetPasswordSave(U, i, row, pw).t, i, row.role)
<1>1. [row EXCEPT !.password = pw] \in UserRows /\ [row EXCEPT !.password = pw].role = row.role
  BY DEF UserRows
<1> DEFINE u == [row EXCEPT !.password = pw]
<1> HIDE DEF u
<1>2. ResetPasswordSave(U, i, row, pw) = Plain(UpdateUser(U, i, u))
  BY DEF ResetPasswordSave, UserRepoUpdate, u
<1>3. u \in UserRows /\ u.role = row.role
  BY <1>1 DEF u
<1>4. Plain(UpdateUser(U, i, u)).t = UpdateUser(U, i, u).t
  BY <1>3, UserSaved, PlainTable
<1> QED BY <1>2, <1>3, <1>4, UserSaved

(* A table that was saved so holds what was granted and proven.             *)
LEMMA SavedKeeps ==
  ASSUME IInv, PastGrows, past'.loggedOut = past.loggedOut, CallsMove,
         NEW W, NEW i, NEW role, SavedAs(db.users, W, i, role), db' = [db EXCEPT !.users = W],
         <<i, role>> \in past'.granted
  PROVE  IInv'
<1>1. \A j \in DOMAIN W : /\ <<j, W[j].role>> \in past'.granted
                          /\ <<j, W[j].password>> \in past'.proven
  BY DEF SavedAs, IInv, RoleGranted, PasswordProven, PastGrows
<1> QED BY <1>1, UsersWritten DEF SavedAs

-----------------------------------------------------------------------------
(* The requests on accounts, one by one.                                    *)

LEMMA Register201 ==
  ASSUME IInv, RegisterUser
  PROVE  IInv'
<1>1. PICK email \in Inputs.emails, pw \in Inputs.passwords, name \in Inputs.people :
        LET r == RegisterRequest(db.users, email, pw, name)
        IN /\ Put("users", r)
           /\ past' = IF r.status # 201 THEN past
                      ELSE [past EXCEPT !.granted = @ \cup {<<r.id, "user">>},
                                        !.proven = @ \cup {<<r.id, pw>>},
                                        !.held = @ \cup {<<r.id, pw>>}]
  BY DEF RegisterUser
<1> DEFINE r == RegisterRequest(db.users, email, pw, name)
<1>2. email \in STRING /\ pw \in STRING /\ name \in STRING
  BY InputsAssumption
<1>3. \/ r.status # 201 /\ r.t = db.users
      \/ /\ r.status = 201 /\ r.id = Len(db.users) + 1 /\ r.t \in Seq(UserRows)
         /\ Len(r.t) = Len(db.users) + 1
         /\ r.t[r.id].role = "user" /\ r.t[r.id].password = pw
         /\ \A j \in DOMAIN db.users : r.t[j] = db.users[j]
  BY <1>2, UserCreated DEF IInv, Typed
<1>4. /\ db' = [db EXCEPT !.users = r.t] /\ UNCHANGED calls
      /\ past' = IF r.status # 201 THEN past
                 ELSE [past EXCEPT !.granted = @ \cup {<<r.id, "user">>},
                                   !.proven = @ \cup {<<r.id, pw>>},
                                   !.held = @ \cup {<<r.id, pw>>}]
  BY <1>1 DEF Put, RegisterUser
<1>5. CallsMove
  BY <1>4 DEF CallsMove, IInv, Typed
<1> HIDE DEF r
<1>6. CASE r.status # 201 /\ r.t = db.users
  <2>1. past' = past
    BY <1>4, <1>6
  <2> QED BY <1>4, <1>5, <1>6, <2>1, PastStays, UsersWritten
             DEF IInv, Typed, RoleGranted, PasswordProven
<1>7. CASE /\ r.status = 201 /\ r.id = Len(db.users) + 1 /\ r.t \in Seq(UserRows)
           /\ Len(r.t) = Len(db.users) + 1
           /\ r.t[r.id].role = "user" /\ r.t[r.id].password = pw
           /\ \A j \in DOMAIN db.users : r.t[j] = db.users[j]
  <2>1. past' = [past EXCEPT !.granted = @ \cup {<<r.id, "user">>},
                             !.proven = @ \cup {<<r.id, pw>>},
                             !.held = @ \cup {<<r.id, pw>>}]
    BY <1>4, <1>7
  <2>2. /\ Noted \subseteq DOMAIN past' /\ past'.loggedOut = past.loggedOut
        /\ past'.granted = past.granted \cup {<<r.id, "user">>}
        /\ past'.proven = past.proven \cup {<<r.id, pw>>}
    BY <2>1 DEF IInv, Typed, Noted
  <2>3. DOMAIN db.users = 1..Len(db.users) /\ Len(db.users) \in Nat
        /\ DOMAIN r.t = 1..(Len(db.users) + 1)
    BY <1>7, LenProperties DEF IInv, Typed
  <2>4. \A j \in DOMAIN r.t : j = r.id \/ j \in DOMAIN db.users
    BY <1>7, <2>3
  <2>5. \A j \in DOMAIN r.t : /\ <<j, r.t[j].role>> \in past'.granted
                              /\ <<j, r.t[j].password>> \in past'.proven
    BY <1>7, <2>2, <2>4 DEF IInv, RoleGranted, PasswordProven
  <2>6. PastGrows
    BY <2>2 DEF PastGrows
  <2> QED BY <1>4, <1>5, <1>7, <2>2, <2>5, <2>6, UsersWritten
<1> QED BY <1>3, <1>6, <1>7

(* A session claims the role its user has at that moment.                   *)
LEMMA Login200 ==
  ASSUME IInv, LoginUser
  PROVE  IInv'
<1>1. PICK email \in Inputs.emails, pw \in Inputs.passwords :
        LET r == LoginRequest(db.users, email, pw)
        IN /\ r.status = 200
           /\ db' = [db EXCEPT !.sessions = Append(@, Claims(r.id, db.users[r.id].role))]
  BY DEF LoginUser
<1> DEFINE r == LoginRequest(db.users, email, pw)
           g == Login(db.users, email, pw)
           o == GetUserByEmail(db.users, email)
<1>2. r.id = g.id /\ Ok(g)
  BY <1>1 DEF LoginRequest, Reply, Response, StatusOf
<1>3. o.id \in DOMAIN db.users \/ o.err # "none"
  BY DEF GetUserByEmail, One, RowsWhere, Live, Refused, Outcome
<1>4. o = [t |-> o.t, id |-> o.id, err |-> o.err]
  BY DEF GetUserByEmail, One, Refused, Outcome
<1>5. g.id \in DOMAIN db.users
  <2> HIDE DEF o
  <2>1. \/ g = Invalid(db.users) \/ g = Refused(db.users, "unauthorized")
        \/ o.err = "none" /\ g = As(o, "internal")
    BY DEF Login, UserRepoGetByEmail, o
  <2>2. g # Invalid(db.users) /\ g # Refused(db.users, "unauthorized")
    BY <1>2 DEF Ok, Invalid, Refused, Outcome
  <2> QED BY <1>3, <1>4, <2>1, <2>2 DEF As
<1> HIDE DEF r, g, o
<1> DEFINE claims == Claims(g.id, db.users[g.id].role)
           S == Append(db.sessions, claims)
<1>6. db' = [db EXCEPT !.sessions = S] /\ UNCHANGED <<calls, past>>
  BY <1>1, <1>2 DEF LoginUser, r
<1>7. /\ DOMAIN db.users = 1..Len(db.users) /\ Len(db.users) \in Nat
      /\ \A i \in DOMAIN db.users : db.users[i] \in UserRows
  BY LenProperties, ElementOfSeq DEF IInv, Typed
<1>8. claims \in SessionRows /\ claims.user = g.id /\ claims.role = db.users[g.id].role
  BY <1>5, <1>7 DEF Claims, SessionRows, UserRows
<1> HIDE DEF claims
<1>9. /\ DOMAIN db.sessions = 1..Len(db.sessions) /\ Len(db.sessions) \in Nat
      /\ S \in Seq(SessionRows) /\ DOMAIN S = 1..(Len(db.sessions) + 1)
      /\ \A j \in DOMAIN db.sessions : S[j] = db.sessions[j]
      /\ S[Len(db.sessions) + 1] = claims
  BY <1>8, AppendProperties, LenProperties DEF IInv, Typed
<1> HIDE DEF S
<1>10. /\ db'.users = db.users /\ db'.sessions = S /\ db'.revoked = db.revoked
       /\ Tabled \subseteq DOMAIN db'
  BY <1>6 DEF IInv, Typed, Tabled
<1>11. Typed' /\ CallsKnow'
  BY <1>6, <1>9, <1>10 DEF IInv, Typed, CallsKnow
<1>12. LoggedOut'
  BY <1>6, <1>9, <1>10 DEF IInv, LoggedOut
<1>13. \A j \in DOMAIN S : <<S[j].user, S[j].role>> \in past.granted
  <2>1. \A j \in DOMAIN S : j \in DOMAIN db.sessions \/ j = Len(db.sessions) + 1
    BY <1>9
  <2> QED BY <1>5, <1>8, <1>9, <2>1 DEF IInv, RoleGranted
<1>14. RoleGranted' /\ PasswordProven'
  BY <1>6, <1>10, <1>13 DEF IInv, RoleGranted, PasswordProven
<1> QED BY <1>11, <1>12, <1>14 DEF IInv

(* What the rest of the sessions' steps do: the users, the roles and what    *)
(* is known stay, and whoever logged out is revoked or expired.             *)
LEMMA SessionsKeep ==
  ASSUME IInv, NEW S, NEW R, PastGrows, UNCHANGED calls,
         past'.granted = past.granted, past'.proven = past.proven,
         Tabled \subseteq DOMAIN db', db'.users = db.users, db'.sessions = S, db'.revoked = R,
         S \in Seq(SessionRows), DOMAIN S = DOMAIN db.sessions,
         \A j \in DOMAIN S : /\ S[j].user = db.sessions[j].user
                             /\ S[j].role = db.sessions[j].role,
         \A j \in past'.loggedOut : j \in DOMAIN S /\ (j \in R \/ S[j].expired)
  PROVE  IInv'
<1>1. Typed' /\ CallsKnow'
  BY DEF IInv, Typed, CallsKnow, PastGrows
<1>2. LoggedOut'
  BY DEF LoggedOut
<1>3. RoleGranted' /\ PasswordProven'
  BY DEF IInv, RoleGranted, PasswordProven
<1> QED BY <1>1, <1>2, <1>3 DEF IInv

LEMMA Logout204 ==
  ASSUME IInv, LogoutUser
  PROVE  IInv'
<1>1. PICK jti \in DOMAIN db.sessions :
        /\ Auth(db.sessions, db.revoked, jti) = "ok"
        /\ Put("revoked", LogoutRequest(db.revoked, db.sessions, jti))
        /\ past' = [past EXCEPT !.loggedOut = @ \cup {jti}]
  BY DEF LogoutUser
<1>2. ~db.sessions[jti].expired
  BY <1>1 DEF Auth, Accepted, ValidateToken
<1>3. LogoutRequest(db.revoked, db.sessions, jti).t = db.revoked \cup {jti}
  BY <1>2 DEF LogoutRequest, Logout, ValidateToken, InsertRevokedToken
<1>4. /\ Tabled \subseteq DOMAIN db' /\ db'.users = db.users /\ db'.sessions = db.sessions
      /\ db'.revoked = db.revoked \cup {jti}
  BY <1>1, <1>3 DEF Put, IInv, Typed, Tabled
<1>5. /\ PastGrows /\ past'.loggedOut = past.loggedOut \cup {jti}
      /\ past'.granted = past.granted /\ past'.proven = past.proven
  BY <1>1 DEF PastGrows, IInv, Typed, Noted
<1>6. \A j \in past'.loggedOut :
        j \in DOMAIN db.sessions /\ (j \in db.revoked \cup {jti} \/ db.sessions[j].expired)
  BY <1>5 DEF IInv, LoggedOut
<1>7. UNCHANGED calls /\ db.sessions \in Seq(SessionRows)
  BY DEF LogoutUser, IInv, Typed
<1> QED BY <1>4, <1>5, <1>6, <1>7, SessionsKeep

LEMMA ExpireKeeps ==
  ASSUME IInv, Expire
  PROVE  IInv'
<1>1. /\ DOMAIN db.sessions = 1..Len(db.sessions)
      /\ \A j \in DOMAIN db.sessions : db.sessions[j] \in SessionRows
      /\ PastGrows /\ UNCHANGED <<calls, past>>
  BY LenProperties, ElementOfSeq, PastStays DEF Expire, IInv, Typed
<1>2. CASE \E j \in DOMAIN db.sessions : db' = [db EXCEPT !.sessions[j].expired = TRUE]
  <2>1. PICK j \in DOMAIN db.sessions : db' = [db EXCEPT !.sessions[j].expired = TRUE]
    BY <1>2
  <2> DEFINE claims == [db.sessions[j] EXCEPT !.expired = TRUE]
             S == [db.sessions EXCEPT ![j] = claims]
  <2>2. /\ claims \in SessionRows /\ claims.user = db.sessions[j].user
        /\ claims.role = db.sessions[j].role /\ claims.expired
    BY <1>1 DEF SessionRows
  <2>3. /\ Tabled \subseteq DOMAIN db' /\ db'.users = db.users /\ db'.sessions = S
        /\ db'.revoked = db.revoked
    BY <2>1 DEF IInv, Typed, Tabled
  <2> HIDE DEF claims
  <2>4. S \in Seq(SessionRows) /\ DOMAIN S = DOMAIN db.sessions
        /\ \A k \in DOMAIN S : S[k] = IF k = j THEN claims ELSE db.sessions[k]
    BY <1>1, <2>2, ExceptSeq DEF IInv, Typed
  <2> HIDE DEF S
  <2>5. \A k \in DOMAIN S : /\ S[k].user = db.sessions[k].user
                            /\ S[k].role = db.sessions[k].role
    BY <2>2, <2>4
  <2>6. \A k \in past'.loggedOut : k \in DOMAIN S /\ (k \in db.revoked \/ S[k].expired)
    BY <1>1, <2>2, <2>4 DEF IInv, LoggedOut
  <2> QED BY <1>1, <2>3, <2>4, <2>5, <2>6, SessionsKeep
<1>3. CASE \E i \in DOMAIN db.resets : db' = [db EXCEPT !.resets[i].expired = TRUE]
  <2>1. TablesStay
    BY <1>3 DEF TablesStay, Tabled, IInv, Typed
  <2>2. CallsMove
    BY <1>1 DEF CallsMove, IInv, Typed
  <2> QED BY <1>1, <2>1, <2>2, StillKeeps
<1> QED BY <1>2, <1>3 DEF Expire

(* The cleanup removes the tokens that would be refused anyway.             *)
LEMMA PurgeKeeps ==
  ASSUME IInv, Purge
  PROVE  IInv'
<1> DEFINE R == {j \in db.revoked : ~db.sessions[j].expired}
<1>1. db' = [db EXCEPT !.revoked = R] /\ UNCHANGED <<calls, past>>
  BY DEF Purge, PurgeExpiredTokens, DeleteExpiredRevokedTokens
<1>2. /\ Tabled \subseteq DOMAIN db' /\ db'.users = db.users /\ db'.sessions = db.sessions
      /\ db'.revoked = R
  BY <1>1 DEF IInv, Typed, Tabled
<1>3. \A j \in past'.loggedOut :
        j \in DOMAIN db.sessions /\ (j \in R \/ db.sessions[j].expired)
  BY <1>1 DEF IInv, LoggedOut
<1>4. PastGrows /\ db.sessions \in Seq(SessionRows)
  BY <1>1, PastStays DEF IInv, Typed
<1> HIDE DEF R
<1> QED BY <1>1, <1>2, <1>3, <1>4, SessionsKeep

(* Requests that read a user and keep what they read.                       *)
LEMMA LoadedUser ==
  ASSUME IInv, NEW i, i \in DOMAIN db.users
  PROVE  db.users[i] \in UserRows /\ <<i, db.users[i].role>> \in past.granted
BY ElementOfSeq, LenProperties DEF IInv, Typed, RoleGranted

LEMMA BegunKeeps ==
  ASSUME IInv, NEW kind, NEW who, NEW i, NEW row, NEW arg, Begin(kind, who, i, row, arg),
         UNCHANGED db, PastGrows, past'.loggedOut = past.loggedOut,
         Knows([kind |-> kind, who |-> who, id |-> i, row |-> row, arg |-> arg],
               past'.granted, past'.proven)
  PROVE  IInv'
<1>1. TablesStay
  BY DEF TablesStay, Tabled, IInv, Typed
<1> QED BY <1>1, BeginOfCall, StillKeeps

LEMMA FoundUser ==
  ASSUME NEW U, NEW i, UserRepoGetByID(U, i).err = "none"
  PROVE  i \in DOMAIN U
BY DEF UserRepoGetByID, GetUserByID, RowsWhere, Live, Refused, Outcome

LEMMA ResetBegins ==
  ASSUME IInv, ResetBegin
  PROVE  IInv'
<1>1. PICK i \in DOMAIN db.resets, pw \in Inputs.passwords :
        /\ Ok(ResetPasswordLoad(db.users, db.resets[i].user))
        /\ Begin("reset", [user |-> db.resets[i].user, role |-> Nil], i,
                 db.users[db.resets[i].user], pw)
  BY DEF ResetBegin
<1> DEFINE u == db.resets[i].user
           c == [kind |-> "reset", who |-> [user |-> u, role |-> Nil], id |-> i,
                 row |-> db.users[u], arg |-> pw]
<1>2. UNCHANGED <<db, past>> /\ pw \in STRING
  BY InputsAssumption DEF ResetBegin
<1>3. Ok(Plain(UserRepoGetByID(db.users, u))) => UserRepoGetByID(db.users, u).err = "none"
  BY DEF Ok, Plain, UserRepoGetByID, GetUserByID, Outcome, Refused
<1> HIDE DEF u
<1>4. db.users[u] \in UserRows /\ <<u, db.users[u].role>> \in past.granted
  BY <1>1, <1>3, FoundUser, LoadedUser DEF ResetPasswordLoad, u
<1>5. Knows(c, past.granted, past.proven)
  BY <1>2, <1>4 DEF Knows
<1> QED BY <1>1, <1>2, <1>5, PastStays, BegunKeeps DEF u

LEMMA UserBegins ==
  ASSUME IInv, UpdateUserBegin
  PROVE  IInv'
<1>1. PICK who \in Admins, i \in DOMAIN db.users, patch \in Inputs.userPatches :
        Begin("user", who, i, db.users[i], patch)
  BY DEF UpdateUserBegin
<1> DEFINE c == [kind |-> "user", who |-> who, id |-> i, row |-> db.users[i], arg |-> patch]
<1>2. UNCHANGED <<db, past>> /\ patch \in Patches
  BY InputsAssumption DEF UpdateUserBegin, Patches
<1>3. db.users[i] \in UserRows /\ <<i, db.users[i].role>> \in past.granted
  BY LoadedUser
<1>4. Knows(c, past.granted, past.proven)
  BY <1>2, <1>3 DEF Knows
<1> QED BY <1>1, <1>2, <1>4, PastStays, BegunKeeps

LEMMA ProfileBegins ==
  ASSUME IInv, UpdateProfileBegin
  PROVE  IInv'
<1>1. PICK who \in Callers, patch \in Inputs.userPatches :
        /\ Ok(UpdateProfileLoad(db.users, who.user))
        /\ Begin("profile", who, who.user, db.users[who.user], patch)
  BY DEF UpdateProfileBegin
<1> DEFINE u == who.user
           c == [kind |-> "profile", who |-> who, id |-> u, row |-> db.users[u], arg |-> patch]
<1>2. UNCHANGED <<db, past>> /\ patch \in Patches
  BY InputsAssumption DEF UpdateProfileBegin, Patches
<1>3. Ok(UpdateProfileLoad(db.users, u)) => UserRepoGetByID(db.users, u).err = "none"
  BY DEF Ok, UpdateProfileLoad, As, UserRepoGetByID, GetUserByID, Outcome, Refused
<1>4. db.users[u] \in UserRows /\ <<u, db.users[u].role>> \in past.granted
  BY <1>1, <1>3, FoundUser, LoadedUser
<1>5. Knows(c, past.granted, past.proven)
  BY <1>2, <1>4 DEF Knows
<1> QED BY <1>1, <1>2, <1>5, PastStays, BegunKeeps

(* The check passes only if the password that was given is the stored one. *)
LEMMA PasswordBegins ==
  ASSUME IInv, ChangePasswordBegin
  PROVE  IInv'
<1>1. PICK who \in Callers, current \in Inputs.passwords, pw \in Inputs.passwords :
        /\ Ok(ChangeMyPasswordCheck(db.users, who, current, pw))
        /\ Begin("password", who, who.user, Nil, pw)
        /\ past' = IF db.users[who.user].password = current
                   THEN [past EXCEPT !.proven = @ \cup {<<who.user, pw>>}] ELSE past
  BY DEF ChangePasswordBegin
<1> DEFINE u == who.user
           c == [kind |-> "password", who |-> who, id |-> u, row |-> Nil, arg |-> pw]
<1>2. UNCHANGED db /\ pw \in STRING
  BY InputsAssumption DEF ChangePasswordBegin
<1>3. db.users[u].password = current
  <2>1. Ok(ChangePasswordLoad(db.users, u, current, pw))
    BY <1>1 DEF ChangeMyPasswordCheck, Ok, Invalid, Refused, Outcome
  <2>2. CASE UserRepoGetByID(db.users, u).err # "none"
    BY <2>1, <2>2 DEF ChangePasswordLoad, Ok, Refused, Outcome
  <2>3. CASE UserRepoGetByID(db.users, u).err = "none" /\ db.users[u].password # current
    <3>1. ChangePasswordLoad(db.users, u, current, pw) = Refused(db.users, "unauthorized")
      BY <2>3 DEF ChangePasswordLoad
    <3> QED BY <2>1, <3>1 DEF Ok, Refused, Outcome
  <2> QED BY <2>2, <2>3
<1>4. past' = [past EXCEPT !.proven = @ \cup {<<u, pw>>}]
  BY <1>1, <1>3
<1>5. /\ PastGrows /\ past'.loggedOut = past.loggedOut
      /\ past'.proven = past.proven \cup {<<u, pw>>}
  BY <1>4 DEF PastGrows, IInv, Typed, Noted
<1>6. Knows(c, past'.granted, past'.proven)
  BY <1>2, <1>5 DEF Knows
<1> QED BY <1>1, <1>2, <1>5, <1>6, BegunKeeps

-----------------------------------------------------------------------------
(* Requests that write what they hold.                                      *)

(* The reset goes through the statement that does not write the hash.       *)
LEMMA ResetSaveKeeps ==
  ASSUME IInv, NEW s \in Slots, ResetSave(s)
  PROVE  IInv'
<1> DEFINE u == calls[s].who.user
           o == ResetPasswordSave(db.users, u, calls[s].row, calls[s].arg)
<1>1. /\ calls[s].row \in UserRows /\ calls[s].arg \in STRING
      /\ <<u, calls[s].row.role>> \in past.granted /\ db.users \in Seq(UserRows)
      /\ Shaped(calls[s])
  BY DEF ResetSave, In, IInv, CallsKnow, Knows, Typed
<1>2. CASE Ok(o)
  <2>1. /\ db' = [db EXCEPT !.users = o.t] /\ calls' = [calls EXCEPT ![s].kind = "mark"]
        /\ past' = [past EXCEPT !.held = @ \cup {<<u, o.t[u].password>>}]
    BY <1>2 DEF ResetSave
  <2>2. SavedAs(db.users, o.t, u, calls[s].row.role)
    BY <1>1, ResetSaves
  <2>3. PastGrows /\ past'.loggedOut = past.loggedOut
    BY <2>1 DEF PastGrows, IInv, Typed, Noted
  <2>4. CallsMove
    <3> DEFINE c == [calls[s] EXCEPT !.kind = "mark"]
    <3>1. Shaped(c) /\ c.kind = "mark"
      BY <1>1 DEF Shaped
    <3>2. Knows(c, past'.granted, past'.proven)
      BY <3>1 DEF Knows
    <3>3. DOMAIN calls = Slots
      BY DEF IInv, Typed
    <3> HIDE DEF c
    <3>4. calls' = [t \in Slots |-> IF t = s THEN c ELSE calls[t]]
      BY <2>1, <3>3, Zenon DEF c
    <3> QED BY <3>1, <3>2, <3>4 DEF CallsMove
  <2>5. <<u, calls[s].row.role>> \in past'.granted
    BY <1>1, <2>3 DEF PastGrows
  <2> HIDE DEF o
  <2> QED BY <2>1, <2>2, <2>3, <2>4, <2>5, SavedKeeps
<1>3. CASE ~Ok(o)
  <2>1. End(s) /\ UNCHANGED <<db, past>>
    BY <1>3 DEF ResetSave
  <2>2. TablesStay
    BY <2>1 DEF TablesStay, IInv, Typed
  <2> QED BY <2>1, <2>2, PastStays, EndOfCall, StillKeeps
<1> QED BY <1>2, <1>3

LEMMA ResetMarkKeeps ==
  ASSUME IInv, NEW s \in Slots, ResetMark(s)
  PROVE  IInv'
<1>1. /\ TablesStay /\ PastGrows /\ past'.loggedOut = past.loggedOut
  BY DEF ResetMark, TablesStay, Tabled, PastGrows, IInv, Typed, Noted
<1>2. CallsMove
  BY EndOfCall DEF ResetMark
<1> QED BY <1>1, <1>2, StillKeeps

LEMMA UserEnds ==
  ASSUME IInv, NEW s \in Slots, UpdateUserEnd(s)
  PROVE  IInv'
<1> DEFINE c == calls[s]
           r == UpdateUserRequest(db.users, c.who, c.id, c.row, c.arg)
           role == IF c.arg.role = Nil THEN c.row.role ELSE c.arg.role
<1>1. /\ c.row \in UserRows /\ c.arg \in Patches /\ db.users \in Seq(UserRows)
      /\ <<c.id, c.row.role>> \in past.granted
  BY DEF UpdateUserEnd, In, IInv, CallsKnow, Knows, Typed
<1>2. /\ db' = [db EXCEPT !.users = r.t]
      /\ past' = IF r.status = 200 /\ c.arg.role # Nil
                 THEN [past EXCEPT !.granted = @ \cup {<<c.id, c.arg.role>>}] ELSE past
  BY DEF UpdateUserEnd, Put
<1>3. CallsMove
  BY EndOfCall DEF UpdateUserEnd
<1>4. r.t = db.users \/ (r.status = 200 /\ SavedAs(db.users, r.t, c.id, role))
  BY <1>1, UserRequestSaves
<1> HIDE DEF r
<1>5. PastGrows /\ past'.loggedOut = past.loggedOut
      /\ (r.status = 200 => <<c.id, role>> \in past'.granted)
  <2>1. CASE r.status = 200 /\ c.arg.role # Nil
    BY <1>2, <2>1 DEF PastGrows, IInv, Typed, Noted
  <2>2. CASE ~(r.status = 200 /\ c.arg.role # Nil)
    BY <1>1, <1>2, <2>2 DEF PastGrows, IInv, Typed
  <2> QED BY <2>1, <2>2
<1>6. CASE r.t = db.users
  <2>1. SavedAs(db.users, r.t, c.id, c.row.role)
    BY <1>1, <1>6, Untouched
  <2>2. <<c.id, c.row.role>> \in past'.granted
    BY <1>1, <1>5 DEF PastGrows
  <2> QED BY <1>2, <1>3, <1>5, <2>1, <2>2, SavedKeeps
<1>7. CASE r.status = 200 /\ SavedAs(db.users, r.t, c.id, role)
  <2> HIDE DEF role
  <2> QED BY <1>2, <1>3, <1>5, <1>7, SavedKeeps
<1> QED BY <1>4, <1>6, <1>7

LEMMA ProfileEnds ==
  ASSUME IInv, NEW s \in Slots, UpdateProfileEnd(s)
  PROVE  IInv'
<1> DEFINE c == calls[s]
           r == UpdateMyProfileRequest(db.users, c.who, c.row, c.arg)
<1>1. /\ c.row \in UserRows /\ c.arg \in Patches /\ db.users \in Seq(UserRows)
      /\ <<c.who.user, c.row.role>> \in past.granted
  BY DEF UpdateProfileEnd, In, IInv, CallsKnow, Knows, Typed
<1>2. db' = [db EXCEPT !.users = r.t] /\ UNCHANGED past
  BY DEF UpdateProfileEnd, Put
<1>3. CallsMove
  BY EndOfCall DEF UpdateProfileEnd
<1>4. SavedAs(db.users, r.t, c.who.user, c.row.role)
  BY <1>1, ProfileRequestSaves
<1> HIDE DEF r
<1>5. <<c.who.user, c.row.role>> \in past'.granted
  BY <1>1, <1>2
<1> QED BY <1>2, <1>3, <1>4, <1>5, PastStays, SavedKeeps

LEMMA PasswordEnds ==
  ASSUME IInv, NEW s \in Slots, ChangePasswordEnd(s)
  PROVE  IInv'
<1> DEFINE c == calls[s]
           q == UpdateUserPasswordHash(db.users, c.id, c.arg)
           o == ChangePasswordSave(db.users, c.id, c.arg)
<1>1. /\ c.arg \in STRING /\ <<c.id, c.arg>> \in past.proven /\ db.users \in Seq(UserRows)
  BY DEF ChangePasswordEnd, In, IInv, CallsKnow, Knows, Typed
<1>2. /\ db' = [db EXCEPT !.users = o.t]
      /\ past' = [past EXCEPT !.held = @ \cup {<<c.id, o.t[c.id].password>>}]
  BY DEF ChangePasswordEnd
<1>3. CallsMove
  BY EndOfCall DEF ChangePasswordEnd
<1>4. o.t = q.t
  <2>1. o = Plain(q)
    BY DEF ChangePasswordSave, UserRepoUpdatePasswordHash
  <2>2. q = Outcome(q.t, q.id, q.err)
    BY DEF UpdateUserPasswordHash, Outcome
  <2> HIDE DEF o, q
  <2> QED BY <2>1, <2>2, PlainTable
<1> HIDE DEF o
<1>5. PastGrows /\ past'.loggedOut = past.loggedOut
  BY <1>2 DEF PastGrows, IInv, Typed, Noted
<1>6. /\ q.t \in Seq(UserRows) /\ DOMAIN q.t = DOMAIN db.users
      /\ \A j \in DOMAIN db.users :
           /\ q.t[j].role = db.users[j].role
           /\ q.t[j].password = db.users[j].password \/ (j = c.id /\ q.t[j].password = c.arg)
  <2> HIDE DEF c
  <2>1. \A U, i, hash : U \in Seq(UserRows) /\ hash \in STRING =>
          LET h == UpdateUserPasswordHash(U, i, hash).t
          IN /\ h \in Seq(UserRows) /\ DOMAIN h = DOMAIN U
             /\ \A j \in DOMAIN U :
                  /\ h[j].role = U[j].role
                  /\ h[j].password = U[j].password \/ (j = i /\ h[j].password = hash)
    BY HashUpdated
  <2> QED BY <1>1, <2>1
<1> HIDE DEF q
<1>7. \A j \in DOMAIN q.t : /\ <<j, q.t[j].role>> \in past'.granted
                            /\ <<j, q.t[j].password>> \in past'.proven
  BY <1>1, <1>5, <1>6 DEF IInv, RoleGranted, PasswordProven, PastGrows
<1> QED BY <1>2, <1>3, <1>4, <1>5, <1>6, <1>7, UsersWritten

LEMMA DeleteUserKeeps ==
  ASSUME IInv, DeleteUserNow
  PROVE  IInv'
<1>1. PICK who \in Callers, i \in DOMAIN db.users :
        Put("users", DeleteUserRequest(db.users, who, i))
  BY DEF DeleteUserNow
<1> DEFINE o == UserServiceDelete(db.users, i)
           a == AsAdmin(who.role, o)
           W == DeleteUserRequest(db.users, who, i).t
           D == DeleteUser(db.users, i).t
<1>2. W = db.users \/ W = D
  <2>1. W = db.users \/ (W = a.t /\ Ok(a))
    BY DEF DeleteUserRequest, Handle
  <2>2. a = o \/ ~Ok(a)
    BY DEF AsAdmin, Ok, Refused, Outcome
  <2>3. o = Plain(DeleteUser(db.users, i)) \/ ~Ok(o)
    BY DEF UserServiceDelete, UserRepoDelete
  <2>4. Plain(DeleteUser(db.users, i)).t = D
    <3>1. DeleteUser(db.users, i) = Outcome(D, DeleteUser(db.users, i).id,
                                            DeleteUser(db.users, i).err)
      BY DEF DeleteUser, Outcome
    <3> HIDE DEF D
    <3> QED BY <3>1, PlainTable
  <2> QED BY <2>1, <2>2, <2>3, <2>4
<1>3. db' = [db EXCEPT !.users = W] /\ UNCHANGED <<calls, past>>
  BY <1>1 DEF Put, DeleteUserNow
<1>4. /\ D \in Seq(UserRows) /\ DOMAIN D = DOMAIN db.users
      /\ \A j \in DOMAIN db.users : /\ D[j].role = db.users[j].role
                                    /\ D[j].password = db.users[j].password
  BY UserDeleted DEF IInv, Typed
<1> HIDE DEF W, D
<1>5. \A j \in DOMAIN W : /\ <<j, W[j].role>> \in past'.granted
                          /\ <<j, W[j].password>> \in past'.proven
  BY <1>2, <1>3, <1>4 DEF IInv, RoleGranted, PasswordProven
<1>6. CallsMove
  BY <1>3 DEF CallsMove, IInv, Typed
<1>7. W \in Seq(UserRows)
  BY <1>2, <1>4 DEF IInv, Typed
<1> QED BY <1>3, <1>5, <1>6, <1>7, PastStays, UsersWritten

-----------------------------------------------------------------------------
(* The rest of the server leaves users, sessions and tokens alone.          *)

LEMMA AsideKeeps ==
  ASSUME IInv, TablesStay, UNCHANGED <<calls, past>>
  PROVE  IInv'
<1>1. CallsMove
  BY DEF CallsMove, IInv, Typed
<1> QED BY <1>1, PastStays, StillKeeps

LEMMA AdminStays ==
  ASSUME IInv, UNCHANGED adminVars
  PROVE  IInv'
BY AsideKeeps DEF adminVars, TablesStay, IInv, Typed

LEMMA PutKeeps ==
  ASSUME IInv, NEW table, table \notin Tabled, NEW r, Put(table, r), UNCHANGED <<calls, past>>
  PROVE  IInv'
BY PutElsewhere, AsideKeeps

LEMMA OpensCall ==
  ASSUME IInv, TablesStay, UNCHANGED past, NEW kind, kind \notin Writing,
         NEW who, NEW i, NEW row, NEW arg, Begin(kind, who, i, row, arg)
  PROVE  IInv'
<1>1. Knows([kind |-> kind, who |-> who, id |-> i, row |-> row, arg |-> arg],
            past'.granted, past'.proven)
  BY OtherCallsKnow
<1> QED BY <1>1, BeginOfCall, PastStays, StillKeeps

LEMMA ClosesCall ==
  ASSUME IInv, TablesStay, PastGrows, past'.loggedOut = past.loggedOut,
         NEW s \in Slots, End(s)
  PROVE  IInv'
BY EndOfCall, StillKeeps

LEMMA OtherRequests ==
  ASSUME IInv,
         NEW withEvents,
         \/ ForgotPasswordMail \/ ChangeMembers \/ ChangeKeys \/ DeleteProjectNow(withEvents)
         \/ UpdatePipeline \/ CreateAgentNow \/ DeleteAgentNow \/ DeleteEnvironmentNow
         \/ ChangeChannels
  PROVE  IInv'
<1>t. /\ "resets" \notin Tabled /\ "members" \notin Tabled /\ "keys" \notin Tabled
      /\ "pipelines" \notin Tabled /\ "agents" \notin Tabled /\ "environments" \notin Tabled
      /\ "configs" \notin Tabled /\ "projects" \notin Tabled
  BY DEF Tabled
<1>1. CASE ForgotPasswordMail
  BY <1>1, <1>t, PutKeeps DEF ForgotPasswordMail
<1>2. CASE ChangeMembers
  BY <1>2, <1>t, PutKeeps DEF ChangeMembers
<1>3. CASE ChangeKeys
  BY <1>3, <1>t, PutKeeps DEF ChangeKeys
<1>4. CASE UpdatePipeline
  BY <1>4, <1>t, PutKeeps DEF UpdatePipeline
<1>5. CASE CreateAgentNow
  BY <1>5, <1>t, PutKeeps DEF CreateAgentNow
<1>6. CASE DeleteEnvironmentNow
  BY <1>6, <1>t, PutKeeps DEF DeleteEnvironmentNow
<1>7. CASE ChangeChannels
  BY <1>7, <1>t, PutKeeps DEF ChangeChannels
<1>8. CASE DeleteAgentNow
  <2>1. PICK who \in Callers, i \in Live(db.agents) :
          LET r == DeleteAgentRequest(db.agents, who, i)
          IN db' = IF r.status = 204 THEN WithoutAgents([db EXCEPT !.agents = r.t], {i}) ELSE db
    BY <1>8 DEF DeleteAgentNow
  <2>2. \A d, x, y : LET e == [d EXCEPT !.attached = x, !.costs = y]
                    IN DOMAIN e = DOMAIN d /\ \A n \in Tabled \cap DOMAIN d : e[n] = d[n]
    BY DEF Tabled
  <2>3. \A d, q : /\ DOMAIN WithoutAgents(d, q) = DOMAIN d
                  /\ \A n \in Tabled \cap DOMAIN d : WithoutAgents(d, q)[n] = d[n]
    BY <2>2 DEF WithoutAgents
  <2>4. TablesStay
    <3> DEFINE d == [db EXCEPT !.agents = DeleteAgentRequest(db.agents, who, i).t]
    <3>1. DOMAIN d = DOMAIN db /\ \A n \in Tabled : d[n] = db[n]
      BY DEF Tabled, IInv, Typed
    <3>2. db' = WithoutAgents(d, {i}) \/ db' = db
      BY <2>1
    <3> HIDE DEF d
    <3> QED BY <2>3, <3>1, <3>2 DEF TablesStay, IInv, Typed
  <2> QED BY <1>8, <2>4, AsideKeeps DEF DeleteAgentNow
<1>9. CASE DeleteProjectNow(withEvents)
  <2>1. PICK who \in Admins, p \in DOMAIN db.projects :
          LET r == DeleteProjectRequest(db.projects, who, p, p \in withEvents)
          IN db' = IF r.status = 204 THEN Cascade([db EXCEPT !.projects = r.t], p) ELSE db
    BY <1>9 DEF DeleteProjectNow
  <2>2. \A d, q : /\ DOMAIN Cascade(d, q) = DOMAIN d
                  /\ \A n \in Tabled \cap DOMAIN d : Cascade(d, q)[n] = d[n]
    <3> TAKE d, q
    <3>1. PICK e : e = WithoutAgents(d, Of(d.agents, q))
      OBVIOUS
    <3>2. \A n \in Tabled \cap DOMAIN d : e[n] = d[n]
      BY <3>1 DEF WithoutAgents, Tabled
    <3>3. /\ DOMAIN Cascade(d, q) = DOMAIN d
          /\ \A n \in Tabled \cap DOMAIN d : Cascade(d, q)[n] = e[n]
      BY <3>1 DEF Cascade, Tabled
    <3> QED BY <3>2, <3>3
  <2>3. TablesStay
    <3> DEFINE d == [db EXCEPT !.projects =
                        DeleteProjectRequest(db.projects, who, p, p \in withEvents).t]
    <3>1. DOMAIN d = DOMAIN db /\ \A n \in Tabled : d[n] = db[n]
      BY DEF Tabled, IInv, Typed
    <3>2. db' = Cascade(d, p) \/ db' = db
      BY <2>1
    <3> HIDE DEF d
    <3> QED BY <2>2, <3>1, <3>2 DEF TablesStay, IInv, Typed
  <2> QED BY <1>9, <2>3, AsideKeeps DEF DeleteProjectNow
<1> QED BY <1>1, <1>2, <1>3, <1>4, <1>5, <1>6, <1>7, <1>8, <1>9

LEMMA OtherCallsBegin ==
  ASSUME IInv, CreateProjectBegin \/ UpdateProjectBegin \/ UpdateAgentBegin \/ PutEnvironmentBegin
  PROVE  IInv'
<1>t. /\ "seed" \notin Writing /\ "project" \notin Writing /\ "agent" \notin Writing
      /\ "environment" \notin Writing /\ "projects" \notin Tabled
  BY DEF Writing, Tabled
<1>s. UNCHANGED db => TablesStay
  BY DEF TablesStay, IInv, Typed
<1>1. CASE CreateProjectBegin
  BY <1>1, <1>t, PutElsewhere, OpensCall DEF CreateProjectBegin
<1>2. CASE UpdateProjectBegin
  BY <1>2, <1>t, <1>s, OpensCall DEF UpdateProjectBegin
<1>3. CASE UpdateAgentBegin
  BY <1>3, <1>t, <1>s, OpensCall DEF UpdateAgentBegin
<1>4. CASE PutEnvironmentBegin
  BY <1>4, <1>t, <1>s, OpensCall DEF PutEnvironmentBegin
<1> QED BY <1>1, <1>2, <1>3, <1>4

LEMMA OtherCallsEnd ==
  ASSUME IInv, NEW s \in Slots,
         \/ CreateProjectEnd(s) \/ UpdateProjectEnd(s) \/ UpdateAgentEnd(s)
         \/ PutEnvironmentEnd(s)
  PROVE  IInv'
<1>t. /\ "projects" \notin Tabled /\ "agents" \notin Tabled /\ "environments" \notin Tabled
  BY DEF Tabled
<1>1. End(s) /\ UNCHANGED past
  BY DEF CreateProjectEnd, UpdateProjectEnd, UpdateAgentEnd, PutEnvironmentEnd
<1>2. TablesStay
  <2>1. CASE CreateProjectEnd(s)
    <3>1. \E o : db' = [db EXCEPT !.pipelines = o]
      BY <2>1 DEF CreateProjectEnd
    <3> QED BY <3>1 DEF TablesStay, Tabled, IInv, Typed
  <2>2. CASE UpdateProjectEnd(s)
    BY <2>2, <1>t, PutElsewhere DEF UpdateProjectEnd
  <2>3. CASE UpdateAgentEnd(s)
    BY <2>3, <1>t, PutElsewhere DEF UpdateAgentEnd
  <2>4. CASE PutEnvironmentEnd(s)
    BY <2>4, <1>t, PutElsewhere DEF PutEnvironmentEnd
  <2> QED BY <2>1, <2>2, <2>3, <2>4
<1> QED BY <1>1, <1>2, PastStays, ClosesCall

(* A crash drops the requests in progress; a start seeds the stacks.        *)
LEMMA CallsLostKeeps ==
  ASSUME IInv, CallsLost
  PROVE  IInv'
<1>1. Shaped(NoCall) /\ Knows(NoCall, past'.granted, past'.proven)
  BY DEF Shaped, NoCall, Knows
<1>2. CallsMove
  BY <1>1 DEF CallsLost, CallsMove
<1>3. PastGrows /\ past'.loggedOut = past.loggedOut /\ TablesStay
  BY DEF CallsLost, PastGrows, TablesStay, IInv, Typed, Noted
<1> QED BY <1>2, <1>3, StillKeeps

LEMMA StartedKeeps ==
  ASSUME IInv, Started
  PROVE  IInv'
<1>1. \E o : db' = [db EXCEPT !.stacks = o]
  BY DEF Started
<1>2. TablesStay
  BY <1>1 DEF TablesStay, Tabled, IInv, Typed
<1> QED BY <1>2, AsideKeeps DEF Started

LEMMA SeedFailsKeeps ==
  ASSUME IInv, NEW s \in Slots, SeedFails(s)
  PROVE  IInv'
<1>1. PastGrows /\ past'.loggedOut = past.loggedOut /\ TablesStay
  BY DEF SeedFails, PastGrows, TablesStay, IInv, Typed, Noted
<1> QED BY <1>1, ClosesCall DEF SeedFails

-----------------------------------------------------------------------------
LEMMA RequestsKeep ==
  ASSUME IInv, Requests
  PROVE  IInv'
<1>1. (\E withEvents : AdminRequests(withEvents)) \/ AdminSteps
  BY DEF Requests
<1>2. ASSUME NEW withEvents, AdminRequests(withEvents)
      PROVE  IInv'
  BY <1>2, Register201, Login200, Logout204, ExpireKeeps, PurgeKeeps, ResetBegins, UserBegins,
     ProfileBegins, PasswordBegins, DeleteUserKeeps, OtherRequests, OtherCallsBegin
     DEF AdminRequests
<1>3. ASSUME AdminSteps
      PROVE  IInv'
  <2> PICK s \in Slots :
        \/ ResetSave(s) \/ ResetMark(s) \/ UpdateUserEnd(s) \/ UpdateProfileEnd(s)
        \/ ChangePasswordEnd(s) \/ CreateProjectEnd(s) \/ UpdateProjectEnd(s)
        \/ UpdateAgentEnd(s) \/ PutEnvironmentEnd(s)
    BY <1>3 DEF AdminSteps
  <2> QED BY ResetSaveKeeps, ResetMarkKeeps, UserEnds, ProfileEnds, PasswordEnds, OtherCallsEnd
<1> QED BY <1>1, <1>2, <1>3

LEMMA ReportsKeep ==
  ASSUME IInv, Reports
  PROVE  IInv'
<1>t. "costs" \notin Tabled /\ "stories" \notin Tabled
  BY DEF Tabled
<1>1. UNCHANGED <<calls, past>>
  BY DEF Reports, RecordCost, CostCallback, DayPasses, StoryDeleted
<1>2. \/ \E r : Put("costs", r)
      \/ \E r : Put("stories", r)
      \/ \E o : db' = [db EXCEPT !.costs = o]
      \/ db' = db
  <2>1. CASE RecordCost
    BY <2>1 DEF RecordCost, NewCosts
  <2>2. CASE CostCallback
    BY <2>2 DEF CostCallback
  <2>3. CASE DayPasses
    BY <2>3 DEF DayPasses
  <2>4. CASE StoryDeleted
    BY <2>4 DEF StoryDeleted
  <2> QED BY <2>1, <2>2, <2>3, <2>4 DEF Reports
<1>3. TablesStay
  <2>1. ASSUME NEW o, db' = [db EXCEPT !.costs = o]
        PROVE  TablesStay
    BY <2>1 DEF TablesStay, Tabled, IInv, Typed
  <2>2. CASE db' = db
    BY <2>2 DEF TablesStay, IInv, Typed
  <2> QED BY <1>t, <1>2, <2>1, <2>2, PutElsewhere
<1> QED BY <1>1, <1>3, AsideKeeps

LEMMA InitHolds == Init => IInv
<1> SUFFICES ASSUME NEW s \in Scenarios, AdminInit(s.db, s.plan)
             PROVE  IInv
  BY DEF Init
<1>1. /\ db = s.db /\ calls = [t \in Slots |-> NoCall]
      /\ past = [loggedOut |-> {}, reset |-> {}, unseeded |-> {},
                 granted |-> {<<i, db.users[i].role>> : i \in DOMAIN db.users},
                 proven |-> {<<i, db.users[i].password>> : i \in DOMAIN db.users},
                 held |-> {<<i, db.users[i].password>> : i \in DOMAIN db.users}]
  BY DEF AdminInit
<1>f. Fits(db)
  BY <1>1, ScenariosAssumption
<1>2. /\ Tabled \subseteq DOMAIN db
      /\ db.users \in Seq(UserRows) /\ db.sessions \in Seq(SessionRows)
      /\ \A j \in DOMAIN db.sessions :
            /\ db.sessions[j].user \in DOMAIN db.users
            /\ db.sessions[j].role = db.users[db.sessions[j].user].role
  BY <1>1, <1>f, ScenariosAssumption DEF Tabled, Fits, UsersFit
<1>3. /\ Noted \subseteq DOMAIN past /\ past.loggedOut = {}
      /\ past.granted = {<<i, db.users[i].role>> : i \in DOMAIN db.users}
      /\ past.proven = {<<i, db.users[i].password>> : i \in DOMAIN db.users}
  BY <1>1 DEF Noted
<1>4. Shaped(NoCall) /\ Knows(NoCall, past.granted, past.proven)
  BY DEF Shaped, NoCall, Knows
<1>5. Typed /\ CallsKnow
  BY <1>1, <1>2, <1>3, <1>4 DEF Typed, CallsKnow
<1>6. LoggedOut
  BY <1>3 DEF LoggedOut
<1>7. RoleGranted /\ PasswordProven
  BY <1>2, <1>3 DEF RoleGranted, PasswordProven
<1> QED BY <1>5, <1>6, <1>7 DEF IInv

LEMMA NextKeeps == IInv /\ [Next]_vars => IInv'
<1> SUFFICES ASSUME IInv, [Next]_vars PROVE IInv'
  OBVIOUS
<1>1. CASE Requests
  BY <1>1, RequestsKeep
<1>2. CASE PublishEvent \/ NotifyStep \/ LogLines \/ OpenStream \/ EndStream \/ BusWork
  BY <1>2, AdminStays DEF PublishEvent, NotifyStep, LogLines, OpenStream, EndStream, BusWork
<1>3. CASE Reports
  BY <1>3, ReportsKeep
<1>4. CASE SendToCopy
  BY <1>4, AdminStays, CallsLostKeeps DEF SendToCopy
<1>5. CASE Faults
  BY <1>5, AdminStays, CallsLostKeeps, SeedFailsKeeps DEF Faults
<1>6. CASE Restart
  BY <1>6, StartedKeeps DEF Restart
<1>7. CASE UNCHANGED vars
  BY <1>7, AdminStays DEF vars
<1> QED BY <1>1, <1>2, <1>3, <1>4, <1>5, <1>6, <1>7 DEF Next

(* The inductive invariant: with it, what the requests in progress hold.    *)
THEOREM AccountsSound == Spec => []IInv
<1> QED BY InitHolds, NextKeeps, PTL DEF Spec

(* A session that logged out is not accepted again, whatever the hourly      *)
(* cleanup removes; nobody has, and no session claims, a role that no        *)
(* administrator gave; no password is stored but one that its owner chose or *)
(* that came with the password before: for any requests in progress.         *)
THEOREM AccountsAreKept == Spec => []AccountsKeep
<1>1. IInv => LogoutSticks
  BY DEF IInv, LoggedOut, LogoutSticks, Auth, Accepted, ValidateToken, IsTokenRevoked
<1>2. IInv => AccountsKeep
  BY <1>1 DEF IInv, AccountsKeep
<1> QED BY <1>2, AccountsSound, PTL

-----------------------------------------------------------------------------
(* The tables: what it is for a table to gain a row, to have one replaced   *)
(* and to lose some.                                                        *)
Entry(row, columns) == columns \cup {"live"} \subseteq DOMAIN row /\ row.live = TRUE
Gains(T, W, row) ==
    /\ DOMAIN W = DOMAIN T \cup {Len(T) + 1} /\ Live(W) = Live(T) \cup {Len(T) + 1}
    /\ Len(T) + 1 \notin DOMAIN T /\ W[Len(T) + 1] = row
    /\ \A i \in DOMAIN T : W[i] = T[i]
Changes(T, W, i, row) ==
    /\ i \in Live(T) /\ DOMAIN W = DOMAIN T /\ Live(W) = Live(T) /\ W[i] = row
    /\ \A j \in DOMAIN T : j # i => W[j] = T[j]
Loses(T, W, ids) ==
    /\ DOMAIN W = DOMAIN T /\ W = [j \in DOMAIN T |-> W[j]]
    /\ \A j \in DOMAIN T : W[j] = [T[j] EXCEPT !.live = @ /\ j \notin ids]

LEMMA RowsAppended ==
  ASSUME NEW T, NEW columns, Rows(T, columns), NEW row, Entry(row, columns)
  PROVE  Rows(Append(T, row), columns) /\ Gains(T, Append(T, row), row)
<1> DEFINE W == Append(T, row)
<1>1. PICK S : S = Range(T) \cup {row}
  OBVIOUS
<1>2. T \in Seq(S) /\ row \in S
  BY <1>1, InRowWider DEF Rows, InRow
<1>3. Len(T) \in Nat /\ DOMAIN T = 1..Len(T)
  BY <1>2, RowFacts
<1>4. /\ W \in Seq(S) /\ DOMAIN W = 1..(Len(T) + 1) /\ W[Len(T) + 1] = row
      /\ \A i \in DOMAIN T : W[i] = T[i]
  BY <1>2, <1>3, AppendProperties, LenProperties
<1> HIDE DEF W
<1>5. \A i \in DOMAIN W : i \in DOMAIN T \/ i = Len(T) + 1
  BY <1>3, <1>4
<1>6. DOMAIN T \cup {Len(T) + 1} = DOMAIN W /\ Len(T) + 1 \notin DOMAIN T
  BY <1>3, <1>4
<1>7. W \in Seq(Range(W))
  BY <1>4, RowFacts DEF InRow
<1>8. Rows(W, columns)
  BY <1>4, <1>5, <1>7 DEF Rows, Entry
<1>9. Live(W) = Live(T) \cup {Len(T) + 1}
  BY <1>4, <1>5, <1>6 DEF Live, Entry
<1> QED BY <1>4, <1>6, <1>8, <1>9 DEF W, Gains

LEMMA RowsReplaced ==
  ASSUME NEW T, NEW columns, Rows(T, columns), NEW i \in Live(T), NEW row,
         Entry(row, columns)
  PROVE  Rows([T EXCEPT ![i] = row], columns) /\ Changes(T, [T EXCEPT ![i] = row], i, row)
<1> DEFINE W == [T EXCEPT ![i] = row]
<1>1. i \in DOMAIN T /\ T[i].live \in BOOLEAN /\ T[i].live = TRUE /\ InRow(T)
  BY DEF Live, Rows, InRow
<1>2. InRow(W)
  BY <1>1, RowPut
<1>3. DOMAIN W = DOMAIN T /\ W[i] = row /\ \A j \in DOMAIN T : j # i => W[j] = T[j]
  BY <1>1
<1> HIDE DEF W
<1>4. Rows(W, columns)
  BY <1>1, <1>2, <1>3 DEF Rows, InRow, Entry
<1>5. Live(W) = Live(T)
  BY <1>1, <1>3 DEF Live, Entry
<1> QED BY <1>3, <1>4, <1>5 DEF W, Changes

LEMMA RowsDropped ==
  ASSUME NEW T, NEW columns, Rows(T, columns), NEW W, NEW ids, Loses(T, W, ids)
  PROVE  /\ Rows(W, columns) /\ Live(W) = Live(T) \ ids
         /\ \A j \in DOMAIN T, c \in columns : c # "live" => W[j][c] = T[j][c]
         /\ \A j \in DOMAIN T : DOMAIN W[j] = DOMAIN T[j]
<1>2. InRow(W)
  <2>1. Len(T) \in Nat /\ DOMAIN T = 1..Len(T)
    BY RowFacts DEF Rows
  <2>2. W \in [1..Len(T) -> Range(W)]
    BY <2>1 DEF Range, Loses
  <2> QED BY <2>1, <2>2, SeqDef DEF InRow
<1>3. \A j \in DOMAIN T : /\ DOMAIN W[j] = DOMAIN T[j]
                          /\ W[j].live = (T[j].live /\ j \notin ids)
                          /\ \A c \in DOMAIN T[j] : c # "live" => W[j][c] = T[j][c]
  BY DEF Rows, Loses
<1>4. \A j \in DOMAIN T : (T[j].live /\ j \notin ids) \in BOOLEAN
  OBVIOUS
<1>5. Rows(W, columns)
  BY <1>2, <1>3, <1>4 DEF Rows, InRow, Loses
<1>6. Live(W) = Live(T) \ ids
  BY <1>3 DEF Live, Loses
<1> QED BY <1>3, <1>5, <1>6 DEF Rows

(* What a repository, a service and a handler make of a statement.          *)
Outcomes(q) == {"t", "id", "err"} \subseteq DOMAIN q
LEMMA Passed ==
  ASSUME NEW q, Outcomes(q)
  PROVE  /\ Repo(q).t = q.t /\ RepoExec(q).t = q.t /\ Plain(q).t = q.t
         /\ Repo(q).id = q.id /\ RepoExec(q).id = q.id
         /\ Outcomes(Repo(q)) /\ Outcomes(RepoExec(q)) /\ Outcomes(Plain(q))
         /\ Ok(Repo(q)) <=> q.err = "none"
         /\ Ok(RepoExec(q)) <=> q.err = "none"
<1>1. ASSUME NEW e PROVE /\ [q EXCEPT !.err = e].t = q.t /\ Outcomes([q EXCEPT !.err = e])
                         /\ [q EXCEPT !.err = e].err = e /\ [q EXCEPT !.err = e].id = q.id
  BY DEF Outcomes
<1>2. DomainError(q.err) = "ok" <=> q.err = "none"
  BY DEF DomainError
<1> QED BY <1>1, <1>2 DEF Repo, RepoExec, Plain, Ok

LEMMA Handled204 ==
  ASSUME NEW T, NEW role, NEW q, Outcomes(q), NEW success
  PROVE  Handle(T, role, q, success).t = T \/ (Ok(q) /\ Handle(T, role, q, success).t = q.t)
<1>1. CASE role = "admin"
  BY <1>1 DEF Handle, AsAdmin
<1>2. CASE role # "admin"
  <2>1. AsAdmin(role, q).err = "forbidden"
    BY <1>2 DEF AsAdmin, Outcomes
  <2> QED BY <2>1 DEF Handle, Ok
<1> QED BY <1>1, <1>2

LEMMA Replied ==
  ASSUME NEW T, NEW q, NEW success
  PROVE  Reply(T, q, success).t = T \/ (Ok(q) /\ Reply(T, q, success).t = q.t)
BY DEF Reply

LEMMA OutcomeFacts ==
  /\ \A T, i, err : /\ Outcomes(Outcome(T, i, err)) /\ Outcome(T, i, err).t = T
                    /\ Outcome(T, i, err).id = i /\ Outcome(T, i, err).err = err
  /\ \A T, err : Outcomes(Refused(T, err)) /\ Refused(T, err).t = T /\ Refused(T, err).err = err
  /\ \A T : Outcomes(Invalid(T)) /\ Invalid(T).t = T /\ ~Ok(Invalid(T))
BY DEF Outcome, Refused, Invalid, Outcomes, Ok

LEMMA Deleted ==
  ASSUME NEW T, NEW columns, Rows(T, columns), NEW i
  PROVE  LET W == Erase(T, i).t
         IN /\ Outcomes(Erase(T, i)) /\ Erase(T, i).err = "none"
            /\ Rows(W, columns) /\ Live(W) = Live(T) \ {i}
            /\ \A j \in DOMAIN T, c \in columns : c # "live" => W[j][c] = T[j][c]
            /\ \A j \in DOMAIN T : DOMAIN W[j] = DOMAIN T[j]
<1> DEFINE V == [j \in DOMAIN T |-> [T[j] EXCEPT !.live = @ /\ j # i]]
<1>1. Erase(T, i) = Outcome(V, i, "none")
  BY DEF Erase
<1>s. PICK ids : ids = {i}
  OBVIOUS
<1>2. \A j \in DOMAIN T : V[j] = [T[j] EXCEPT !.live = @ /\ j \notin ids]
  BY <1>s
<1>3. DOMAIN V = DOMAIN T /\ V = [j \in DOMAIN T |-> V[j]]
  OBVIOUS
<1>l. Loses(T, V, ids)
  BY <1>2, <1>3 DEF Loses
<1> HIDE DEF V
<1>4. /\ Rows(V, columns) /\ Live(V) = Live(T) \ ids
      /\ \A j \in DOMAIN T, c \in columns : c # "live" => V[j][c] = T[j][c]
      /\ \A j \in DOMAIN T : DOMAIN V[j] = DOMAIN T[j]
  BY <1>l, RowsDropped
<1>5. Erase(T, i).t = V /\ Erase(T, i).err = "none" /\ Outcomes(Erase(T, i))
  BY <1>1, OutcomeFacts
<1> QED BY <1>s, <1>4, <1>5
(* A statement, a repository, a service or a handler leaves one of S.       *)
Leaves(q, S) == Outcomes(q) /\ q.t \in S
LEMMA PassedOn ==
  ASSUME NEW q, NEW S, Leaves(q, S)
  PROVE  Leaves(Repo(q), S) /\ Leaves(RepoExec(q), S) /\ Leaves(Plain(q), S)
BY Passed DEF Leaves

LEMMA LeftAlone ==
  ASSUME NEW T, NEW S, T \in S
  PROVE  /\ Leaves(Invalid(T), S) /\ \A err : Leaves(Refused(T, err), S)
         /\ \A i, err : Leaves(Outcome(T, i, err), S)
BY OutcomeFacts DEF Leaves

LEMMA SentBack ==
  ASSUME NEW T, NEW S, T \in S, NEW q, Leaves(q, S), NEW success
  PROVE  Reply(T, q, success).t \in S /\ \A role : Handle(T, role, q, success).t \in S
<1>1. Reply(T, q, success).t \in S
  BY Replied DEF Leaves
<1>2. ASSUME NEW role PROVE Handle(T, role, q, success).t \in S
  BY Handled204 DEF Leaves
<1> QED BY <1>1, <1>2
-----------------------------------------------------------------------------
(* Each table stays what the schema allows, whatever statement is run.      *)

LEMMA MembersFollow ==
  ASSUME NEW M, NEW P, NEW U, MembersFit(M, P, U), NEW Q, NEW V,
         Live(P) \subseteq Live(Q), Live(U) \subseteq Live(V)
  PROVE  MembersFit(M, Q, V)
BY DEF MembersFit, OfProjects

LEMMA MemberAdded ==
  ASSUME NEW M, NEW P, NEW U, MembersFit(M, P, U), NEW row
  PROVE  \E S : /\ \A T \in S : MembersFit(T, P, U)
                /\ M \in S /\ Leaves(AddUserToProject(M, U, P, row), S)
<1> DEFINE q == AddUserToProject(M, U, P, row)
<1>1. PICK r : r = [live |-> TRUE, project |-> row.project, user |-> row.user, role |-> row.role]
  OBVIOUS
<1>2. PICK columns : columns = {"project", "user"}
  OBVIOUS
<1>3. Entry(r, columns) /\ r.project = row.project /\ r.user = row.user
  BY <1>1, <1>2 DEF Entry
<1>4. PICK W : W = Append(M, r)
  OBVIOUS
<1>5. PICK S : S = {T \in {M, W} : MembersFit(T, P, U)}
  OBVIOUS
<1>6. \/ \E err : q = Refused(M, err)
      \/ /\ Stored(U, P, row) /\ \A i \in Live(M) : ~MemberClash(M[i], r)
         /\ q = Outcome(W, Len(M) + 1, "none")
  BY <1>1, <1>4, Zenon DEF AddUserToProject, Insert
<1>7. CASE \E err : q = Refused(M, err)
  BY <1>5, <1>7, LeftAlone
<1>8. CASE /\ Stored(U, P, row) /\ \A i \in Live(M) : ~MemberClash(M[i], r)
           /\ q = Outcome(W, Len(M) + 1, "none")
  <2>1. Rows(M, columns)
    BY <1>2 DEF MembersFit
  <2>2. Rows(W, columns) /\ Gains(M, W, r)
    BY <1>3, <1>4, <2>1, RowsAppended
  <2>3. UniqueRows(W, MemberClash)
    BY <1>8, <2>2 DEF UniqueRows, MemberClash, MembersFit, Live, Gains
  <2>4. OfProjects(W, Live(P)) /\ \A i \in Live(W) : W[i].user \in Live(U)
    BY <1>3, <1>8, <2>2 DEF OfProjects, MembersFit, Stored, Live, Gains
  <2>5. MembersFit(W, P, U)
    BY <1>2, <2>2, <2>3, <2>4 DEF MembersFit
  <2> QED BY <1>5, <1>8, <2>5, LeftAlone
<1> QED BY <1>6, <1>7, <1>8
LEMMA MembersLost ==
  ASSUME NEW M, NEW P, NEW U, MembersFit(M, P, U), NEW W, NEW ids, Loses(M, W, ids)
  PROVE  MembersFit(W, P, U) /\ Live(W) = Live(M) \ ids
         /\ \A i \in Live(W) : W[i].project = M[i].project
<1>1. PICK columns : columns = {"project", "user"}
  OBVIOUS
<1>2. Rows(M, columns)
  BY <1>1 DEF MembersFit
<1>3. /\ Rows(W, columns) /\ Live(W) = Live(M) \ ids
      /\ \A j \in DOMAIN M, c \in columns : c # "live" => W[j][c] = M[j][c]
  BY <1>2, RowsDropped
<1>4. \A j \in Live(M) : W[j].project = M[j].project /\ W[j].user = M[j].user
  BY <1>1, <1>3 DEF Live
<1>5. UniqueRows(W, MemberClash)
  BY <1>3, <1>4 DEF UniqueRows, MembersFit, MemberClash
<1> QED BY <1>1, <1>3, <1>4, <1>5 DEF MembersFit, OfProjects

LEMMA MemberRemoved ==
  ASSUME NEW M, NEW P, NEW U, MembersFit(M, P, U), NEW p, NEW u
  PROVE  MembersFit(RemoveUserFromProject(M, p, u).t, P, U)
         /\ Outcomes(RemoveUserFromProject(M, p, u))
<1>1. PICK W : W = [i \in DOMAIN M |-> [M[i] EXCEPT !.live = @ /\ ~(M[i].project = p /\ M[i].user = u)]]
  OBVIOUS
<1>2. PICK ids : ids = {i \in DOMAIN M : M[i].project = p /\ M[i].user = u}
  OBVIOUS
<1>3. Loses(M, W, ids)
  BY <1>1, <1>2 DEF Loses
<1>4. RemoveUserFromProject(M, p, u) = Outcome(W, 0, "none")
  BY <1>1 DEF RemoveUserFromProject
<1>5. MembersFit(W, P, U)
  BY <1>3, MembersLost
<1> QED BY <1>4, <1>5, OutcomeFacts

LEMMA MembersChange ==
  ASSUME NEW M, NEW P, NEW U, MembersFit(M, P, U), NEW who
  PROVE  /\ \A row : MembersFit(AddUserRequest(M, U, P, who, row).t, P, U)
         /\ \A p, u : MembersFit(RemoveUserRequest(M, who, p, u).t, P, U)
<1>1. ASSUME NEW row PROVE MembersFit(AddUserRequest(M, U, P, who, row).t, P, U)
  <2>1. PICK r : r = [row EXCEPT !.role = IF @ = Nil THEN "member" ELSE @]
    OBVIOUS
  <2>2. PICK S : /\ \A T \in S : MembersFit(T, P, U)
                 /\ M \in S /\ Leaves(AddUserToProject(M, U, P, r), S)
    BY MemberAdded
  <2>3. Leaves(MemberRepoAddUser(M, U, P, r), S)
    BY <2>2, PassedOn DEF MemberRepoAddUser
  <2>4. PICK q : q = IF Ok(AddUserCheck(M, U, P, r)) THEN MemberRepoAddUser(M, U, P, r)
                     ELSE AddUserCheck(M, U, P, r)
    OBVIOUS
  <2>5. Leaves(AddUserCheck(M, U, P, r), S)
    <3>1. \/ AddUserCheck(M, U, P, r) = Invalid(M)
          \/ AddUserCheck(M, U, P, r) = Refused(M, "not_found")
          \/ AddUserCheck(M, U, P, r) = [Plain(UserRepoGetByID(U, r.user)) EXCEPT !.t = M]
      BY DEF AddUserCheck
    <3>2. Outcomes(Plain(UserRepoGetByID(U, r.user)))
      <4>1. UserRepoGetByID(U, r.user) = Outcome(U, r.user, "none")
            \/ UserRepoGetByID(U, r.user) = Refused(U, "no_rows")
        BY DEF UserRepoGetByID, GetUserByID
      <4> QED BY <4>1, OutcomeFacts, Passed
    <3>3. ASSUME NEW o, Outcomes(o) PROVE Leaves([o EXCEPT !.t = M], S)
      BY <2>2, <3>3 DEF Leaves, Outcomes
    <3> QED BY <2>2, <3>1, <3>2, <3>3, LeftAlone
  <2>6. Leaves(q, S)
    BY <2>3, <2>4, <2>5
  <2>7. AddUserRequest(M, U, P, who, row) = Handle(M, who.role, q, 201)
    BY <2>1, <2>4 DEF AddUserRequest
  <2> QED BY <2>2, <2>6, <2>7, SentBack
<1>2. ASSUME NEW p, NEW u PROVE MembersFit(RemoveUserRequest(M, who, p, u).t, P, U)
  <2>1. PICK S : S = {M, RemoveUserFromProject(M, p, u).t}
    OBVIOUS
  <2>2. Leaves(RemoveUserFromProject(M, p, u), S) /\ M \in S /\ \A T \in S : MembersFit(T, P, U)
    BY <2>1, MemberRemoved DEF Leaves
  <2>3. RemoveUser(M, p, u) = RepoExec(RemoveUserFromProject(M, p, u))
        \/ RemoveUser(M, p, u) = Refused(M, "not_found")
    BY DEF RemoveUser, MemberRepoRemoveUser
  <2>4. Leaves(RemoveUser(M, p, u), S)
    BY <2>2, <2>3, PassedOn, LeftAlone
  <2> QED BY <2>2, <2>4, SentBack DEF RemoveUserRequest
<1> QED BY <1>1, <1>2
LEMMA KeysChange ==
  ASSUME NEW K, KeysFit(K), NEW U, NEW who
  PROVE  /\ \A k : KeysFit(CreateMyAPIKeyRequest(K, U, who, k).t)
         /\ \A i : KeysFit(DeleteMyAPIKeyRequest(K, who, i).t)
<1>c. PICK columns : columns = {"user", "provider", "name"}
  OBVIOUS
<1>k. KeysFit(K)
  OBVIOUS
<1>r. Rows(K, columns)
  BY <1>c DEF KeysFit
<1>1. ASSUME NEW key PROVE KeysFit(CreateMyAPIKeyRequest(K, U, who, key).t)
  <2>1. PICK k : k = [key EXCEPT !.user = who.user]
    OBVIOUS
  <2>2. PICK r : r = [live |-> TRUE, user |-> k.user, provider |-> k.provider,
                      name |-> k.name, secret |-> k.secret]
    OBVIOUS
  <2>3. PICK W : W = Append(K, r)
    OBVIOUS
  <2>4. Entry(r, columns)
    BY <1>c, <2>2 DEF Entry
  <2>5. Rows(W, columns) /\ Gains(K, W, r)
    BY <1>r, <2>3, <2>4, RowsAppended
  <2>6. PICK S : S = {T \in {K, W} : KeysFit(T)}
    OBVIOUS
  <2>7. \/ \E err : CreateUserAPIKey(K, U, k) = Refused(K, err)
        \/ /\ \A i \in Live(K) : ~KeyClash(K[i], r)
           /\ CreateUserAPIKey(K, U, k) = Outcome(W, Len(K) + 1, "none")
    BY <2>2, <2>3, Zenon DEF CreateUserAPIKey, Insert
  <2>8. Leaves(CreateUserAPIKey(K, U, k), S)
    <3>1. CASE \A i \in Live(K) : ~KeyClash(K[i], r)
      <4>1. UniqueRows(W, KeyClash)
        BY <2>5, <3>1 DEF UniqueRows, KeyClash, KeysFit, Live, Gains
      <4>2. KeysFit(W)
        BY <1>c, <2>5, <4>1 DEF KeysFit
      <4> QED BY <2>6, <2>7, <4>2, LeftAlone
    <3> QED BY <2>6, <2>7, <3>1, LeftAlone
  <2>9. CreateKey(K, U, k) = Invalid(K) \/ CreateKey(K, U, k) = Repo(CreateUserAPIKey(K, U, k))
    BY DEF CreateKey, APIKeyRepoCreate
  <2>10. Leaves(CreateKey(K, U, k), S) /\ K \in S
    BY <2>6, <2>8, <2>9, PassedOn, LeftAlone
  <2>11. CreateMyAPIKeyRequest(K, U, who, key).t \in S
    BY <2>1, <2>10, SentBack DEF CreateMyAPIKeyRequest
  <2> QED BY <2>6, <2>11
<1>2. ASSUME NEW i PROVE KeysFit(DeleteMyAPIKeyRequest(K, who, i).t)
  <2>1. PICK W : W = Erase(K, i).t
    OBVIOUS
  <2>2. /\ Outcomes(Erase(K, i)) /\ Rows(W, columns) /\ Live(W) = Live(K) \ {i}
        /\ \A j \in DOMAIN K, c \in columns : c # "live" => W[j][c] = K[j][c]
    BY <1>r, <2>1, Deleted
  <2>3. \A j \in Live(K) : W[j].user = K[j].user /\ W[j].provider = K[j].provider
                           /\ W[j].name = K[j].name
    BY <1>c, <2>2 DEF Live
  <2>4. UniqueRows(W, KeyClash)
    BY <2>2, <2>3 DEF UniqueRows, KeyClash, KeysFit
  <2>5. KeysFit(W)
    BY <1>c, <2>2, <2>4 DEF KeysFit
  <2>6. PICK S : S = {K, W}
    OBVIOUS
  <2>7. DeleteKey(K, who.user, i) = RepoExec(Erase(K, i))
        \/ \E err : DeleteKey(K, who.user, i) = Outcome(K, 0, err)
    BY DEF DeleteKey, APIKeyRepoDelete, DeleteUserAPIKey
  <2>9. Leaves(Erase(K, i), S) /\ K \in S
    BY <2>1, <2>2, <2>6 DEF Leaves
  <2>8. Leaves(DeleteKey(K, who.user, i), S)
    BY <2>7, <2>9, PassedOn, LeftAlone
  <2> QED BY <1>k, <2>5, <2>6, <2>8, <2>9, SentBack DEF DeleteMyAPIKeyRequest
<1> QED BY <1>1, <1>2

(* The tables that a table of users may become: no live row goes.           *)
UsersFrom(U, S) ==
    U \in S /\ \A V \in S : UsersFit(V) /\ Live(U) \subseteq Live(V)

LEMMA UserUpdateFits ==
  ASSUME NEW U, UsersFit(U), NEW i, NEW u \in UserRows
  PROVE  \E S : UsersFrom(U, S) /\ Leaves(UpdateUser(U, i, u), S)
<1>1. PICK row : row = [U[i] EXCEPT !.name = Coalesce(u.name, @), !.email = Coalesce(u.email, @),
                                    !.role = Coalesce(u.role, @)]
  OBVIOUS
<1>2. PICK W : W = [U EXCEPT ![i] = row]
  OBVIOUS
<1>3. PICK S : S = {V \in {U, W} : UsersFit(V) /\ Live(U) \subseteq Live(V)}
  OBVIOUS
<1>4. UsersFrom(U, S)
  BY <1>3 DEF UsersFrom
<1>5. \/ \E err : UpdateUser(U, i, u) = Refused(U, err)
      \/ /\ i \in Live(U) /\ \A j \in Live(U) \ {i} : ~EmailClash(U[j], row)
         /\ UpdateUser(U, i, u) = Outcome(W, i, "none")
  BY <1>1, <1>2, Zenon DEF UpdateUser, Change
<1>6. CASE \E err : UpdateUser(U, i, u) = Refused(U, err)
  BY <1>4, <1>6, LeftAlone DEF UsersFrom
<1>7. CASE /\ i \in Live(U) /\ \A j \in Live(U) \ {i} : ~EmailClash(U[j], row)
           /\ UpdateUser(U, i, u) = Outcome(W, i, "none")
  <2>1. W \in Seq(UserRows)
    <3>1. UpdateUser(U, i, u).t = W
      BY <1>7, OutcomeFacts
    <3> QED BY <3>1, UserUpdated DEF UsersFit
  <2>2. i \in DOMAIN U /\ U[i] \in UserRows
    BY <1>7, RowFacts DEF Live, UsersFit
  <2>3. row.live = U[i].live
    BY <1>1, <2>2 DEF UserRows
  <2>4. DOMAIN W = DOMAIN U /\ W[i] = row /\ \A j \in DOMAIN U : j # i => W[j] = U[j]
    BY <1>2, <2>2
  <2>5. Live(W) = Live(U)
    BY <2>3, <2>4 DEF Live
  <2>6. UniqueRows(W, EmailClash)
    BY <1>7, <2>4, <2>5 DEF UniqueRows, EmailClash, UsersFit, Live
  <2>7. UsersFit(W)
    BY <2>1, <2>6 DEF UsersFit
  <2> QED BY <1>3, <1>4, <1>7, <2>5, <2>7, LeftAlone
<1> QED BY <1>4, <1>5, <1>6, <1>7

LEMMA UserSavesFit ==
  ASSUME NEW U, UsersFit(U), NEW row \in UserRows
  PROVE  /\ \A who, i : \A patch \in Patches :
                LET W == UpdateUserRequest(U, who, i, row, patch).t
                IN UsersFit(W) /\ Live(U) \subseteq Live(W)
         /\ \A who : \A patch \in Patches :
                LET W == UpdateMyProfileRequest(U, who, row, patch).t
                IN UsersFit(W) /\ Live(U) \subseteq Live(W)
         /\ \A i : \A pw \in STRING :
                LET W == ResetPasswordSave(U, i, row, pw).t
                IN UsersFit(W) /\ Live(U) \subseteq Live(W)
<1>1. ASSUME NEW who, NEW i, NEW patch \in Patches
      PROVE  LET W == UpdateUserRequest(U, who, i, row, patch).t
             IN UsersFit(W) /\ Live(U) \subseteq Live(W)
  <2>1. PICK o : o = UserServiceSave(U, i, row, patch)
    OBVIOUS
  <2>2. \/ o = Invalid(U)
        \/ /\ patch.role \in Roles \cup {Nil}
           /\ o = Plain(UpdateUser(U, i, PatchedUser(row, patch)))
    BY <2>1 DEF UserServiceSave, UserRepoUpdate
  <2>3. \E S : UsersFrom(U, S) /\ Leaves(o, S)
    <3>1. CASE o = Invalid(U)
      <4>1. UsersFrom(U, {U})
        BY DEF UsersFrom
      <4> QED BY <3>1, <4>1, LeftAlone
    <3>2. CASE /\ patch.role \in Roles \cup {Nil}
               /\ o = Plain(UpdateUser(U, i, PatchedUser(row, patch)))
      <4>1. PatchedUser(row, patch) \in UserRows
        BY <3>2, RowPatched
      <4> QED BY <3>2, <4>1, UserUpdateFits, PassedOn
    <3> QED BY <2>2, <3>1, <3>2
  <2>4. PICK S : UsersFrom(U, S) /\ Leaves(o, S)
    BY <2>3
  <2>5. UpdateUserRequest(U, who, i, row, patch).t \in S
    BY <2>1, <2>4, SentBack DEF UpdateUserRequest, UsersFrom
  <2> QED BY <2>4, <2>5 DEF UsersFrom
<1>2. ASSUME NEW who, NEW patch \in Patches
      PROVE  LET W == UpdateMyProfileRequest(U, who, row, patch).t
             IN UsersFit(W) /\ Live(U) \subseteq Live(W)
  <2>1. PICK u : u = PatchedUser(row, [patch EXCEPT !.role = Nil])
    OBVIOUS
  <2>2. u \in UserRows
    BY <2>1 DEF PatchedUser, UserRows, Patches, Coalesce
  <2>3. PICK S : UsersFrom(U, S) /\ Leaves(UpdateUser(U, who.user, u), S)
    BY <2>2, UserUpdateFits
  <2>4. PICK o : o = UpdateProfileSave(U, who.user, row, patch)
    OBVIOUS
  <2>5. o = Invalid(U) \/ o = Refused(U, "conflict") \/ o = Plain(UpdateUser(U, who.user, u))
    BY <2>1, <2>4 DEF UpdateProfileSave, UserRepoUpdate
  <2>6. Leaves(o, S) /\ Leaves(Invalid(U), S)
    BY <2>3, <2>5, PassedOn, LeftAlone DEF UsersFrom
  <2>7. UpdateMyProfileRequest(U, who, row, patch) = Reply(U, Invalid(U), 200)
        \/ UpdateMyProfileRequest(U, who, row, patch) = Reply(U, o, 200)
    BY <2>4 DEF UpdateMyProfileRequest
  <2>8. UpdateMyProfileRequest(U, who, row, patch).t \in S
    BY <2>3, <2>6, <2>7, SentBack DEF UsersFrom
  <2> QED BY <2>3, <2>8 DEF UsersFrom
<1>3. ASSUME NEW i, NEW pw \in STRING
      PROVE  LET W == ResetPasswordSave(U, i, row, pw).t
             IN UsersFit(W) /\ Live(U) \subseteq Live(W)
  <2>1. PICK u : u = [row EXCEPT !.password = pw]
    OBVIOUS
  <2>2. u \in UserRows
    BY <2>1 DEF UserRows
  <2>3. PICK S : UsersFrom(U, S) /\ Leaves(UpdateUser(U, i, u), S)
    BY <2>2, UserUpdateFits
  <2>4. ResetPasswordSave(U, i, row, pw) = Plain(UpdateUser(U, i, u))
    BY <2>1 DEF ResetPasswordSave, UserRepoUpdate
  <2>5. Leaves(ResetPasswordSave(U, i, row, pw), S)
    BY <2>3, <2>4, PassedOn
  <2> QED BY <2>3, <2>5 DEF UsersFrom, Leaves
<1> QED BY <1>1, <1>2, <1>3
LEMMA RegisterFits ==
  ASSUME NEW U, UsersFit(U), NEW email \in STRING, NEW pw \in STRING, NEW name \in STRING
  PROVE  LET W == RegisterRequest(U, email, pw, name).t
         IN UsersFit(W) /\ Live(U) \subseteq Live(W)
<1>1. PICK row : row = [live |-> TRUE, deleted |-> FALSE, email |-> email, password |-> pw,
                        name |-> name, role |-> "user"]
  OBVIOUS
<1>2. row \in UserRows /\ row.live = TRUE
  BY <1>1 DEF UserRows, Roles
<1>3. PICK W : W = Append(U, row)
  OBVIOUS
<1>4. W \in Seq(UserRows) /\ Rows(W, {}) /\ Gains(U, W, row)
  <2>1. Entry(row, {}) /\ Rows(U, {})
    <3>1. U \in Seq(Range(U)) /\ \A i \in DOMAIN U : U[i] \in UserRows
      BY RowFacts DEF UsersFit, InRow
    <3> QED BY <1>1, <3>1 DEF Entry, Rows, UserRows
  <2>2. W \in Seq(UserRows)
    BY <1>2, <1>3, AppendProperties DEF UsersFit
  <2> QED BY <1>3, <2>1, <2>2, RowsAppended
<1>5. PICK S : S = {V \in {U, W} : UsersFit(V) /\ Live(U) \subseteq Live(V)}
  OBVIOUS
<1>6. UsersFrom(U, S)
  BY <1>5 DEF UsersFrom
<1>7. PICK o : o = CreateUser(U, [email |-> email, password |-> pw, name |-> name, role |-> "user"])
  OBVIOUS
<1>8. \/ \E err : o = Refused(U, err)
      \/ (\A i \in Live(U) : ~EmailClash(U[i], row)) /\ o = Outcome(W, Len(U) + 1, "none")
  BY <1>1, <1>3, <1>7 DEF CreateUser, Insert
<1>9. Leaves(o, S)
  <2>1. CASE (\A i \in Live(U) : ~EmailClash(U[i], row)) /\ o = Outcome(W, Len(U) + 1, "none")
    <3>1. UniqueRows(W, EmailClash)
      BY <1>4, <2>1 DEF UniqueRows, EmailClash, UsersFit, Live, Gains
    <3>2. UsersFit(W) /\ Live(U) \subseteq Live(W)
      BY <1>4, <3>1 DEF UsersFit, Gains
    <3> QED BY <1>5, <2>1, <3>2, LeftAlone
  <2> QED BY <1>6, <1>8, <2>1, LeftAlone DEF UsersFrom
<1>10. Leaves(Register(U, email, pw, name), S)
  <2>1. \/ Register(U, email, pw, name) = Invalid(U)
        \/ \E err : Register(U, email, pw, name) = [o EXCEPT !.err = err]
    BY <1>7 DEF Register, UserRepoCreate
  <2>2. \A err : Leaves([o EXCEPT !.err = err], S)
    BY <1>9 DEF Leaves, Outcomes
  <2> QED BY <1>6, <2>1, <2>2, LeftAlone DEF UsersFrom
<1>11. RegisterRequest(U, email, pw, name).t \in S
  BY <1>6, <1>10, SentBack DEF RegisterRequest, UsersFrom
<1> QED BY <1>6, <1>11 DEF UsersFrom

LEMMA PasswordFits ==
  ASSUME NEW U, UsersFit(U), NEW i, NEW pw \in STRING
  PROVE  LET W == ChangePasswordSave(U, i, pw).t
         IN UsersFit(W) /\ Live(U) \subseteq Live(W)
<1>1. PICK W : W = [j \in DOMAIN U |-> IF j = i /\ Here(U[j]) THEN [U[j] EXCEPT !.password = pw]
                                       ELSE U[j]]
  OBVIOUS
<1>2. UpdateUserPasswordHash(U, i, pw) = Outcome(W, i, "none")
  BY <1>1 DEF UpdateUserPasswordHash
<1>3. W \in Seq(UserRows) /\ DOMAIN W = DOMAIN U
  <2>1. UpdateUserPasswordHash(U, i, pw).t = W
    BY <1>2, OutcomeFacts
  <2> QED BY <2>1, HashUpdated DEF UsersFit
<1>4. \A j \in DOMAIN U : W[j].live = U[j].live /\ W[j].email = U[j].email
  <2>1. \A j \in DOMAIN U : U[j] \in UserRows
    BY RowFacts DEF UsersFit
  <2>2. \A j \in DOMAIN U : W[j] = U[j] \/ W[j] = [U[j] EXCEPT !.password = pw]
    BY <1>1
  <2> QED BY <2>1, <2>2 DEF UserRows
<1>5. Live(W) = Live(U) /\ UniqueRows(W, EmailClash)
  BY <1>3, <1>4 DEF Live, UniqueRows, EmailClash, UsersFit
<1>6. ChangePasswordSave(U, i, pw).t = W
  BY <1>2, PlainTable DEF ChangePasswordSave, UserRepoUpdatePasswordHash
<1> QED BY <1>3, <1>5, <1>6 DEF UsersFit

LEMMA UserDeleteFits ==
  ASSUME NEW U, UsersFit(U), NEW who, NEW i
  PROVE  LET W == DeleteUserRequest(U, who, i).t
         IN UsersFit(W) /\ Live(U) \subseteq Live(W)
<1>1. PICK W : W = [j \in DOMAIN U |-> [U[j] EXCEPT !.deleted = @ \/ j = i]]
  OBVIOUS
<1>2. DeleteUser(U, i) = Outcome(W, i, "none")
  BY <1>1 DEF DeleteUser
<1>3. W \in Seq(UserRows) /\ DOMAIN W = DOMAIN U
  <2>1. DeleteUser(U, i).t = W
    BY <1>2, OutcomeFacts
  <2> QED BY <2>1, UserDeleted DEF UsersFit
<1>4. \A j \in DOMAIN U : W[j].live = U[j].live /\ W[j].email = U[j].email
  <2>1. \A j \in DOMAIN U : U[j] \in UserRows
    BY RowFacts DEF UsersFit
  <2> QED BY <1>1, <2>1 DEF UserRows
<1>5. Live(W) = Live(U) /\ UniqueRows(W, EmailClash)
  BY <1>3, <1>4 DEF Live, UniqueRows, EmailClash, UsersFit
<1>6. PICK S : S = {U, W}
  OBVIOUS
<1>7. Leaves(DeleteUser(U, i), S) /\ U \in S
  BY <1>2, <1>6, LeftAlone
<1>8. Leaves(UserServiceDelete(U, i), S)
  <2>1. \/ UserServiceDelete(U, i) = Plain(DeleteUser(U, i))
        \/ UserServiceDelete(U, i) = As(GetUserByID(U, i), "not_found")
    BY DEF UserServiceDelete, UserRepoDelete, UserServiceGetByID, UserRepoGetByID
  <2>2. Leaves(GetUserByID(U, i), S)
    BY <1>7, LeftAlone DEF GetUserByID
  <2>3. Leaves(As(GetUserByID(U, i), "not_found"), S)
    BY <2>2 DEF As, Leaves, Outcomes
  <2> QED BY <1>7, <2>1, <2>3, PassedOn
<1>9. DeleteUserRequest(U, who, i).t \in S
  BY <1>7, <1>8, SentBack DEF DeleteUserRequest
<1> QED BY <1>3, <1>5, <1>6, <1>9 DEF UsersFit
(* Projects.  A project that is created is the table's new row; one that is *)
(* updated stays.                                                           *)
LEMMA ProjectCreated ==
  ASSUME NEW P, ProjectsFit(P), NEW who, NEW proj, NEW r, r = CreateProjectRequest(P, who, proj)
  PROVE  \/ r.t = P /\ r.status # 201
         \/ ProjectsFit(r.t) /\ Live(r.t) = Live(P) \cup {Len(r.t)}
<1>1. PICK p : p = [[proj EXCEPT !.owner = who.user] EXCEPT !.provider = IF @ = Nil THEN "github" ELSE @]
  OBVIOUS
<1>2. PICK row : row = [live |-> TRUE, name |-> p.name, owner |-> p.owner,
                        provider |-> p.provider, text |-> p.text]
  OBVIOUS
<1>3. PICK W : W = Append(P, row)
  OBVIOUS
<1>4. Rows(W, {"name"}) /\ Gains(P, W, row) /\ Len(W) = Len(P) + 1
  <2>1. Entry(row, {"name"})
    BY <1>2 DEF Entry
  <2>2. Rows(W, {"name"}) /\ Gains(P, W, row)
    BY <1>3, <2>1, RowsAppended DEF ProjectsFit
  <2>3. PICK R : R = Range(P) \cup {row}
    OBVIOUS
  <2>4. P \in Seq(R) /\ row \in R
    BY <2>3, InRowWider DEF ProjectsFit, Rows, InRow
  <2>5. Len(Append(P, row)) = Len(P) + 1
    BY <2>4, AppendProperties
  <2> QED BY <1>3, <2>2, <2>5
<1>5. PICK o : o = CreateProject(P, p)
  OBVIOUS
<1>6. \/ o = Refused(P, "unique")
      \/ (\A i \in Live(P) : ~NameClash(P[i], row)) /\ o = Outcome(W, Len(P) + 1, "none")
  BY <1>2, <1>3, <1>5 DEF CreateProject, Insert
<1>7. PICK g : g = ProjectServiceCreate(P, [proj EXCEPT !.owner = who.user])
  OBVIOUS
<1>8. g = Invalid(P) \/ g = Repo(o)
  BY <1>1, <1>5, <1>7 DEF ProjectServiceCreate, ProjectRepoCreate
<1>9. r = Handle(P, who.role, g, 201)
  BY <1>7 DEF CreateProjectRequest
<1>10. CASE ~Ok(AsAdmin(who.role, g))
  <2>1. r.t = P /\ r.status = StatusOf(AsAdmin(who.role, g).err)
    BY <1>9, <1>10 DEF Handle, Response
  <2> QED BY <2>1 DEF StatusOf
<1>11. CASE Ok(AsAdmin(who.role, g))
  <2>1. AsAdmin(who.role, g) = g
    BY <1>11, OutcomeFacts DEF AsAdmin, Ok
  <2>2. Ok(g) /\ r.t = g.t
    BY <1>9, <1>11, <2>1 DEF Handle
  <2>3. g = Repo(o) /\ Outcomes(o)
    BY <1>6, <1>8, <2>2, OutcomeFacts
  <2>4. o.err = "none" /\ g.t = o.t
    BY <2>2, <2>3, Passed
  <2>5. (\A i \in Live(P) : ~NameClash(P[i], row)) /\ o = Outcome(W, Len(P) + 1, "none")
    BY <1>6, <2>4, OutcomeFacts
  <2>6. g.t = W
    BY <2>4, <2>5, OutcomeFacts
  <2>7. UniqueRows(W, NameClash)
    BY <1>4, <2>5 DEF UniqueRows, NameClash, ProjectsFit, Live, Gains
  <2> QED BY <1>4, <2>2, <2>6, <2>7 DEF ProjectsFit, Gains
<1> QED BY <1>10, <1>11

LEMMA ProjectUpdated ==
  ASSUME NEW P, ProjectsFit(P), NEW who, NEW i, NEW row, NEW patch
  PROVE  LET W == UpdateProjectRequest(P, who, i, row, patch).t
         IN ProjectsFit(W) /\ Live(W) = Live(P)
<1>1. PICK p : p = PatchedProject(row, patch)
  OBVIOUS
<1>2. PICK new : new = [P[i] EXCEPT !.name = p.name, !.owner = IF p.owner = 0 THEN @ ELSE p.owner,
                                    !.provider = p.provider, !.text = Coalesce(p.text, @)]
  OBVIOUS
<1>3. PICK W : W = [P EXCEPT ![i] = new]
  OBVIOUS
<1>4. PICK S : S = {T \in {P, W} : ProjectsFit(T) /\ Live(T) = Live(P)}
  OBVIOUS
<1>5. \/ \E err : UpdateProject(P, i, p) = Refused(P, err)
      \/ /\ i \in Live(P) /\ \A j \in Live(P) \ {i} : ~NameClash(P[j], new)
         /\ UpdateProject(P, i, p) = Outcome(W, i, "none")
  BY <1>2, <1>3 DEF UpdateProject, Change
<1>6. Leaves(UpdateProject(P, i, p), S)
  <2>1. CASE /\ i \in Live(P) /\ \A j \in Live(P) \ {i} : ~NameClash(P[j], new)
             /\ UpdateProject(P, i, p) = Outcome(W, i, "none")
    <3>1. Entry(new, {"name"})
      <4>1. {"name", "live"} \subseteq DOMAIN P[i] /\ P[i].live \in BOOLEAN /\ P[i].live
        BY <2>1 DEF Live, ProjectsFit, Rows
      <4>2. DOMAIN new = DOMAIN P[i] /\ new.live = P[i].live
        BY <1>2, <4>1
      <4> QED BY <4>1, <4>2 DEF Entry
    <3>2. Rows(W, {"name"}) /\ Changes(P, W, i, new)
      BY <1>3, <2>1, <3>1, RowsReplaced DEF ProjectsFit
    <3>3. UniqueRows(W, NameClash)
      BY <2>1, <3>2 DEF UniqueRows, NameClash, ProjectsFit, Live, Changes
    <3> QED BY <1>4, <2>1, <3>2, <3>3, LeftAlone DEF ProjectsFit, Changes
  <2> QED BY <1>4, <1>5, <2>1, LeftAlone
<1>7. \/ ProjectServiceSave(P, i, row, patch) = Invalid(P)
      \/ ProjectServiceSave(P, i, row, patch) = Repo(UpdateProject(P, i, p))
  BY <1>1 DEF ProjectServiceSave, ProjectRepoUpdate
<1>8. Leaves(ProjectServiceSave(P, i, row, patch), S)
  BY <1>4, <1>6, <1>7, LeftAlone, PassedOn
<1> QED BY <1>4, <1>8, SentBack DEF UpdateProjectRequest

LEMMA ProjectErased ==
  ASSUME NEW P, ProjectsFit(P), NEW who, NEW p, NEW hasEvents, NEW r,
         r = DeleteProjectRequest(P, who, p, hasEvents), r.status = 204
  PROVE  ProjectsFit(r.t) /\ Live(r.t) = Live(P) \ {p}
<1>1. PICK W : W = Erase(P, p).t
  OBVIOUS
<1>2. /\ Outcomes(Erase(P, p)) /\ Rows(W, {"name"}) /\ Live(W) = Live(P) \ {p}
      /\ \A j \in DOMAIN P, c \in {"name"} : c # "live" => W[j][c] = P[j][c]
  BY <1>1, Deleted DEF ProjectsFit
<1>3. UniqueRows(W, NameClash)
  BY <1>2 DEF UniqueRows, NameClash, ProjectsFit, Live
<1>4. PICK g : g = ProjectServiceDelete(P, p, hasEvents)
  OBVIOUS
<1>5. Ok(AsAdmin(who.role, g)) /\ r.t = AsAdmin(who.role, g).t
  <2>1. r = Handle(P, who.role, g, 204)
    BY <1>4 DEF DeleteProjectRequest
  <2>2. r.status = Response(AsAdmin(who.role, g), 204)
        /\ r.t = IF Ok(AsAdmin(who.role, g)) THEN AsAdmin(who.role, g).t ELSE P
    BY <2>1 DEF Handle
  <2>3. \A category : StatusOf(category) # 204
    BY DEF StatusOf
  <2> QED BY <2>2, <2>3 DEF Response
<1>6. Ok(g) /\ r.t = g.t
  BY <1>5, OutcomeFacts DEF AsAdmin, Ok
<1>7. g.t = W
  <2>1. PICK o, d : o = ProjectRepoGetByID(P, p) /\ d = DeleteProject(P, p, hasEvents)
    OBVIOUS
  <2>2. g = IF Ok(o) THEN RepoExec(d) ELSE o
    BY <1>4, <2>1 DEF ProjectServiceDelete, ProjectRepoDelete
  <2>3. g = RepoExec(d)
    BY <1>6, <2>2
  <2>4. d = Refused(P, "raised") \/ d = Erase(P, p)
    BY <2>1 DEF DeleteProject
  <2>5. Outcomes(d)
    BY <1>2, <2>4, OutcomeFacts
  <2>6. d.err = "none" /\ g.t = d.t
    BY <1>6, <2>3, <2>5, Passed
  <2>7. d = Erase(P, p)
    BY <2>4, <2>6, OutcomeFacts
  <2> QED BY <1>1, <2>6, <2>7
<1> QED BY <1>2, <1>3, <1>6, <1>7 DEF ProjectsFit
(* Pipelines.  No project loses the one it has.                             *)
Piped(C, p) == \E i \in Live(C) : C[i].project = p
PipelinesFrom(C, P, S) ==
    C \in S /\ \A V \in S : PipelinesFit(V, P) /\ \A p : Piped(C, p) => Piped(V, p)

LEMMA PipelineUpserted ==
  ASSUME NEW C, NEW P, PipelinesFit(C, P), NEW p, NEW yaml, ValidatePipelineConfigYAML(yaml)
  PROVE  \E S : /\ PipelinesFrom(C, P, S) /\ Leaves(UpsertPipelineConfig(C, P, p, yaml), S)
                /\ p \in Live(P) => /\ UpsertPipelineConfig(C, P, p, yaml).err = "none"
                                    /\ Piped(UpsertPipelineConfig(C, P, p, yaml).t, p)
<1> DEFINE q == UpsertPipelineConfig(C, P, p, yaml)
           old == RowsWhere(C, LAMBDA r : r.project = p)
<1>c. PICK columns : columns = {"project", "yaml"}
  OBVIOUS
<1>r. Rows(C, columns)
  BY <1>c DEF PipelinesFit
<1>s. PipelinesFrom(C, P, {C})
  BY DEF PipelinesFrom
<1>o. old = {i \in Live(C) : C[i].project = p}
  BY DEF RowsWhere
<1>1. CASE p \notin Live(P)
  <2>1. q = Refused(C, "foreign_key")
    BY <1>1 DEF UpsertPipelineConfig
  <2> QED BY <1>1, <1>s, <2>1, LeftAlone
<1>2. CASE p \in Live(P) /\ old = {}
  <2>1. PICK row : row = [live |-> TRUE, project |-> p, yaml |-> yaml, version |-> 1]
    OBVIOUS
  <2>2. PICK W : W = Append(C, row)
    OBVIOUS
  <2>3. Entry(row, columns)
    BY <1>c, <2>1 DEF Entry
  <2>4. Rows(W, columns) /\ Gains(C, W, row)
    BY <1>r, <2>2, <2>3, RowsAppended
  <2>5. \A i \in Live(C) : C[i].project # p
    BY <1>2, <1>o
  <2>6. q = Outcome(W, Len(C) + 1, "none")
    <3>1. q = Insert(C, row, ProjectClash)
      BY <1>2, <2>1 DEF UpsertPipelineConfig
    <3>2. ~\E i \in Live(C) : ProjectClash(C[i], row)
      BY <2>1, <2>5 DEF ProjectClash
    <3> QED BY <2>2, <3>1, <3>2 DEF Insert
  <2>7. UniqueRows(W, ProjectClash)
    BY <2>1, <2>4, <2>5 DEF UniqueRows, ProjectClash, PipelinesFit, Live, Gains
  <2>8. OfProjects(W, Live(P)) /\ \A i \in Live(W) : ValidatePipelineConfigYAML(W[i].yaml)
    BY <1>2, <2>1, <2>4 DEF OfProjects, PipelinesFit, Live, Gains
  <2>9. PipelinesFit(W, P)
    BY <1>c, <2>4, <2>7, <2>8 DEF PipelinesFit
  <2>10. Piped(W, p) /\ \A o : Piped(C, o) => Piped(W, o)
    BY <2>1, <2>4 DEF Piped, Gains, Live
  <2>11. PICK S : S = {C, W}
    OBVIOUS
  <2>12. PipelinesFrom(C, P, S)
    BY <2>9, <2>10, <2>11 DEF PipelinesFrom
  <2>13. Leaves(q, S) /\ q.err = "none" /\ q.t = W
    BY <2>6, <2>11, LeftAlone, OutcomeFacts
  <2> HIDE DEF q
  <2> QED BY <2>10, <2>12, <2>13 DEF q
<1>3. CASE p \in Live(P) /\ old # {}
  <2>1. PICK i : i \in old /\ i = CHOOSE k \in old : TRUE
    BY <1>3
  <2>2. PICK row : row = [C[i] EXCEPT !.yaml = yaml, !.version = @ + 1]
    OBVIOUS
  <2>3. PICK W : W = [C EXCEPT ![i] = row]
    OBVIOUS
  <2>4. /\ i \in Live(C) /\ C[i].project = p
        /\ \A j \in Live(C) \ {i} : C[j].project # p
    BY <1>o, <2>1 DEF PipelinesFit, UniqueRows, ProjectClash
  <2>5. /\ {"live", "project", "yaml"} \subseteq DOMAIN C[i] /\ C[i].live = TRUE
        /\ row.project = p /\ row.yaml = yaml /\ row.live = TRUE /\ DOMAIN row = DOMAIN C[i]
    <3>1. {"live", "project", "yaml"} \subseteq DOMAIN C[i] /\ C[i].live \in BOOLEAN /\ C[i].live
      BY <1>c, <1>r, <2>4 DEF Rows, Live
    <3> QED BY <2>2, <2>4, <3>1
  <2>6. Entry(row, columns)
    BY <1>c, <2>5 DEF Entry
  <2>7. Rows(W, columns) /\ Changes(C, W, i, row)
    BY <1>r, <2>3, <2>4, <2>6, RowsReplaced
  <2>8. q = Outcome(W, i, "none")
    <3>1. q = Change(C, i, row, ProjectClash)
      BY <1>3, <2>1, <2>2 DEF UpsertPipelineConfig
    <3>2. ~\E j \in Live(C) \ {i} : ProjectClash(C[j], row)
      BY <2>4, <2>5 DEF ProjectClash
    <3> QED BY <2>3, <2>4, <3>1, <3>2 DEF Change
  <2>9. UniqueRows(W, ProjectClash)
    BY <2>4, <2>5, <2>7 DEF UniqueRows, ProjectClash, PipelinesFit, Live, Changes
  <2>10. OfProjects(W, Live(P)) /\ \A j \in Live(W) : ValidatePipelineConfigYAML(W[j].yaml)
    BY <1>3, <2>4, <2>5, <2>7 DEF OfProjects, PipelinesFit, Live, Changes
  <2>11. PipelinesFit(W, P)
    BY <1>c, <2>7, <2>9, <2>10 DEF PipelinesFit
  <2>12. Piped(W, p) /\ \A o : Piped(C, o) => Piped(W, o)
    BY <2>4, <2>5, <2>7 DEF Piped, Changes, Live
  <2>13. PICK S : S = {C, W}
    OBVIOUS
  <2>14. PipelinesFrom(C, P, S)
    BY <2>11, <2>12, <2>13 DEF PipelinesFrom
  <2>s. W \in S
    BY <2>13
  <2>l. Leaves(q, S)
    BY <2>8, <2>s, LeftAlone
  <2>15. Leaves(q, S) /\ q.err = "none" /\ q.t = W
    BY <2>8, <2>l, OutcomeFacts
  <2> HIDE DEF q
  <2> QED BY <2>12, <2>14, <2>15 DEF q
<1> QED BY <1>1, <1>2, <1>3

OneStep(g, step) ==
    /\ {"name", "action", "guards"} \subseteq DOMAIN step
    /\ \E id, name : g = [id |-> id, name |-> name, transition |-> Nil, guards |-> <<>>, steps |-> <<step>>]
LEMMA GroupNormalized ==
  ASSUME NEW g, NEW step, OneStep(g, step)
  PROVE  LET h == NormalizeGroup(g)
         IN /\ h.name = g.name /\ h.steps # <<>> /\ DOMAIN h.steps = {1}
            /\ h.steps[1].name = step.name /\ h.steps[1].action = step.action
<1>1. PICK s : s = [k \in DOMAIN <<step>> |-> NormalizeStep(<<step>>[k])]
  OBVIOUS
<1>2. DOMAIN s = {1} /\ s[1] = [step EXCEPT !.guards = NormalizeGuards(@)]
  BY <1>1 DEF NormalizeStep
<1>3. s # <<>> /\ s[1].name = step.name /\ s[1].action = step.action
  BY <1>2 DEF OneStep
<1>4. g.steps = <<step>> /\ {"name", "transition", "guards", "steps"} \subseteq DOMAIN g
  BY DEF OneStep
<1>5. NormalizeGroup(g) = [g EXCEPT !.transition = IF @ = Nil THEN "auto" ELSE @,
                                    !.guards = NormalizeGuards(@), !.steps = s]
  BY <1>1, <1>4, Zenon DEF NormalizeGroup
<1>6. NormalizeGroup(g).name = g.name /\ NormalizeGroup(g).steps = s
  BY <1>4, <1>5
<1> QED BY <1>2, <1>3, <1>6

LEMMA DefaultIsValid == ValidatePipelineConfigYAML(DefaultPipeline)
<1>1. PICK a, b : /\ a = [id |-> "git-branch", name |-> "Create Branch", action |-> "git_branch",
                          guards |-> <<>>, rest |-> "default"]
                  /\ b = [id |-> "ci-poll", name |-> "Wait for CI", action |-> "ci_poll",
                          guards |-> <<>>, rest |-> "default"]
  OBVIOUS
<1>2. PICK g, h : /\ g = [id |-> "setup", name |-> "Setup", transition |-> Nil, guards |-> <<>>,
                          steps |-> <<a>>]
                  /\ h = [id |-> "delivery", name |-> "Delivery", transition |-> Nil, guards |-> <<>>,
                          steps |-> <<b>>]
  OBVIOUS
<1>3. DefaultPipeline = [groups |-> <<g, h>>, steps |-> <<>>]
  BY <1>1, <1>2 DEF DefaultPipeline
<1>4. PICK groups : groups = ParsePipelineConfigYAML(DefaultPipeline)
  OBVIOUS
<1>5. groups = [k \in 1..2 |-> NormalizeGroup(<<g, h>>[k])]
  <2>1. <<g, h>> # <<>> /\ DOMAIN <<g, h>> = 1..2
    OBVIOUS
  <2> QED BY <1>3, <1>4, <2>1 DEF ParsePipelineConfigYAML
<1>6. groups[1] = NormalizeGroup(g) /\ groups[2] = NormalizeGroup(h) /\ DOMAIN groups = 1..2
  BY <1>5
<1>7. OneStep(g, a) /\ OneStep(h, b)
  BY <1>1, <1>2 DEF OneStep
<1>8. /\ g.name = "Setup" /\ a.name = "Create Branch" /\ a.action = "git_branch"
      /\ h.name = "Delivery" /\ b.name = "Wait for CI" /\ b.action = "ci_poll"
  BY <1>1, <1>2
<1>9. groups # <<>> /\ \A k \in DOMAIN groups : k = 1 \/ k = 2
  BY <1>6
<1>10. \A k \in DOMAIN groups :
        /\ groups[k].name # Nil /\ groups[k].steps # <<>>
        /\ \A j \in DOMAIN groups[k].steps :
            /\ groups[k].steps[j].name # Nil
            /\ groups[k].steps[j].action \in ValidActionTypes
  <2>1. /\ g.name # Nil /\ a.name # Nil /\ a.action \in ValidActionTypes
        /\ h.name # Nil /\ b.name # Nil /\ b.action \in ValidActionTypes
    BY <1>8 DEF Nil, ValidActionTypes
  <2> QED BY <1>6, <1>7, <1>9, <2>1, GroupNormalized
<1> QED BY <1>4, <1>9, <1>10 DEF ValidatePipelineConfigYAML

LEMMA PipelinesChange ==
  ASSUME NEW C, NEW P, PipelinesFit(C, P)
  PROVE  /\ \A who, p, groups :
                LET W == UpdatePipelineConfigRequest(C, P, who, p, groups).t
                IN PipelinesFit(W, P) /\ \A o : Piped(C, o) => Piped(W, o)
         /\ \A p : LET q == SeedDefault(C, P, p)
                       W == IF Ok(q) THEN q.t ELSE C
                   IN /\ PipelinesFit(W, P) /\ \A o : Piped(C, o) => Piped(W, o)
                      /\ p \in Live(P) => Piped(W, p)
<1>1. ASSUME NEW who, NEW p, NEW groups
      PROVE  LET W == UpdatePipelineConfigRequest(C, P, who, p, groups).t
             IN PipelinesFit(W, P) /\ \A o : Piped(C, o) => Piped(W, o)
  <2>1. PICK yaml : yaml = GroupsToYAML(groups)
    OBVIOUS
  <2>2. PICK g : g = PipelineServiceUpsert(C, P, p, yaml)
    OBVIOUS
  <2>3. \E S : PipelinesFrom(C, P, S) /\ Leaves(g, S)
    <3>1. CASE ValidatePipelineConfigYAML(yaml)
      <4>1. PICK S : PipelinesFrom(C, P, S) /\ Leaves(UpsertPipelineConfig(C, P, p, yaml), S)
        BY <3>1, PipelineUpserted
      <4>2. g = RepoExec(UpsertPipelineConfig(C, P, p, yaml))
        BY <2>2, <3>1 DEF PipelineServiceUpsert, PipelineRepoUpsert
      <4> QED BY <4>1, <4>2, PassedOn
    <3>2. CASE ~ValidatePipelineConfigYAML(yaml)
      <4>1. g = Invalid(C)
        BY <2>2, <3>2 DEF PipelineServiceUpsert
      <4>2. PipelinesFrom(C, P, {C})
        BY DEF PipelinesFrom
      <4> QED BY <4>1, <4>2, LeftAlone
    <3> QED BY <3>1, <3>2
  <2>4. PICK S : PipelinesFrom(C, P, S) /\ Leaves(g, S)
    BY <2>3
  <2>5. UpdatePipelineConfigRequest(C, P, who, p, groups).t \in S
    BY <2>1, <2>2, <2>4, SentBack DEF UpdatePipelineConfigRequest, PipelinesFrom
  <2> QED BY <2>4, <2>5 DEF PipelinesFrom
<1>2. ASSUME NEW p, NEW q, q = SeedDefault(C, P, p), NEW W, W = IF Ok(q) THEN q.t ELSE C
      PROVE  /\ PipelinesFit(W, P) /\ \A o : Piped(C, o) => Piped(W, o)
             /\ p \in Live(P) => Piped(W, p)
  <2>1. PICK u : u = UpsertPipelineConfig(C, P, p, DefaultPipeline)
    OBVIOUS
  <2>2. PICK S : /\ PipelinesFrom(C, P, S) /\ Leaves(u, S)
                 /\ p \in Live(P) => u.err = "none" /\ Piped(u.t, p)
    BY <2>1, DefaultIsValid, PipelineUpserted
  <2>3. q = RepoExec(u)
    BY <1>2, <2>1 DEF SeedDefault, PipelineRepoUpsert
  <2>4. Outcomes(u) /\ u.t \in S
    BY <2>2 DEF Leaves
  <2>5. q.t = u.t /\ (Ok(q) <=> u.err = "none")
    BY <2>3, <2>4, Passed
  <2> QED BY <1>2, <2>2, <2>4, <2>5 DEF PipelinesFrom
<1> QED BY <1>1, <1>2
(* Agents.                                                                  *)
LEMMA AgentInserted ==
  ASSUME NEW A, NEW P, NEW K, AgentsFit(A, P, K), NEW a, a.provider \in Providers
  PROVE  \E S : /\ A \in S /\ \A T \in S : AgentsFit(T, P, K) /\ Live(A) \subseteq Live(T)
                /\ Leaves(CreateAgent(A, P, K, a), S)
<1>c. PICK columns : columns = {"project", "name", "stack", "provider"}
  OBVIOUS
<1>r. Rows(A, columns)
  BY <1>c DEF AgentsFit
<1>1. PICK row : row = [live |-> TRUE, name |-> a.name, scope |-> a.scope, project |-> a.project,
                        stack |-> a.stack, provider |-> a.provider, kind |-> a.kind,
                        template |-> a.template, type |-> a.type]
  OBVIOUS
<1>2. PICK W : W = Append(A, row)
  OBVIOUS
<1>3. /\ Entry(row, columns) /\ row.provider \in Providers
      /\ row.project = a.project /\ row.stack = a.stack
  BY <1>c, <1>1 DEF Entry
<1>4. Rows(W, columns) /\ Gains(A, W, row)
  BY <1>r, <1>2, <1>3, RowsAppended
<1>5. PICK S : S = {T \in {A, W} : AgentsFit(T, P, K) /\ Live(A) \subseteq Live(T)}
  OBVIOUS
<1>6. \/ \E err : CreateAgent(A, P, K, a) = Refused(A, err)
      \/ /\ a.project \in Live(P) \cup {0} /\ a.stack \in Live(K) \cup {0}
         /\ \A i \in Live(A) : ~AgentClash(A[i], row)
         /\ CreateAgent(A, P, K, a) = Outcome(W, Len(A) + 1, "none")
  BY <1>1, <1>2, Zenon DEF CreateAgent, Insert
<1>7. CASE /\ a.project \in Live(P) \cup {0} /\ a.stack \in Live(K) \cup {0}
           /\ \A i \in Live(A) : ~AgentClash(A[i], row)
           /\ CreateAgent(A, P, K, a) = Outcome(W, Len(A) + 1, "none")
  <2>1. UniqueRows(W, AgentClash)
    BY <1>4, <1>7 DEF UniqueRows, AgentClash, AgentsFit, Live, Gains
  <2>2. /\ OfProjects(W, Live(P) \cup {0})
        /\ \A i \in Live(W) : W[i].stack \in Live(K) \cup {0} /\ W[i].provider \in Providers
    BY <1>3, <1>4, <1>7 DEF OfProjects, AgentsFit, Live, Gains
  <2>3. AgentsFit(W, P, K) /\ Live(A) \subseteq Live(W)
    BY <1>c, <1>4, <2>1, <2>2 DEF AgentsFit, Gains
  <2>4. W \in S /\ A \in S
    BY <1>5, <2>3
  <2> QED BY <1>5, <1>7, <2>4, LeftAlone
<1>8. A \in S /\ \A T \in S : AgentsFit(T, P, K) /\ Live(A) \subseteq Live(T)
  BY <1>5
<1>9. CASE \E err : CreateAgent(A, P, K, a) = Refused(A, err)
  BY <1>8, <1>9, LeftAlone
<1> QED BY <1>6, <1>7, <1>9

LEMMA AgentChanged ==
  ASSUME NEW A, NEW P, NEW K, AgentsFit(A, P, K), NEW i, NEW a, a.provider \in Providers
  PROVE  \E S : /\ A \in S /\ \A T \in S : AgentsFit(T, P, K) /\ Live(A) \subseteq Live(T)
                /\ Leaves(UpdateAgent(A, K, i, a), S)
<1>c. PICK columns : columns = {"project", "name", "stack", "provider"}
  OBVIOUS
<1>r. Rows(A, columns)
  BY <1>c DEF AgentsFit
<1>1. PICK row : row = [A[i] EXCEPT !.name = a.name, !.stack = a.stack, !.kind = a.kind,
                                    !.template = a.template, !.provider = a.provider]
  OBVIOUS
<1>2. PICK W : W = [A EXCEPT ![i] = row]
  OBVIOUS
<1>5. PICK S : S = {T \in {A, W} : AgentsFit(T, P, K) /\ Live(A) \subseteq Live(T)}
  OBVIOUS
<1>6. \/ \E err : UpdateAgent(A, K, i, a) = Refused(A, err)
      \/ /\ i \in Live(A) /\ a.stack \in Live(K) \cup {0}
         /\ \A j \in Live(A) \ {i} : ~AgentClash(A[j], row)
         /\ UpdateAgent(A, K, i, a) = Outcome(W, i, "none")
  <2>1. CASE i \notin Live(A)
    BY <2>1 DEF UpdateAgent
  <2>2. CASE i \in Live(A) /\ a.stack \notin Live(K) \cup {0}
    BY <2>2 DEF UpdateAgent
  <2>3. CASE i \in Live(A) /\ a.stack \in Live(K) \cup {0}
    <3>1. UpdateAgent(A, K, i, a) = Change(A, i, row, AgentClash)
      BY <1>1, <2>3 DEF UpdateAgent
    <3> QED BY <1>2, <2>3, <3>1, Zenon DEF Change
  <2> QED BY <2>1, <2>2, <2>3
<1>7. CASE /\ i \in Live(A) /\ a.stack \in Live(K) \cup {0}
           /\ \A j \in Live(A) \ {i} : ~AgentClash(A[j], row)
           /\ UpdateAgent(A, K, i, a) = Outcome(W, i, "none")
  <2>0. columns \cup {"live"} \subseteq DOMAIN A[i] /\ A[i].live \in BOOLEAN /\ A[i].live
    BY <1>r, <1>7 DEF Live, Rows
  <2>1. /\ DOMAIN row = DOMAIN A[i] /\ row.live = A[i].live /\ row.project = A[i].project
        /\ row.stack = a.stack /\ row.provider = a.provider
    BY <1>c, <1>1, <2>0
  <2>2. Entry(row, columns)
    BY <2>0, <2>1 DEF Entry
  <2>3. Rows(W, columns) /\ Changes(A, W, i, row)
    BY <1>r, <1>2, <1>7, <2>2, RowsReplaced
  <2>4. UniqueRows(W, AgentClash)
    BY <1>7, <2>3 DEF UniqueRows, AgentClash, AgentsFit, Live, Changes
  <2>5. /\ OfProjects(W, Live(P) \cup {0})
        /\ \A j \in Live(W) : W[j].stack \in Live(K) \cup {0} /\ W[j].provider \in Providers
    BY <1>7, <2>1, <2>3 DEF OfProjects, AgentsFit, Live, Changes
  <2>6. AgentsFit(W, P, K) /\ Live(A) \subseteq Live(W)
    BY <1>c, <2>3, <2>4, <2>5 DEF AgentsFit, Changes
  <2>7. W \in S /\ A \in S
    BY <1>5, <2>6
  <2> QED BY <1>5, <1>7, <2>7, LeftAlone
<1>8. A \in S /\ \A T \in S : AgentsFit(T, P, K) /\ Live(A) \subseteq Live(T)
  BY <1>5
<1>9. CASE \E err : UpdateAgent(A, K, i, a) = Refused(A, err)
  BY <1>8, <1>9, LeftAlone
<1> QED BY <1>6, <1>7, <1>9

LEMMA AgentErrLeaves ==
  ASSUME NEW q, NEW S, Leaves(q, S)
  PROVE  Leaves(AgentErr(q), S)
<1>1. AgentErr(q) = Refused(q.t, "internal") \/ AgentErr(q) = Repo(q)
  BY DEF AgentErr
<1>2. Leaves(Refused(q.t, "internal"), S)
  BY LeftAlone DEF Leaves
<1> QED BY <1>1, <1>2, PassedOn

LEMMA AgentsChange ==
  ASSUME NEW A, NEW P, NEW K, AgentsFit(A, P, K), NEW who
  PROVE  /\ \A p, a : "provider" \in DOMAIN a =>
                LET W == CreateAgentRequest(A, P, K, who, p, a).t
                IN AgentsFit(W, P, K) /\ Live(A) \subseteq Live(W)
         /\ \A i, row, patch : "provider" \in DOMAIN row /\ row.provider \in Providers =>
                LET W == UpdateAgentRequest(A, K, who, i, row, patch).t
                IN AgentsFit(W, P, K) /\ Live(A) \subseteq Live(W)
<1>1. ASSUME NEW p, NEW a, "provider" \in DOMAIN a
      PROVE  LET W == CreateAgentRequest(A, P, K, who, p, a).t
             IN AgentsFit(W, P, K) /\ Live(A) \subseteq Live(W)
  <2>1. PICK b : b = [a EXCEPT !.project = p, !.scope = IF @ = Nil THEN "project" ELSE @]
    OBVIOUS
  <2>2. PICK c : c = [b EXCEPT !.kind = Nil, !.provider = IF @ = Nil THEN "claude" ELSE @]
    OBVIOUS
  <2>3. PICK d : d = WithKind(c)
    OBVIOUS
  <2>4. PICK g : g = AgentServiceCreate(A, P, K, b)
    OBVIOUS
  <2>5. \/ g = Invalid(A)
        \/ b.provider \in Providers \cup {Nil} /\ g = AgentErr(CreateAgent(A, P, K, d))
    BY <2>2, <2>3, <2>4 DEF AgentServiceCreate, AgentRepoCreate
  <2>6. b.provider \in Providers \cup {Nil} => d.provider \in Providers
    <3>1. "provider" \in DOMAIN b
      BY <1>1, <2>1
    <3>2. "provider" \in DOMAIN c /\ c.provider = IF b.provider = Nil THEN "claude" ELSE b.provider
      BY <2>2, <3>1
    <3>3. d.provider = IF c.provider = Nil THEN "claude" ELSE c.provider
      BY <2>3, <3>2 DEF WithKind
    <3> QED BY <3>2, <3>3 DEF Providers
  <2>7. \E S : /\ A \in S /\ \A T \in S : AgentsFit(T, P, K) /\ Live(A) \subseteq Live(T)
               /\ Leaves(g, S)
    <3>1. CASE g = Invalid(A)
      <4>1. A \in {A} /\ \A T \in {A} : AgentsFit(T, P, K) /\ Live(A) \subseteq Live(T)
        OBVIOUS
      <4> QED BY <3>1, <4>1, LeftAlone
    <3>2. CASE b.provider \in Providers \cup {Nil} /\ g = AgentErr(CreateAgent(A, P, K, d))
      BY <2>6, <3>2, AgentInserted, AgentErrLeaves
    <3> QED BY <2>5, <3>1, <3>2
  <2>8. PICK S : /\ A \in S /\ \A T \in S : AgentsFit(T, P, K) /\ Live(A) \subseteq Live(T)
                 /\ Leaves(g, S)
    BY <2>7
  <2>9. CreateAgentRequest(A, P, K, who, p, a) = Handle(A, who.role, g, 201)
    BY <2>1, <2>4 DEF CreateAgentRequest
  <2> QED BY <2>8, <2>9, SentBack
<1>2. ASSUME NEW i, NEW row, NEW patch, "provider" \in DOMAIN row, row.provider \in Providers
      PROVE  LET W == UpdateAgentRequest(A, K, who, i, row, patch).t
             IN AgentsFit(W, P, K) /\ Live(A) \subseteq Live(W)
  <2>1. PICK b : b = PatchedAgent(row, patch)
    OBVIOUS
  <2>2. PICK d : d = WithKind(b)
    OBVIOUS
  <2>3. PICK g : g = AgentServiceSave(A, K, i, row, patch)
    OBVIOUS
  <2>4. \/ g = Invalid(A)
        \/ patch.provider \in Providers \cup {Nil} /\ g = AgentErr(UpdateAgent(A, K, i, d))
    BY <2>1, <2>2, <2>3 DEF AgentServiceSave, AgentRepoUpdate
  <2>5. patch.provider \in Providers \cup {Nil} => d.provider \in Providers
    <3>1. "provider" \in DOMAIN b /\ b.provider = Coalesce(patch.provider, row.provider)
      BY <1>2, <2>1 DEF PatchedAgent
    <3>2. d.provider = IF b.provider = Nil THEN "claude" ELSE b.provider
      BY <2>2, <3>1 DEF WithKind
    <3> QED BY <1>2, <3>1, <3>2 DEF Providers, Coalesce
  <2>7. \E S : /\ A \in S /\ \A T \in S : AgentsFit(T, P, K) /\ Live(A) \subseteq Live(T)
               /\ Leaves(g, S)
    <3>1. CASE g = Invalid(A)
      <4>1. A \in {A} /\ \A T \in {A} : AgentsFit(T, P, K) /\ Live(A) \subseteq Live(T)
        OBVIOUS
      <4> QED BY <3>1, <4>1, LeftAlone
    <3>2. CASE patch.provider \in Providers \cup {Nil} /\ g = AgentErr(UpdateAgent(A, K, i, d))
      BY <2>5, <3>2, AgentChanged, AgentErrLeaves
    <3> QED BY <2>4, <3>1, <3>2
  <2>8. PICK S : /\ A \in S /\ \A T \in S : AgentsFit(T, P, K) /\ Live(A) \subseteq Live(T)
                 /\ Leaves(g, S)
    BY <2>7
  <2>9. UpdateAgentRequest(A, K, who, i, row, patch) = Handle(A, who.role, g, 200)
    BY <2>3 DEF UpdateAgentRequest
  <2> QED BY <2>8, <2>9, SentBack
<1> QED BY <1>1, <1>2
(* Deletions.                                                               *)
LEMMA RowErased ==
  ASSUME NEW T, NEW i
  PROVE  \E W, ids : ids = {i} /\ Erase(T, i) = Outcome(W, i, "none") /\ Loses(T, W, ids)
<1>1. PICK W : W = [j \in DOMAIN T |-> [T[j] EXCEPT !.live = @ /\ j # i]]
  OBVIOUS
<1>2. PICK ids : ids = {i}
  OBVIOUS
<1>3. \A j \in DOMAIN T : W[j] = [T[j] EXCEPT !.live = @ /\ j \notin ids]
  BY <1>1, <1>2
<1>4. Loses(T, W, ids)
  BY <1>1, <1>3 DEF Loses
<1> QED BY <1>1, <1>2, <1>4 DEF Erase

LEMMA DroppedLoses ==
  ASSUME NEW T, NEW ids
  PROVE  Loses(T, Dropped(T, ids), ids)
BY DEF Dropped, Loses

(* What is left of a table whose rows belong to projects.                   *)
LEMMA LeftOf ==
  ASSUME NEW T, NEW columns, Rows(T, columns), "project" \in columns, NEW W, NEW ids,
         Loses(T, W, ids), NEW projects, OfProjects(T, projects)
  PROVE  /\ Rows(W, columns) /\ Live(W) = Live(T) \ ids /\ OfProjects(W, projects)
         /\ \A j \in Live(W), c \in columns : c # "live" => W[j][c] = T[j][c]
         /\ \A p : ids = Of(T, p) => OfProjects(W, projects \ {p})
<1>1. /\ Rows(W, columns) /\ Live(W) = Live(T) \ ids
      /\ \A j \in DOMAIN T, c \in columns : c # "live" => W[j][c] = T[j][c]
  BY RowsDropped
<1>2. \A j \in Live(W) : j \in Live(T) /\ j \in DOMAIN T /\ j \notin ids
  BY <1>1 DEF Live
<1>3. \A j \in Live(W), c \in columns : c # "live" => W[j][c] = T[j][c]
  BY <1>1, <1>2
<1>4. \A j \in Live(W) : W[j].project = T[j].project
  BY <1>3
<1>5. OfProjects(W, projects)
  BY <1>2, <1>4 DEF OfProjects
<1>6. ASSUME NEW p, ids = Of(T, p) PROVE OfProjects(W, projects \ {p})
  BY <1>2, <1>4, <1>6 DEF OfProjects, Of
<1> QED BY <1>1, <1>3, <1>5, <1>6

LEMMA AgentsLost ==
  ASSUME NEW A, NEW P, NEW K, AgentsFit(A, P, K), NEW W, NEW ids, Loses(A, W, ids)
  PROVE  /\ AgentsFit(W, P, K) /\ Live(W) = Live(A) \ ids
         /\ \A Q, p : Live(Q) = Live(P) \ {p} /\ ids = Of(A, p) => AgentsFit(W, Q, K)
<1>c. PICK columns : columns = {"project", "name", "stack", "provider"}
  OBVIOUS
<1>r. Rows(A, columns) /\ "project" \in columns
  BY <1>c DEF AgentsFit
<1>p. PICK projects : projects = Live(P) \cup {0}
  OBVIOUS
<1>o. OfProjects(A, projects)
  BY <1>p DEF AgentsFit
<1>1. /\ Rows(W, columns) /\ Live(W) = Live(A) \ ids /\ OfProjects(W, projects)
      /\ \A j \in Live(W), c \in columns : c # "live" => W[j][c] = A[j][c]
      /\ \A p : ids = Of(A, p) => OfProjects(W, projects \ {p})
  BY <1>r, <1>o, LeftOf
<1>2. \A j \in Live(W) : /\ W[j].project = A[j].project /\ W[j].name = A[j].name
                         /\ W[j].stack = A[j].stack /\ W[j].provider = A[j].provider
  BY <1>c, <1>1
<1>3. UniqueRows(W, AgentClash)
  BY <1>1, <1>2 DEF UniqueRows, AgentsFit, AgentClash
<1>4. \A j \in Live(W) : W[j].stack \in Live(K) \cup {0} /\ W[j].provider \in Providers
  BY <1>1, <1>2 DEF AgentsFit
<1>5. ASSUME NEW Q, OfProjects(W, Live(Q) \cup {0}) PROVE AgentsFit(W, Q, K)
  BY <1>c, <1>1, <1>3, <1>4, <1>5 DEF AgentsFit
<1>6. ASSUME NEW Q, NEW p, Live(Q) = Live(P) \ {p}, ids = Of(A, p) PROVE AgentsFit(W, Q, K)
  <2>1. OfProjects(W, projects \ {p})
    BY <1>1, <1>6
  <2>2. OfProjects(W, Live(Q) \cup {0})
    BY <1>p, <1>6, <2>1 DEF OfProjects
  <2> QED BY <1>5, <2>2
<1> QED BY <1>p, <1>1, <1>5, <1>6

LEMMA AgentErased ==
  ASSUME NEW A, NEW P, NEW K, AgentsFit(A, P, K), NEW who, NEW i, NEW r,
         r = DeleteAgentRequest(A, who, i), r.status = 204
  PROVE  AgentsFit(r.t, P, K) /\ Live(r.t) = Live(A) \ {i}
<1>1. PICK W, ids : ids = {i} /\ Erase(A, i) = Outcome(W, i, "none") /\ Loses(A, W, ids)
  BY RowErased
<1>2. AgentsFit(W, P, K) /\ Live(W) = Live(A) \ {i}
  BY <1>1, AgentsLost
<1>3. PICK g : g = AgentServiceDelete(A, i)
  OBVIOUS
<1>4. Ok(AsAdmin(who.role, g)) /\ r.t = AsAdmin(who.role, g).t
  <2>1. r = Handle(A, who.role, g, 204)
    BY <1>3 DEF DeleteAgentRequest
  <2>2. r.status = Response(AsAdmin(who.role, g), 204)
        /\ r.t = IF Ok(AsAdmin(who.role, g)) THEN AsAdmin(who.role, g).t ELSE A
    BY <2>1 DEF Handle
  <2>3. \A category : StatusOf(category) # 204
    BY DEF StatusOf
  <2> QED BY <2>2, <2>3 DEF Response
<1>5. Ok(g) /\ r.t = g.t
  BY <1>4, OutcomeFacts DEF AsAdmin, Ok
<1>6. PICK o, d : o = AgentRepoGet(A, i) /\ d = Erase(A, i)
  OBVIOUS
<1>7. g = IF Ok(o) THEN RepoExec(d) ELSE o
  BY <1>3, <1>6 DEF AgentServiceDelete, AgentRepoDelete, DeleteAgent
<1>8. g = RepoExec(d) /\ Outcomes(d) /\ d.t = W
  BY <1>1, <1>5, <1>6, <1>7, OutcomeFacts
<1>9. g.t = W
  BY <1>8, Passed
<1> QED BY <1>2, <1>5, <1>9
LEMMA MembersOf ==
  ASSUME NEW M, NEW P, NEW U, MembersFit(M, P, U), NEW p, NEW Q, Live(Q) = Live(P) \ {p},
         NEW W, NEW ids, Loses(M, W, ids), ids = Of(M, p)
  PROVE  MembersFit(W, Q, U)
<1>1. /\ MembersFit(W, P, U) /\ Live(W) = Live(M) \ ids
      /\ \A i \in Live(W) : W[i].project = M[i].project
  BY MembersLost
<1>2. OfProjects(W, Live(Q))
  BY <1>1 DEF MembersFit, OfProjects, Of
<1> QED BY <1>1, <1>2 DEF MembersFit

LEMMA PipelinesLost ==
  ASSUME NEW C, NEW P, PipelinesFit(C, P), NEW W, NEW ids, Loses(C, W, ids)
  PROVE  /\ PipelinesFit(W, P) /\ Live(W) = Live(C) \ ids
         /\ \A j \in Live(W) : W[j].project = C[j].project
         /\ \A Q, p : Live(Q) = Live(P) \ {p} /\ ids = Of(C, p) => PipelinesFit(W, Q)
<1>c. PICK columns : columns = {"project", "yaml"}
  OBVIOUS
<1>p. PICK projects : projects = Live(P)
  OBVIOUS
<1>r. Rows(C, columns) /\ "project" \in columns /\ OfProjects(C, projects)
  BY <1>c, <1>p DEF PipelinesFit
<1>1. /\ Rows(W, columns) /\ Live(W) = Live(C) \ ids /\ OfProjects(W, projects)
      /\ \A j \in Live(W), c \in columns : c # "live" => W[j][c] = C[j][c]
      /\ \A p : ids = Of(C, p) => OfProjects(W, projects \ {p})
  BY <1>r, LeftOf
<1>2. \A j \in Live(W) : W[j].project = C[j].project /\ W[j].yaml = C[j].yaml
  BY <1>c, <1>1
<1>3. UniqueRows(W, ProjectClash)
  BY <1>1, <1>2 DEF UniqueRows, PipelinesFit, ProjectClash
<1>4. \A j \in Live(W) : ValidatePipelineConfigYAML(W[j].yaml)
  BY <1>1, <1>2 DEF PipelinesFit
<1>5. ASSUME NEW Q, OfProjects(W, Live(Q)) PROVE PipelinesFit(W, Q)
  BY <1>c, <1>1, <1>3, <1>4, <1>5 DEF PipelinesFit
<1>6. ASSUME NEW Q, NEW p, Live(Q) = Live(P) \ {p}, ids = Of(C, p) PROVE PipelinesFit(W, Q)
  <2>1. OfProjects(W, Live(Q))
    BY <1>p, <1>1, <1>6
  <2> QED BY <1>5, <2>1
<1> QED BY <1>p, <1>1, <1>2, <1>5, <1>6

LEMMA EnvironmentsLost ==
  ASSUME NEW E, NEW P, EnvironmentsFit(E, P), NEW W, NEW ids, Loses(E, W, ids)
  PROVE  /\ EnvironmentsFit(W, P) /\ Live(W) = Live(E) \ ids
         /\ \A j \in Live(W) : W[j].project = E[j].project
         /\ \A Q, p : Live(Q) = Live(P) \ {p} /\ ids = Of(E, p) => EnvironmentsFit(W, Q)
<1>c. PICK columns : columns = {"project", "stacks", "source"}
  OBVIOUS
<1>p. PICK projects : projects = Live(P)
  OBVIOUS
<1>r. Rows(E, columns) /\ "project" \in columns /\ OfProjects(E, projects)
  BY <1>c, <1>p DEF EnvironmentsFit
<1>1. /\ Rows(W, columns) /\ Live(W) = Live(E) \ ids /\ OfProjects(W, projects)
      /\ \A j \in Live(W), c \in columns : c # "live" => W[j][c] = E[j][c]
      /\ \A p : ids = Of(E, p) => OfProjects(W, projects \ {p})
  BY <1>r, LeftOf
<1>2. \A j \in Live(W) : W[j].project = E[j].project /\ W[j].stacks = E[j].stacks /\ W[j].source = E[j].source
  BY <1>c, <1>1
<1>3. UniqueRows(W, ProjectClash)
  BY <1>1, <1>2 DEF UniqueRows, EnvironmentsFit, ProjectClash
<1>4. \A j \in Live(W) : ValidateEnvironmentInput(W[j])
  BY <1>1, <1>2 DEF EnvironmentsFit, ValidateEnvironmentInput
<1>5. ASSUME NEW Q, OfProjects(W, Live(Q)) PROVE EnvironmentsFit(W, Q)
  BY <1>c, <1>1, <1>3, <1>4, <1>5 DEF EnvironmentsFit
<1>6. ASSUME NEW Q, NEW p, Live(Q) = Live(P) \ {p}, ids = Of(E, p) PROVE EnvironmentsFit(W, Q)
  <2>1. OfProjects(W, Live(Q))
    BY <1>p, <1>1, <1>6
  <2> QED BY <1>5, <2>1
<1> QED BY <1>p, <1>1, <1>2, <1>5, <1>6

LEMMA ConfigsLost ==
  ASSUME NEW T, NEW P, ConfigsFit(T, P), NEW W, NEW ids, Loses(T, W, ids)
  PROVE  /\ ConfigsFit(W, P) /\ Live(W) = Live(T) \ ids
         /\ \A j \in Live(W) : W[j].project = T[j].project
         /\ \A Q, p : Live(Q) = Live(P) \ {p} /\ ids = Of(T, p) => ConfigsFit(W, Q)
<1>c. PICK columns : columns = {"project", "channel"}
  OBVIOUS
<1>p. PICK projects : projects = Live(P)
  OBVIOUS
<1>r. Rows(T, columns) /\ "project" \in columns /\ OfProjects(T, projects)
  BY <1>c, <1>p DEF ConfigsFit
<1>1. /\ Rows(W, columns) /\ Live(W) = Live(T) \ ids /\ OfProjects(W, projects)
      /\ \A j \in Live(W), c \in columns : c # "live" => W[j][c] = T[j][c]
      /\ \A p : ids = Of(T, p) => OfProjects(W, projects \ {p})
  BY <1>r, LeftOf
<1>2. \A j \in Live(W) : W[j].project = T[j].project /\ W[j].channel = T[j].channel
  BY <1>c, <1>1
<1>4. \A j \in Live(W) : W[j].channel \in Channels
  BY <1>1, <1>2 DEF ConfigsFit
<1>5. ASSUME NEW Q, OfProjects(W, Live(Q)) PROVE ConfigsFit(W, Q)
  BY <1>c, <1>1, <1>4, <1>5 DEF ConfigsFit
<1>6. ASSUME NEW Q, NEW p, Live(Q) = Live(P) \ {p}, ids = Of(T, p) PROVE ConfigsFit(W, Q)
  <2>1. OfProjects(W, Live(Q))
    BY <1>p, <1>1, <1>6
  <2> QED BY <1>5, <2>1
<1> QED BY <1>p, <1>1, <1>2, <1>5, <1>6

LEMMA RunsLost ==
  ASSUME NEW R, NEW P, RunsFit(R, P), NEW W, NEW ids, Loses(R, W, ids)
  PROVE  /\ RunsFit(W, P) /\ Live(W) = Live(R) \ ids
         /\ \A j \in Live(W) : W[j].project = R[j].project
         /\ \A Q, p : Live(Q) = Live(P) \ {p} /\ ids = Of(R, p) => RunsFit(W, Q)
<1>c. PICK columns : columns = {"project"}
  OBVIOUS
<1>p. PICK projects : projects = Live(P)
  OBVIOUS
<1>r. Rows(R, columns) /\ "project" \in columns /\ OfProjects(R, projects)
  BY <1>c, <1>p DEF RunsFit
<1>1. /\ Rows(W, columns) /\ Live(W) = Live(R) \ ids /\ OfProjects(W, projects)
      /\ \A j \in Live(W), c \in columns : c # "live" => W[j][c] = R[j][c]
      /\ \A p : ids = Of(R, p) => OfProjects(W, projects \ {p})
  BY <1>r, LeftOf
<1>2. \A j \in Live(W) : W[j].project = R[j].project
  BY <1>c, <1>1
<1>5. ASSUME NEW Q, OfProjects(W, Live(Q)) PROVE RunsFit(W, Q)
  BY <1>c, <1>1, <1>5 DEF RunsFit
<1>6. ASSUME NEW Q, NEW p, Live(Q) = Live(P) \ {p}, ids = Of(R, p) PROVE RunsFit(W, Q)
  <2>1. OfProjects(W, Live(Q))
    BY <1>p, <1>1, <1>6
  <2> QED BY <1>5, <2>1
<1> QED BY <1>p, <1>1, <1>2, <1>5, <1>6
(* Environments, channels and stories.                                      *)
LEMMA EnvironmentsChange ==
  ASSUME NEW E, NEW P, EnvironmentsFit(E, P)
  PROVE  /\ \A found, p, e :
                EnvironmentsFit(PutProjectEnvironmentRequest(E, P, found, p, e).t, P)
         /\ \A p : EnvironmentsFit(DeleteProjectEnvironmentRequest(E, p).t, P)
<1>c. PICK columns : columns = {"project", "stacks", "source"}
  OBVIOUS
<1>r. Rows(E, columns)
  BY <1>c DEF EnvironmentsFit
<1>1. ASSUME NEW e, ValidateEnvironmentInput(e)
      PROVE  \E S : E \in S /\ (\A T \in S : EnvironmentsFit(T, P)) /\ Leaves(CreateEnvironment(E, P, e), S)
  <2>1. PICK row : row = [live |-> TRUE, project |-> e.project, stacks |-> e.stacks, source |-> e.source]
    OBVIOUS
  <2>2. PICK W : W = Append(E, row)
    OBVIOUS
  <2>3. Entry(row, columns) /\ ValidateEnvironmentInput(row) /\ row.project = e.project
    BY <1>c, <1>1, <2>1 DEF Entry, ValidateEnvironmentInput
  <2>4. Rows(W, columns) /\ Gains(E, W, row)
    BY <1>r, <2>2, <2>3, RowsAppended
  <2>5. \/ \E err : CreateEnvironment(E, P, e) = Refused(E, err)
        \/ /\ e.project \in Live(P) /\ \A i \in Live(E) : ~ProjectClash(E[i], row)
           /\ CreateEnvironment(E, P, e) = Outcome(W, Len(E) + 1, "none")
    BY <2>1, <2>2, Zenon DEF CreateEnvironment, Insert
  <2>6. PICK S : S = {T \in {E, W} : EnvironmentsFit(T, P)}
    OBVIOUS
  <2>7. CASE /\ e.project \in Live(P) /\ \A i \in Live(E) : ~ProjectClash(E[i], row)
             /\ CreateEnvironment(E, P, e) = Outcome(W, Len(E) + 1, "none")
    <3>1. UniqueRows(W, ProjectClash)
      BY <2>4, <2>7 DEF UniqueRows, ProjectClash, EnvironmentsFit, Live, Gains
    <3>2. OfProjects(W, Live(P)) /\ \A i \in Live(W) : ValidateEnvironmentInput(W[i])
      BY <2>3, <2>4, <2>7 DEF OfProjects, EnvironmentsFit, Live, Gains
    <3>3. EnvironmentsFit(W, P)
      BY <1>c, <2>4, <3>1, <3>2 DEF EnvironmentsFit
    <3>4. W \in S /\ E \in S
      BY <2>6, <3>3
    <3> QED BY <2>6, <2>7, <3>4, LeftAlone
  <2>8. E \in S /\ \A T \in S : EnvironmentsFit(T, P)
    BY <2>6
  <2>9. CASE \E err : CreateEnvironment(E, P, e) = Refused(E, err)
    BY <2>8, <2>9, LeftAlone
  <2> QED BY <2>5, <2>7, <2>9
<1>2. ASSUME NEW i, NEW e, ValidateEnvironmentInput(e)
      PROVE  \E S : E \in S /\ (\A T \in S : EnvironmentsFit(T, P)) /\ Leaves(UpdateEnvironment(E, i, e), S)
  <2>1. PICK row : row = [E[i] EXCEPT !.stacks = e.stacks, !.source = e.source]
    OBVIOUS
  <2>2. PICK W : W = [E EXCEPT ![i] = row]
    OBVIOUS
  <2>5. \/ \E err : UpdateEnvironment(E, i, e) = Refused(E, err)
        \/ /\ i \in Live(E) /\ \A j \in Live(E) \ {i} : ~ProjectClash(E[j], row)
           /\ UpdateEnvironment(E, i, e) = Outcome(W, i, "none")
    BY <2>1, <2>2, Zenon DEF UpdateEnvironment, Change
  <2>6. PICK S : S = {T \in {E, W} : EnvironmentsFit(T, P)}
    OBVIOUS
  <2>7. CASE /\ i \in Live(E) /\ \A j \in Live(E) \ {i} : ~ProjectClash(E[j], row)
             /\ UpdateEnvironment(E, i, e) = Outcome(W, i, "none")
    <3>0. columns \cup {"live"} \subseteq DOMAIN E[i] /\ E[i].live \in BOOLEAN /\ E[i].live
      BY <1>r, <2>7 DEF Live, Rows
    <3>1. /\ DOMAIN row = DOMAIN E[i] /\ row.live = E[i].live /\ row.project = E[i].project
          /\ row.stacks = e.stacks /\ row.source = e.source
      BY <1>c, <2>1, <3>0
    <3>2. Entry(row, columns) /\ ValidateEnvironmentInput(row)
      BY <1>2, <3>0, <3>1 DEF Entry, ValidateEnvironmentInput
    <3>3. Rows(W, columns) /\ Changes(E, W, i, row)
      BY <1>r, <2>2, <2>7, <3>2, RowsReplaced
    <3>4. UniqueRows(W, ProjectClash)
      BY <2>7, <3>3 DEF UniqueRows, ProjectClash, EnvironmentsFit, Live, Changes
    <3>5. OfProjects(W, Live(P)) /\ \A j \in Live(W) : ValidateEnvironmentInput(W[j])
      BY <2>7, <3>1, <3>2, <3>3 DEF OfProjects, EnvironmentsFit, Live, Changes
    <3>6. EnvironmentsFit(W, P)
      BY <1>c, <3>3, <3>4, <3>5 DEF EnvironmentsFit
    <3>7. W \in S /\ E \in S
      BY <2>6, <3>6
    <3> QED BY <2>6, <2>7, <3>7, LeftAlone
  <2>8. E \in S /\ \A T \in S : EnvironmentsFit(T, P)
    BY <2>6
  <2>9. CASE \E err : UpdateEnvironment(E, i, e) = Refused(E, err)
    BY <2>8, <2>9, LeftAlone
  <2> QED BY <2>5, <2>7, <2>9
<1>3. ASSUME NEW found, NEW p, NEW e
      PROVE  EnvironmentsFit(PutProjectEnvironmentRequest(E, P, found, p, e).t, P)
  <2>1. PICK f : f = [e EXCEPT !.project = p]
    OBVIOUS
  <2>2. PICK full : full = [f EXCEPT !.source = IF @ = Nil THEN "declared" ELSE @]
    OBVIOUS
  <2>3. PICK g : g = EnvServiceSave(E, P, found, f)
    OBVIOUS
  <2>4. \/ g = Invalid(E)
        \/ ValidateEnvironmentInput(full) /\ g = Repo(CreateEnvironment(E, P, full))
        \/ ValidateEnvironmentInput(full) /\ g = Repo(UpdateEnvironment(E, found, full))
    BY <2>2, <2>3 DEF EnvServiceSave, EnvRepoCreate, EnvRepoUpdate
  <2>5. \E S : E \in S /\ (\A T \in S : EnvironmentsFit(T, P)) /\ Leaves(g, S)
    <3>1. CASE g = Invalid(E)
      <4>1. E \in {E} /\ \A T \in {E} : EnvironmentsFit(T, P)
        OBVIOUS
      <4> QED BY <3>1, <4>1, LeftAlone
    <3>2. CASE ValidateEnvironmentInput(full) /\ g = Repo(CreateEnvironment(E, P, full))
      BY <1>1, <3>2, PassedOn
    <3>3. CASE ValidateEnvironmentInput(full) /\ g = Repo(UpdateEnvironment(E, found, full))
      BY <1>2, <3>3, PassedOn
    <3> QED BY <2>4, <3>1, <3>2, <3>3
  <2>6. PICK S : E \in S /\ (\A T \in S : EnvironmentsFit(T, P)) /\ Leaves(g, S)
    BY <2>5
  <2>7. PutProjectEnvironmentRequest(E, P, found, p, e) = Reply(E, g, 200)
    BY <2>1, <2>3 DEF PutProjectEnvironmentRequest
  <2> QED BY <2>6, <2>7, SentBack
<1>4. ASSUME NEW p PROVE EnvironmentsFit(DeleteProjectEnvironmentRequest(E, p).t, P)
  <2>1. PICK o : o = EnvRepoGetByProjectID(E, p)
    OBVIOUS
  <2>2. PICK W, ids : Erase(E, o.id) = Outcome(W, o.id, "none") /\ Loses(E, W, ids)
    BY RowErased
  <2>3. PICK S : S = {E, W}
    OBVIOUS
  <2>4. E \in S /\ \A T \in S : EnvironmentsFit(T, P)
    BY <2>2, <2>3, EnvironmentsLost
  <2>5. Leaves(Erase(E, o.id), S)
    BY <2>2, <2>3, LeftAlone
  <2>6. Leaves(o, S)
    <3>1. o = Repo(Refused(E, "no_rows"))
          \/ \E i : o = Repo(Outcome(E, i, "none"))
      BY <2>1 DEF EnvRepoGetByProjectID, GetEnvironmentByProjectID, One
    <3> QED BY <2>4, <3>1, LeftAlone, PassedOn
  <2>7. EnvServiceDelete(E, p) = o \/ EnvServiceDelete(E, p) = RepoExec(Erase(E, o.id))
    BY <2>1 DEF EnvServiceDelete, EnvRepoDelete, DeleteEnvironment
  <2>8. Leaves(EnvServiceDelete(E, p), S)
    BY <2>5, <2>6, <2>7, PassedOn
  <2> QED BY <2>4, <2>8, SentBack DEF DeleteProjectEnvironmentRequest
<1> QED BY <1>3, <1>4

LEMMA ConfigsChange ==
  ASSUME NEW T, NEW P, ConfigsFit(T, P)
  PROVE  /\ \A cfg : ConfigsFit(CreateConfigRequest(T, P, cfg).t, P)
         /\ \A i, cfg : ConfigsFit(UpdateConfigRequest(T, i, cfg).t, P)
         /\ \A i : ConfigsFit(DeleteConfigRequest(T, i).t, P)
<1>c. PICK columns : columns = {"project", "channel"}
  OBVIOUS
<1>r. Rows(T, columns)
  BY <1>c DEF ConfigsFit
<1>1. ASSUME NEW cfg PROVE ConfigsFit(CreateConfigRequest(T, P, cfg).t, P)
  <2>0. PICK c : c = [cfg EXCEPT !.enabled = Coalesce(@, "on")]
    OBVIOUS
  <2>1. PICK row : row = [live |-> TRUE, project |-> c.project, channel |-> c.channel,
                          target |-> c.target, filter |-> c.filter, enabled |-> c.enabled]
    OBVIOUS
  <2>2. PICK W : W = Append(T, row)
    OBVIOUS
  <2>3. Entry(row, columns) /\ row.project = c.project /\ row.channel = c.channel
    BY <1>c, <2>1 DEF Entry
  <2>4. Rows(W, columns) /\ Gains(T, W, row)
    BY <1>r, <2>2, <2>3, RowsAppended
  <2>5. \/ \E err : InsertNotificationConfig(T, P, c) = Refused(T, err)
        \/ /\ c.project \in Live(P) /\ c.channel \in Channels
           /\ InsertNotificationConfig(T, P, c) = Outcome(W, Len(T) + 1, "none")
    <3>1. CASE ConfigConstraint(P, c) # "none"
      BY <3>1 DEF InsertNotificationConfig
    <3>2. CASE ConfigConstraint(P, c) = "none"
      <4>1. c.project \in Live(P) /\ c.channel \in Channels
        BY <3>2 DEF ConfigConstraint
      <4>2. InsertNotificationConfig(T, P, c) = Insert(T, row, NoClash)
        BY <2>1, <3>2 DEF InsertNotificationConfig
      <4> QED BY <2>2, <4>1, <4>2 DEF Insert, NoClash
    <3> QED BY <3>1, <3>2
  <2>6. PICK S : S = {V \in {T, W} : ConfigsFit(V, P)}
    OBVIOUS
  <2>7. Leaves(InsertNotificationConfig(T, P, c), S)
    <3>1. CASE /\ c.project \in Live(P) /\ c.channel \in Channels
               /\ InsertNotificationConfig(T, P, c) = Outcome(W, Len(T) + 1, "none")
      <4>1. OfProjects(W, Live(P)) /\ \A i \in Live(W) : W[i].channel \in Channels
        BY <2>3, <2>4, <3>1 DEF OfProjects, ConfigsFit, Live, Gains
      <4>2. W \in S
        BY <1>c, <2>4, <2>6, <4>1 DEF ConfigsFit
      <4> QED BY <3>1, <4>2, LeftAlone
    <3> QED BY <2>5, <2>6, <3>1, LeftAlone
  <2>8. \/ CreateConfigRequest(T, P, cfg) = Reply(T, Invalid(T), 201)
        \/ CreateConfigRequest(T, P, cfg) = Reply(T, RepoExec(InsertNotificationConfig(T, P, c)), 201)
    BY <2>0 DEF CreateConfigRequest, ConfigRepoInsert
  <2>9. T \in S /\ Leaves(Invalid(T), S) /\ Leaves(RepoExec(InsertNotificationConfig(T, P, c)), S)
    BY <2>6, <2>7, LeftAlone, PassedOn
  <2>10. CreateConfigRequest(T, P, cfg).t \in S
    BY <2>8, <2>9, SentBack
  <2> QED BY <2>6, <2>10
<1>2. ASSUME NEW i, NEW c PROVE ConfigsFit(UpdateConfigRequest(T, i, c).t, P)
  <2>1. PICK row : row = [T[i] EXCEPT !.channel = c.channel, !.target = c.target,
                                      !.filter = c.filter, !.enabled = c.enabled]
    OBVIOUS
  <2>2. PICK W : W = [T EXCEPT ![i] = row]
    OBVIOUS
  <2>3. PICK S : S = {V \in {T, W} : ConfigsFit(V, P)}
    OBVIOUS
  <2>4. \/ \E err : UpdateNotificationConfig(T, i, c) = Refused(T, err)
        \/ /\ i \in Live(T) /\ c.channel \in Channels
           /\ UpdateNotificationConfig(T, i, c) = Outcome(W, i, "none")
    <3>1. CASE i \notin Live(T)
      BY <3>1 DEF UpdateNotificationConfig
    <3>2. CASE i \in Live(T) /\ c.channel \notin Channels
      BY <3>2 DEF UpdateNotificationConfig
    <3>3. CASE i \in Live(T) /\ c.channel \in Channels
      <4>1. UpdateNotificationConfig(T, i, c) = Change(T, i, row, NoClash)
        BY <2>1, <3>3 DEF UpdateNotificationConfig
      <4> QED BY <2>2, <3>3, <4>1 DEF Change, NoClash
    <3> QED BY <3>1, <3>2, <3>3
  <2>5. Leaves(UpdateNotificationConfig(T, i, c), S)
    <3>1. CASE /\ i \in Live(T) /\ c.channel \in Channels
               /\ UpdateNotificationConfig(T, i, c) = Outcome(W, i, "none")
      <4>0. columns \cup {"live"} \subseteq DOMAIN T[i] /\ T[i].live \in BOOLEAN /\ T[i].live
        BY <1>r, <3>1 DEF Live, Rows
      <4>1. /\ DOMAIN row = DOMAIN T[i] /\ row.live = T[i].live /\ row.project = T[i].project
            /\ row.channel = c.channel
        BY <1>c, <2>1, <4>0
      <4>2. Entry(row, columns)
        BY <4>0, <4>1 DEF Entry
      <4>3. Rows(W, columns) /\ Changes(T, W, i, row)
        BY <1>r, <2>2, <3>1, <4>2, RowsReplaced
      <4>4. OfProjects(W, Live(P)) /\ \A j \in Live(W) : W[j].channel \in Channels
        BY <3>1, <4>1, <4>3 DEF OfProjects, ConfigsFit, Live, Changes
      <4>5. W \in S
        BY <1>c, <2>3, <4>3, <4>4 DEF ConfigsFit
      <4> QED BY <3>1, <4>5, LeftAlone
    <3> QED BY <2>3, <2>4, <3>1, LeftAlone
  <2>6. UpdateConfigRequest(T, i, c) = Reply(T, Repo(UpdateNotificationConfig(T, i, c)), 200)
    BY DEF UpdateConfigRequest, ConfigRepoUpdate
  <2>7. UpdateConfigRequest(T, i, c).t \in S
    BY <2>3, <2>5, <2>6, PassedOn, SentBack
  <2> QED BY <2>3, <2>7
<1>3. ASSUME NEW i PROVE ConfigsFit(DeleteConfigRequest(T, i).t, P)
  <2>1. PICK W, ids : Erase(T, i) = Outcome(W, i, "none") /\ Loses(T, W, ids)
    BY RowErased
  <2>2. PICK S : S = {T, W}
    OBVIOUS
  <2>3. T \in S /\ \A V \in S : ConfigsFit(V, P)
    BY <2>1, <2>2, ConfigsLost
  <2>4. Leaves(Erase(T, i), S)
    BY <2>1, <2>2, LeftAlone
  <2>5. DeleteConfigRequest(T, i) = Reply(T, RepoExec(Erase(T, i)), 204)
    BY DEF DeleteConfigRequest, ConfigRepoDelete, DeleteNotificationConfig
  <2> QED BY <2>3, <2>4, <2>5, PassedOn, SentBack
<1> QED BY <1>1, <1>2, <1>3

LEMMA StoryErased ==
  ASSUME NEW T, NEW P, RunsFit(T, P), NEW i
  PROVE  RunsFit(DeleteStoryRequest(T, "admin", i).t, P)
<1>1. PICK W, ids : Erase(T, i) = Outcome(W, i, "none") /\ Loses(T, W, ids)
  BY RowErased
<1>2. PICK S : S = {T, W}
  OBVIOUS
<1>3. T \in S /\ \A V \in S : RunsFit(V, P)
  BY <1>1, <1>2, RunsLost
<1>4. Leaves(Erase(T, i), S)
  BY <1>1, <1>2, LeftAlone
<1>5. PICK o : o = StoryRepoGetByID(T, i)
  OBVIOUS
<1>6. Leaves(o, S)
  <2>1. o = Repo(Refused(T, "no_rows")) \/ o = Repo(Outcome(T, i, "none"))
    BY <1>5 DEF StoryRepoGetByID, GetStory
  <2> QED BY <1>3, <2>1, LeftAlone, PassedOn
<1>7. StoryServiceDelete(T, i) = o \/ StoryServiceDelete(T, i) = RepoExec(Erase(T, i))
  BY <1>5 DEF StoryServiceDelete, StoryRepoDelete, DeleteStory
<1>8. Leaves(StoryServiceDelete(T, i), S)
  BY <1>4, <1>6, <1>7, PassedOn
<1> QED BY <1>3, <1>8, SentBack DEF DeleteStoryRequest
(* Stacks.  The start applies the catalogue's entries one after the other:  *)
(* the tables it goes through are a function of the entries applied, which  *)
(* exists, and each of which fits, because there is no least one where that *)
(* would fail.                                                              *)
LEMMA LeastNatural ==
  ASSUME NEW T, T \subseteq Nat, T # {}
  PROVE  \E m \in T : \A k \in T : m <= k
<1>1. PICK u \in T : TRUE
  OBVIOUS
<1> DEFINE Initial == {s \in SUBSET (0..u) : \E n \in T : s = 0..n}
<1>2. Initial # {}
  OBVIOUS
<1>3. Initial \subseteq FiniteSubsetsOf(0..u)
  <2>1. IsFiniteSet(0..u)
    BY FS_Interval
  <2> QED BY <2>1, FS_FiniteSubsetsOfFinite
<1>4. \E x \in Initial : \A y \in Initial : <<y, x>> \notin StrictSubsetOrdering(0..u)
  <2> HIDE DEF Initial
  <2> QED BY <1>2, <1>3, FS_StrictSubsetOrderingWellFounded, WFMin
<1>5. PICK x \in Initial : \A y \in Initial : ~(y \subseteq x /\ y # x)
  <2>1. \A y \in Initial : y \in SUBSET (0..u)
    OBVIOUS
  <2>2. PICK x \in Initial : \A y \in Initial : <<y, x>> \notin StrictSubsetOrdering(0..u)
    BY <1>4
  <2> HIDE DEF Initial
  <2>3. ASSUME NEW y \in Initial, y \subseteq x, y # x
        PROVE  FALSE
    <3>1. <<y, x>> \in (SUBSET (0..u)) \X (SUBSET (0..u))
      BY <2>1
    <3>2. <<y, x>> \in StrictSubsetOrdering(0..u)
      BY <3>1, <2>3 DEF StrictSubsetOrdering
    <3> QED BY <2>2, <3>2
  <2> QED BY <2>3
<1>6. PICK m \in T : x = 0..m
  OBVIOUS
<1>7. ASSUME NEW k \in T, k < m
      PROVE  FALSE
  <2>1. (0..k) \in Initial /\ (0..k) \subseteq x /\ m \in x /\ m \notin 0..k
    BY <1>6, <1>7
  <2> QED BY <2>1, <1>5
<1> QED BY <1>7

LEMMA StackUpserted ==
  ASSUME NEW T, StacksFit(T), NEW s
  PROVE  \E W : StacksFit(W) /\ Live(T) \subseteq Live(W) /\ Leaves(StackRepoUpsert(T, s), {W})
<1>r. Rows(T, {"key"})
  BY DEF StacksFit
<1> DEFINE old == RowsWhere(T, LAMBDA r : r.key = s.key)
<1>o. old = {i \in Live(T) : T[i].key = s.key}
  BY DEF RowsWhere
<1>1. \E W : StacksFit(W) /\ Live(T) \subseteq Live(W) /\ Leaves(UpsertStack(T, s), {W})
  <2>1. CASE s.key \notin StackKeys
    <3>1. UpsertStack(T, s) = Refused(T, "check")
      BY <2>1 DEF UpsertStack
    <3> QED BY <3>1, LeftAlone
  <2>2. CASE s.key \in StackKeys /\ old = {}
    <3>1. PICK row : row = [live |-> TRUE, key |-> s.key, image |-> s.image]
      OBVIOUS
    <3>2. PICK W : W = Append(T, row)
      OBVIOUS
    <3>3. Entry(row, {"key"})
      BY <3>1 DEF Entry
    <3>4. Rows(W, {"key"}) /\ Gains(T, W, row)
      BY <1>r, <3>2, <3>3, RowsAppended
    <3>5. UpsertStack(T, s) = Insert(T, row, StackClash)
      BY <2>2, <3>1 DEF UpsertStack
    <3>6. \A i \in Live(T) : ~StackClash(T[i], row)
      BY <1>o, <2>2, <3>1 DEF StackClash
    <3>7. UpsertStack(T, s) = Outcome(W, Len(T) + 1, "none")
      BY <3>2, <3>5, <3>6 DEF Insert
    <3>8. UniqueRows(W, StackClash)
      BY <3>4, <3>6 DEF UniqueRows, StackClash, StacksFit, Live, Gains
    <3>9. StacksFit(W) /\ Live(T) \subseteq Live(W)
      BY <3>4, <3>8 DEF StacksFit, Gains
    <3> QED BY <3>7, <3>9, LeftAlone
  <2>3. CASE s.key \in StackKeys /\ old # {}
    <3>1. PICK i : i \in old /\ i = CHOOSE k \in old : TRUE
      BY <2>3
    <3>2. PICK row : row = [T[i] EXCEPT !.image = s.image]
      OBVIOUS
    <3>3. PICK W : W = [T EXCEPT ![i] = row]
      OBVIOUS
    <3>4. i \in Live(T) /\ T[i].key = s.key
      BY <1>o, <3>1
    <3>5. {"key", "live"} \subseteq DOMAIN T[i] /\ T[i].live \in BOOLEAN /\ T[i].live
      BY <1>r, <3>4 DEF Live, Rows
    <3>6. DOMAIN row = DOMAIN T[i] /\ row.live = T[i].live /\ row.key = T[i].key
      BY <3>2, <3>5
    <3>7. Entry(row, {"key"})
      BY <3>5, <3>6 DEF Entry
    <3>8. Rows(W, {"key"}) /\ Changes(T, W, i, row)
      BY <1>r, <3>3, <3>4, <3>7, RowsReplaced
    <3>9. \A j \in Live(T) \ {i} : ~StackClash(T[j], row)
      BY <3>4, <3>6 DEF StacksFit, UniqueRows, StackClash
    <3>10. UpsertStack(T, s) = Change(T, i, row, StackClash)
      BY <2>3, <3>1, <3>2 DEF UpsertStack
    <3>11. UpsertStack(T, s) = Outcome(W, i, "none")
      BY <3>3, <3>4, <3>9, <3>10 DEF Change
    <3>12. UniqueRows(W, StackClash)
      BY <3>8, <3>9 DEF UniqueRows, StackClash, StacksFit, Live, Changes
    <3>13. StacksFit(W) /\ Live(T) \subseteq Live(W)
      BY <3>8, <3>12 DEF StacksFit, Changes
    <3> QED BY <3>11, <3>13, LeftAlone
  <2> QED BY <2>1, <2>2, <2>3
<1>2. PICK W : StacksFit(W) /\ Live(T) \subseteq Live(W) /\ Leaves(UpsertStack(T, s), {W})
  BY <1>1
<1>3. Leaves(StackRepoUpsert(T, s), {W})
  BY <1>2, PassedOn DEF StackRepoUpsert
<1> QED BY <1>2, <1>3

SeedNext(o, entries, k) ==
    IF k \in StackCatalogueFromConfig(entries) /\ Ok(o) THEN StackRepoUpsert(o.t, entries[k]) ELSE o
SeedRun(f, T, entries, n) ==
    /\ f = [k \in 0..n |-> f[k]] /\ f[0] = Outcome(T, 0, "ok")
    /\ \A k \in 1..n : f[k] = SeedNext(f[k - 1], entries, k)

LEMMA SeedRuns ==
  ASSUME NEW T, NEW entries, NEW n \in Nat
  PROVE  \E f : SeedRun(f, T, entries, n)
<1> DEFINE Bad == {m \in Nat : ~\E f : SeedRun(f, T, entries, m)}
<1>1. SUFFICES ASSUME Bad # {} PROVE FALSE
  OBVIOUS
<1>2. PICK m \in Bad : \A k \in Bad : m <= k
  BY <1>1, LeastNatural
<1>3. m \in Nat /\ ~\E f : SeedRun(f, T, entries, m)
  BY <1>2
<1>4. CASE m = 0
  <2>1. PICK f : f = [k \in 0..0 |-> Outcome(T, 0, "ok")]
    OBVIOUS
  <2>2. SeedRun(f, T, entries, 0)
    BY <2>1 DEF SeedRun
  <2> QED BY <1>3, <1>4, <2>2
<1>5. CASE m # 0
  <2>1. m - 1 \in Nat /\ m - 1 \notin Bad
    BY <1>2, <1>5
  <2>2. PICK f : SeedRun(f, T, entries, m - 1)
    BY <2>1
  <2>3. PICK o : o = SeedNext(f[m - 1], entries, m)
    OBVIOUS
  <2>4. PICK g : g = [k \in 0..m |-> IF k = m THEN o ELSE f[k]]
    OBVIOUS
  <2>5. g = [k \in 0..m |-> g[k]] /\ g[0] = Outcome(T, 0, "ok")
    BY <1>3, <1>5, <2>2, <2>4 DEF SeedRun
  <2>6. ASSUME NEW k \in 1..m PROVE g[k] = SeedNext(g[k - 1], entries, k)
    <3>1. g[k - 1] = f[k - 1]
      BY <1>3, <2>4
    <3>2. CASE k = m
      BY <1>3, <1>5, <2>3, <2>4, <3>1, <3>2
    <3>3. CASE k # m
      <4>1. k \in 1..(m - 1)
        BY <1>3, <3>3
      <4>2. f[k] = SeedNext(f[k - 1], entries, k)
        BY <2>2, <4>1 DEF SeedRun
      <4>3. k \in 0..m
        OBVIOUS
      <4>4. g[k] = f[k]
        BY <2>4, <3>3, <4>3
      <4> QED BY <3>1, <4>2, <4>4
    <3> QED BY <3>2, <3>3
  <2>7. SeedRun(g, T, entries, m)
    BY <2>5, <2>6 DEF SeedRun
  <2> QED BY <1>3, <2>7
<1> QED BY <1>4, <1>5

LEMMA StacksSeeded ==
  ASSUME NEW T, StacksFit(T), NEW entries, InRow(entries)
  PROVE  StacksFit(SeedStacks(T, entries)) /\ Live(T) \subseteq Live(SeedStacks(T, entries))
<1>n. PICK n \in Nat : n = Len(entries)
  BY RowFacts DEF InRow
<1> DEFINE Body(f) == [k \in 0..Len(entries) |->
                         IF k = 0 THEN Outcome(T, 0, "ok")
                         ELSE IF k \in StackCatalogueFromConfig(entries) /\ Ok(f[k - 1])
                         THEN StackRepoUpsert(f[k - 1].t, entries[k]) ELSE f[k - 1]]
           upTo == CHOOSE f : f = Body(f)
<1>1. SeedStacks(T, entries) = upTo[Len(entries)].t
  BY DEF SeedStacks
<1>2. \E f : f = Body(f)
  <2>1. PICK f : SeedRun(f, T, entries, n)
    BY SeedRuns
  <2>2. f = Body(f)
    BY <1>n, <2>1 DEF SeedRun, SeedNext
  <2> QED BY <2>2
<1>3. PICK f : f = upTo /\ f = Body(f)
  BY <1>2
<1> DEFINE Good(o) == Outcomes(o) /\ StacksFit(o.t) /\ Live(T) \subseteq Live(o.t)
<1> HIDE DEF upTo
<1>4. f[0] = Outcome(T, 0, "ok") /\ \A k \in 1..n : f[k] = SeedNext(f[k - 1], entries, k)
  BY <1>n, <1>3 DEF SeedNext
<1>5. ASSUME NEW o, NEW k, Good(o) PROVE Good(SeedNext(o, entries, k))
  <2>1. CASE SeedNext(o, entries, k) = o
    BY <1>5, <2>1
  <2>2. CASE SeedNext(o, entries, k) = StackRepoUpsert(o.t, entries[k])
    <3>1. PICK W : /\ StacksFit(W) /\ Live(o.t) \subseteq Live(W)
                   /\ Leaves(StackRepoUpsert(o.t, entries[k]), {W})
      BY <1>5, StackUpserted
    <3> QED BY <1>5, <2>2, <3>1 DEF Leaves
  <2> QED BY <2>1, <2>2 DEF SeedNext
<1>6. Good(f[0])
  BY <1>4, OutcomeFacts
<1> HIDE DEF Good
<1> DEFINE Bad == {k \in 0..n : ~Good(f[k])}
<1>7. Bad = {}
  <2>1. SUFFICES ASSUME Bad # {} PROVE FALSE
    OBVIOUS
  <2>2. PICK m \in Bad : \A k \in Bad : m <= k
    <3>1. Bad \in SUBSET Nat
      BY <1>n
    <3> HIDE DEF Bad
    <3> QED BY <2>1, <3>1, LeastNatural
  <2>3. m \in 1..n /\ ~Good(f[m])
    BY <1>n, <1>6, <2>2
  <2>4. m - 1 \in 0..n /\ m - 1 \notin Bad
    BY <1>n, <2>2, <2>3
  <2>5. Good(f[m - 1]) /\ f[m] = SeedNext(f[m - 1], entries, m)
    BY <1>4, <2>3, <2>4
  <2> QED BY <1>5, <2>3, <2>5
<1>8. Good(f[n])
  BY <1>n, <1>7
<1> QED BY <1>1, <1>3, <1>n, <1>8 DEF Good

-----------------------------------------------------------------------------
(* Costs.                                                                   *)

(* A table whose rows are rewritten, and none gained or lost.               *)
LEMMA RowsRewritten ==
  ASSUME NEW T, NEW columns, Rows(T, columns), NEW W, DOMAIN W = DOMAIN T,
         W = [j \in DOMAIN T |-> W[j]],
         \A j \in DOMAIN T : DOMAIN W[j] = DOMAIN T[j] /\ W[j].live = T[j].live
  PROVE  Rows(W, columns) /\ Live(W) = Live(T)
<1>1. InRow(W)
  <2>1. Len(T) \in Nat /\ DOMAIN T = 1..Len(T)
    BY RowFacts DEF Rows
  <2>2. W \in [1..Len(T) -> Range(W)]
    BY <2>1 DEF Range
  <2> QED BY <2>1, <2>2, SeqDef DEF InRow
<1>2. Rows(W, columns)
  BY <1>1 DEF Rows, InRow
<1> QED BY <1>2 DEF Live

CostColumns == {"step", "project", "agent", "age"}
LEMMA CostInserted ==
  ASSUME NEW d, NEW s, NEW a, NEW c, CostsFit(d.costs, d.steps, d.runs, d.agents),
         s \in Live(d.steps), a \in Live(d.agents) \cup {0}
  PROVE  \E S : /\ d.costs \in S
                /\ \A V \in S : CostsFit(V, d.steps, d.runs, d.agents)
                /\ Leaves(CostRepoInsert(d, s, d.runs[d.steps[s].run].project, a, c), S)
<1>p. PICK p : p = d.runs[d.steps[s].run].project
  OBVIOUS
<1>r. PICK row : row = [live |-> TRUE, step |-> s, project |-> p, agent |-> a, age |-> 0,
                        usd |-> c.usd, input |-> c.input, output |-> c.output, model |-> c.model]
  OBVIOUS
<1>e. /\ Entry(row, CostColumns) /\ row.step = s /\ row.project = p /\ row.agent = a
  BY <1>r DEF Entry, CostColumns
<1>k. PICK K : K = d.costs
  OBVIOUS
<1>w. PICK W : W = Append(K, row)
  OBVIOUS
<1>1. Rows(K, CostColumns)
  BY <1>k DEF CostsFit, CostColumns
<1>2. Rows(W, CostColumns) /\ Gains(K, W, row)
  BY <1>1, <1>e, <1>w, RowsAppended
<1>3. CostsFit(W, d.steps, d.runs, d.agents)
  <2>1. ASSUME NEW i \in Live(W)
        PROVE  /\ W[i].step \in Live(d.steps) /\ W[i].agent \in Live(d.agents) \cup {0}
               /\ W[i].project = d.runs[d.steps[W[i].step].run].project
    <3>1. CASE i \in Live(K)
      <4>1. W[i] = K[i]
        BY <1>2, <3>1 DEF Gains, Live
      <4> QED BY <1>k, <3>1, <4>1 DEF CostsFit
    <3>2. CASE i = Len(K) + 1
      <4>1. W[i] = row
        BY <1>2, <3>2 DEF Gains
      <4> QED BY <1>e, <1>p, <4>1
    <3> QED BY <1>2, <3>1, <3>2 DEF Gains
  <2> QED BY <1>2, <2>1 DEF CostsFit, CostColumns
<1>4. PICK q : q = InsertCostRecord(d, s, p, a, c)
  OBVIOUS
<1>5. q = Refused(K, "foreign_key") \/ q = Insert(K, row, NoClash)
  BY <1>4, <1>r, <1>k DEF InsertCostRecord
<1>6. q = Refused(K, "foreign_key") \/ q = Outcome(W, Len(K) + 1, "none")
  BY <1>5, <1>w DEF Insert, NoClash
<1>7. Leaves(q, {K, W})
  BY <1>6, LeftAlone
<1>8. Leaves(CostRepoInsert(d, s, p, a, c), {K, W})
  BY <1>4, <1>7, PassedOn DEF CostRepoInsert
<1> QED BY <1>3, <1>8, <1>p, <1>k

LEMMA CostRecorded ==
  ASSUME NEW d, NEW s, NEW a, NEW reported, CostsFit(d.costs, d.steps, d.runs, d.agents),
         s \in Live(d.steps), a \in Live(d.agents) \cup {0},
         NEW o \in RecordStepCost(d, s, d.runs[d.steps[s].run].project, reported, a)
  PROVE  CostsFit(o.t, d.steps, d.runs, d.agents)
<1>p. PICK p : p = d.runs[d.steps[s].run].project
  OBVIOUS
<1>1. o = Outcome(d.costs, 0, "ok")
      \/ \E c \in StepRecords(reported) : o = CostRepoInsert(d, s, p, a, c)
  BY <1>p DEF RecordStepCost
<1>2. CASE o = Outcome(d.costs, 0, "ok")
  BY <1>2, OutcomeFacts
<1>3. ASSUME NEW c, o = CostRepoInsert(d, s, p, a, c)
      PROVE  CostsFit(o.t, d.steps, d.runs, d.agents)
  BY <1>p, <1>3, CostInserted DEF Leaves
<1> QED BY <1>1, <1>2, <1>3

LEMMA CostReported ==
  ASSUME NEW d, NEW s, NEW event, CostsFit(d.costs, d.steps, d.runs, d.agents),
         s \in Live(d.steps), NEW r \in HandleCost(d, s, event)
  PROVE  CostsFit(r.t, d.steps, d.runs, d.agents)
<1>1. PICK o \in RecordStepCost(d, s, d.runs[d.steps[s].run].project, <<event>>, 0) :
        r.t = IF Ok(o) THEN o.t ELSE d.costs
  BY DEF HandleCost
<1>2. CostsFit(o.t, d.steps, d.runs, d.agents)
  BY CostRecorded
<1> QED BY <1>1, <1>2

LEMMA CostsKept ==
  ASSUME NEW K, NEW St, NEW R, NEW A, CostsFit(K, St, R, A)
  PROVE  /\ CostsFit(Aged(K), St, R, A)
         /\ \A ids, B : Live(A) \ ids \subseteq Live(B) => CostsFit(Unassigned(K, ids), St, R, B)
<1>0. Rows(K, CostColumns)
  BY DEF CostsFit, CostColumns
<1>1. CostsFit(Aged(K), St, R, A)
  <2>1. PICK W : W = [k \in DOMAIN K |-> [K[k] EXCEPT !.age = @ + 5]]
    OBVIOUS
  <2>2. \A j \in DOMAIN K : /\ DOMAIN W[j] = DOMAIN K[j] /\ W[j].live = K[j].live
                            /\ W[j].step = K[j].step /\ W[j].project = K[j].project
                            /\ W[j].agent = K[j].agent
    BY <1>0, <2>1 DEF Rows, CostColumns
  <2>3. Rows(W, CostColumns) /\ Live(W) = Live(K)
    BY <1>0, <2>1, <2>2, RowsRewritten
  <2>4. \A j \in Live(W) : j \in DOMAIN K /\ j \in Live(K)
    BY <2>3 DEF Live
  <2>5. CostsFit(W, St, R, A)
    BY <2>2, <2>3, <2>4 DEF CostsFit, CostColumns
  <2> QED BY <2>1, <2>5 DEF Aged
<1>2. ASSUME NEW ids, NEW B, Live(A) \ ids \subseteq Live(B)
      PROVE  CostsFit(Unassigned(K, ids), St, R, B)
  <2>1. PICK W : W = [k \in DOMAIN K |->
                        [K[k] EXCEPT !.agent = IF @ \in ids THEN 0 ELSE @]]
    OBVIOUS
  <2>2. \A j \in DOMAIN K : /\ DOMAIN W[j] = DOMAIN K[j] /\ W[j].live = K[j].live
                            /\ W[j].step = K[j].step /\ W[j].project = K[j].project
                            /\ W[j].agent = IF K[j].agent \in ids THEN 0 ELSE K[j].agent
    BY <1>0, <2>1 DEF Rows, CostColumns
  <2>3. Rows(W, CostColumns) /\ Live(W) = Live(K)
    BY <1>0, <2>1, <2>2, RowsRewritten
  <2>4. \A j \in Live(W) : j \in DOMAIN K /\ j \in Live(K)
    BY <2>3 DEF Live
  <2>5. \A j \in Live(W) : W[j].agent \in Live(B) \cup {0}
    BY <1>2, <2>2, <2>4 DEF CostsFit
  <2>6. CostsFit(W, St, R, B)
    BY <2>2, <2>3, <2>4, <2>5 DEF CostsFit, CostColumns
  <2> QED BY <2>1, <2>6 DEF Unassigned
<1> QED BY <1>1, <1>2
-----------------------------------------------------------------------------
(* The tables together.                                                     *)
TableNames == {"users", "sessions", "revoked", "members", "keys", "projects", "pipelines",
               "stacks", "agents", "environments", "configs", "stories", "runs", "steps", "costs",
               "attached"}

(* What is deleted with a project, or with agents.                          *)
LEMMA AgentsGo ==
  ASSUME NEW d, TableNames \subseteq DOMAIN d, NEW ids
  PROVE  LET e == WithoutAgents(d, ids)
         IN /\ DOMAIN e = DOMAIN d /\ e.costs = Unassigned(d.costs, ids)
            /\ \A n \in TableNames \ {"attached", "costs"} : e[n] = d[n]
BY DEF WithoutAgents, TableNames

Cascaded(d, c, p) ==
    /\ DOMAIN c = DOMAIN d
    /\ \A n \in {"users", "sessions", "revoked", "keys", "projects", "stacks"} : c[n] = d[n]
    /\ \A n \in {"members", "pipelines", "agents", "environments", "configs", "stories",
                 "runs"} : c[n] = Dropped(d[n], Of(d[n], p))
    /\ c.costs = Dropped(Unassigned(d.costs, Of(d.agents, p)), Of(d.costs, p))
    /\ c.steps = Dropped(d.steps, {i \in Live(d.steps) : d.runs[d.steps[i].run].project = p})
LEMMA CascadeTables ==
  ASSUME NEW d, TableNames \subseteq DOMAIN d, NEW p, NEW c, c = Cascade(d, p)
  PROVE  Cascaded(d, c, p)
<1> DEFINE Owned == {"members", "pipelines", "agents", "environments", "configs", "stories",
                     "runs", "costs"}
<1>1. PICK e : e = WithoutAgents(d, Of(d.agents, p))
  OBVIOUS
<1>2. PICK s : s = Dropped(d.steps, {i \in Live(d.steps) : d.runs[d.steps[i].run].project = p})
  OBVIOUS
<1>3. /\ DOMAIN e = DOMAIN d /\ e.costs = Unassigned(d.costs, Of(d.agents, p))
      /\ \A n \in TableNames \ {"attached", "costs"} : e[n] = d[n]
  BY <1>1, AgentsGo
<1>4. c = [n \in DOMAIN d |-> CASE n \in Owned -> Dropped(e[n], Of(d[n], p))
                                [] n = "steps" -> s
                                [] OTHER -> e[n]]
  BY <1>1, <1>2 DEF Cascade
<1>5. DOMAIN c = DOMAIN d
  BY <1>4
<1>6. \A n \in DOMAIN d : n \notin Owned /\ n # "steps" => c[n] = e[n]
  BY <1>4
<1>7. \A n \in DOMAIN d : n \in Owned => c[n] = Dropped(e[n], Of(d[n], p))
  BY <1>4
<1>8. c.steps = s
  BY <1>4 DEF TableNames
<1>9. \A n \in {"users", "sessions", "revoked", "keys", "projects", "stacks"} : c[n] = d[n]
  BY <1>3, <1>6 DEF TableNames
<1>10. \A n \in Owned \ {"costs"} : c[n] = Dropped(d[n], Of(d[n], p))
  BY <1>3, <1>7 DEF TableNames
<1>11. c.costs = Dropped(e.costs, Of(d.costs, p))
  BY <1>7 DEF TableNames
<1> QED BY <1>2, <1>3, <1>5, <1>8, <1>9, <1>10, <1>11 DEF Cascaded

LEMMA CostsCascade ==
  ASSUME NEW K, NEW St, NEW R, NEW A, CostsFit(K, St, R, A), StepsFit(St, R), NEW P, RunsFit(R, P),
         NEW p, NEW B, Live(B) = Live(A) \ Of(A, p), NEW S, NEW Q,
         Loses(St, S, {i \in Live(St) : R[St[i].run].project = p}), Loses(R, Q, Of(R, p))
  PROVE  /\ CostsFit(Dropped(Unassigned(K, Of(A, p)), Of(K, p)), S, Q, B)
         /\ StepsFit(S, Q)
<1>u. PICK U : U = Unassigned(K, Of(A, p))
  OBVIOUS
<1>1. CostsFit(U, St, R, B)
  BY <1>u, CostsKept
<1>w. PICK W : W = Dropped(U, Of(K, p))
  OBVIOUS
<1>2. Loses(U, W, Of(K, p))
  BY <1>w, DroppedLoses
<1>3. /\ Rows(W, CostColumns) /\ Live(W) = Live(U) \ Of(K, p)
      /\ \A j \in DOMAIN U, c \in CostColumns : c # "live" => W[j][c] = U[j][c]
  BY <1>1, <1>2, RowsDropped DEF CostsFit, CostColumns
<1>4. \A j \in Live(W) : /\ j \in Live(U) /\ j \notin Of(K, p) /\ W[j].step = U[j].step
                         /\ W[j].agent = U[j].agent /\ W[j].project = U[j].project
  BY <1>3 DEF Live, CostColumns
<1>5. Live(U) = Live(K) /\ \A j \in Live(U) : U[j].project = K[j].project
  BY <1>u DEF Unassigned, Live, CostsFit, Rows
<1>6. \A j \in Live(W) : W[j].project # p
  BY <1>4, <1>5 DEF Of
<1>s. PICK gone : gone = {i \in Live(St) : R[St[i].run].project = p}
  OBVIOUS
<1>c. PICK columns : columns = {"run"}
  OBVIOUS
<1>7. /\ Rows(S, columns) /\ Live(S) = Live(St) \ gone
      /\ \A j \in DOMAIN St, c \in columns : c # "live" => S[j][c] = St[j][c]
  BY <1>s, <1>c, RowsDropped DEF StepsFit
<1>8. \A j \in Live(S) : j \in Live(St) /\ S[j].run = St[j].run /\ R[St[j].run].project # p
  BY <1>7, <1>s, <1>c DEF Live
<1>9. /\ Live(Q) = Live(R) \ Of(R, p)
      /\ \A j \in Live(Q) : Q[j].project = R[j].project
  BY RunsLost
<1>10. ASSUME NEW j \in Live(S) PROVE S[j].run \in Live(Q)
  <2>1. S[j].run \in Live(R)
    BY <1>8 DEF StepsFit
  <2>2. S[j].run \notin Of(R, p)
    BY <1>8 DEF Of
  <2> QED BY <1>9, <2>1, <2>2
<1>11. StepsFit(S, Q)
  BY <1>7, <1>c, <1>10 DEF StepsFit
<1>12. ASSUME NEW j \in Live(W)
       PROVE  /\ W[j].step \in Live(S) /\ W[j].agent \in Live(B) \cup {0}
              /\ W[j].project = Q[S[W[j].step].run].project
  <2>1. /\ W[j].step \in Live(St) /\ W[j].agent \in Live(B) \cup {0}
        /\ W[j].project = R[St[W[j].step].run].project
    BY <1>1, <1>4 DEF CostsFit
  <2>2. W[j].step \in Live(S)
    BY <1>6, <1>7, <1>s, <2>1
  <2>3. S[W[j].step].run = St[W[j].step].run /\ S[W[j].step].run \in Live(Q)
    BY <1>8, <1>10, <2>2
  <2> QED BY <1>9, <2>1, <2>2, <2>3
<1>13. CostsFit(W, S, Q, B)
  BY <1>3, <1>12 DEF CostsFit, CostColumns
<1> QED BY <1>11, <1>13, <1>u, <1>w
LEMMA FitsTables ==
  ASSUME NEW d
  PROVE  Fits(d) <=>
    /\ TableNames \subseteq DOMAIN d
    /\ UsersFit(d.users) /\ MembersFit(d.members, d.projects, d.users) /\ KeysFit(d.keys)
    /\ ProjectsFit(d.projects) /\ PipelinesFit(d.pipelines, d.projects)
    /\ StacksFit(d.stacks) /\ AgentsFit(d.agents, d.projects, d.stacks)
    /\ EnvironmentsFit(d.environments, d.projects) /\ ConfigsFit(d.configs, d.projects)
    /\ RunsFit(d.stories, d.projects)
    /\ RunsFit(d.runs, d.projects) /\ StepsFit(d.steps, d.runs)
    /\ CostsFit(d.costs, d.steps, d.runs, d.agents)
BY DEF Fits, TableNames, RunsFit

LEMMA CascadeFits ==
  ASSUME NEW d, Fits(d), NEW p, NEW P, ProjectsFit(P), Live(P) = Live(d.projects) \ {p},
         NEW e, e = [d EXCEPT !.projects = P], NEW c, c = Cascade(e, p)
  PROVE  /\ Fits(c) /\ c.sessions = d.sessions /\ c.projects = P
         /\ \A q : Piped(d.pipelines, q) /\ q # p => Piped(c.pipelines, q)
<1>f. /\ TableNames \subseteq DOMAIN d
      /\ UsersFit(d.users) /\ MembersFit(d.members, d.projects, d.users) /\ KeysFit(d.keys)
      /\ ProjectsFit(d.projects) /\ PipelinesFit(d.pipelines, d.projects)
      /\ StacksFit(d.stacks) /\ AgentsFit(d.agents, d.projects, d.stacks)
      /\ EnvironmentsFit(d.environments, d.projects) /\ ConfigsFit(d.configs, d.projects)
      /\ RunsFit(d.stories, d.projects)
      /\ RunsFit(d.runs, d.projects) /\ StepsFit(d.steps, d.runs)
      /\ CostsFit(d.costs, d.steps, d.runs, d.agents)
  BY FitsTables
<1>e. /\ DOMAIN e = DOMAIN d /\ e.projects = P
      /\ \A n \in TableNames \ {"projects"} : e[n] = d[n]
  BY <1>f DEF TableNames
<1>c. /\ DOMAIN c = DOMAIN e
      /\ \A n \in {"users", "sessions", "revoked", "keys", "projects", "stacks"} : c[n] = e[n]
      /\ \A n \in {"members", "pipelines", "agents", "environments", "configs", "stories",
                   "runs"} : c[n] = Dropped(e[n], Of(e[n], p))
      /\ c.costs = Dropped(Unassigned(e.costs, Of(e.agents, p)), Of(e.costs, p))
      /\ c.steps = Dropped(e.steps, {i \in Live(e.steps) : e.runs[e.steps[i].run].project = p})
  <2>1. TableNames \subseteq DOMAIN e
    BY <1>e, <1>f
  <2>2. Cascaded(e, c, p)
    BY <2>1, CascadeTables
  <2> QED BY <2>2 DEF Cascaded
<1>1. /\ c.users = d.users /\ c.sessions = d.sessions /\ c.keys = d.keys /\ c.projects = P
      /\ c.stacks = d.stacks
  BY <1>c, <1>e DEF TableNames
<1>2. \A n \in {"members", "pipelines", "agents", "environments", "configs", "stories", "runs"} :
        c[n] = Dropped(d[n], Of(d[n], p))
  BY <1>c, <1>e DEF TableNames
<1>3. \A n \in {"members", "pipelines", "agents", "environments", "configs", "stories", "runs"} :
        Loses(d[n], c[n], Of(d[n], p))
  BY <1>2, DroppedLoses
<1>4. e.costs = d.costs /\ e.agents = d.agents /\ e.steps = d.steps /\ e.runs = d.runs
  BY <1>e DEF TableNames
<1>5. /\ c.costs = Dropped(Unassigned(d.costs, Of(d.agents, p)), Of(d.costs, p))
      /\ Loses(d.steps, c.steps, {i \in Live(d.steps) : d.runs[d.steps[i].run].project = p})
  BY <1>c, <1>4, DroppedLoses
<1>6. MembersFit(c.members, P, d.users)
  BY <1>f, <1>3, MembersOf
<1>7. /\ PipelinesFit(c.pipelines, P) /\ Live(c.pipelines) = Live(d.pipelines) \ Of(d.pipelines, p)
      /\ \A j \in Live(c.pipelines) : c.pipelines[j].project = d.pipelines[j].project
  BY <1>f, <1>3, PipelinesLost
<1>8. AgentsFit(c.agents, P, d.stacks) /\ Live(c.agents) = Live(d.agents) \ Of(d.agents, p)
  BY <1>f, <1>3, AgentsLost
<1>9. EnvironmentsFit(c.environments, P)
  BY <1>f, <1>3, EnvironmentsLost
<1>10. ConfigsFit(c.configs, P)
  BY <1>f, <1>3, ConfigsLost
<1>11. RunsFit(c.stories, P) /\ RunsFit(c.runs, P)
  BY <1>f, <1>3, RunsLost
<1>12. CostsFit(c.costs, c.steps, c.runs, c.agents) /\ StepsFit(c.steps, c.runs)
  <2>1. Loses(d.runs, c.runs, Of(d.runs, p))
    BY <1>3
  <2>2. PICK K, St, R, A : K = d.costs /\ St = d.steps /\ R = d.runs /\ A = d.agents
    OBVIOUS
  <2>3. PICK S, Q, B : S = c.steps /\ Q = c.runs /\ B = c.agents
    OBVIOUS
  <2>4. PICK V : V = d.projects
    OBVIOUS
  <2>5. CostsFit(K, St, R, A) /\ StepsFit(St, R) /\ RunsFit(R, V)
    BY <1>f, <2>2, <2>4
  <2>6. /\ Live(B) = Live(A) \ Of(A, p) /\ Loses(R, Q, Of(R, p))
        /\ Loses(St, S, {i \in Live(St) : R[St[i].run].project = p})
        /\ c.costs = Dropped(Unassigned(K, Of(A, p)), Of(K, p))
    BY <1>5, <1>8, <2>1, <2>2, <2>3
  <2>7. CostsFit(Dropped(Unassigned(K, Of(A, p)), Of(K, p)), S, Q, B) /\ StepsFit(S, Q)
    BY <2>5, <2>6, CostsCascade
  <2> QED BY <2>3, <2>6, <2>7
<1>13. Fits(c)
  <2>1. TableNames \subseteq DOMAIN c
    BY <1>c, <1>e, <1>f
  <2> QED BY <1>1, <1>f, <1>6, <1>7, <1>8, <1>9, <1>10, <1>11, <1>12, <2>1, FitsTables
<1>14. ASSUME NEW q, Piped(d.pipelines, q), q # p PROVE Piped(c.pipelines, q)
  BY <1>7, <1>14 DEF Piped, Of
<1> QED BY <1>1, <1>13, <1>14

(* One table is replaced.                                                   *)
LEMMA FollowProjects ==
  ASSUME NEW P, NEW Q, Live(P) \subseteq Live(Q)
  PROVE  /\ \A C : PipelinesFit(C, P) => PipelinesFit(C, Q)
         /\ \A A, S : AgentsFit(A, P, S) => AgentsFit(A, Q, S)
         /\ \A E : EnvironmentsFit(E, P) => EnvironmentsFit(E, Q)
         /\ \A T : ConfigsFit(T, P) => ConfigsFit(T, Q)
         /\ \A R : RunsFit(R, P) => RunsFit(R, Q)
         /\ \A M, U : MembersFit(M, P, U) => MembersFit(M, Q, U)
<1>1. \A T, X : OfProjects(T, Live(P) \cup X) => OfProjects(T, Live(Q) \cup X)
  BY DEF OfProjects
<1>2. \A T : OfProjects(T, Live(P)) => OfProjects(T, Live(Q))
  BY DEF OfProjects
<1>3. \A C : PipelinesFit(C, P) => PipelinesFit(C, Q)
  BY <1>2 DEF PipelinesFit
<1>4. \A A, S : AgentsFit(A, P, S) => AgentsFit(A, Q, S)
  BY <1>1 DEF AgentsFit
<1>5. \A E : EnvironmentsFit(E, P) => EnvironmentsFit(E, Q)
  BY <1>2 DEF EnvironmentsFit
<1>6. \A T : ConfigsFit(T, P) => ConfigsFit(T, Q)
  BY <1>2 DEF ConfigsFit
<1>7. \A R : RunsFit(R, P) => RunsFit(R, Q)
  BY <1>2 DEF RunsFit
<1>8. \A M, U : MembersFit(M, P, U) => MembersFit(M, Q, U)
  BY MembersFollow
<1> QED BY <1>3, <1>4, <1>5, <1>6, <1>7, <1>8

LEMMA FitsPut ==
  ASSUME NEW d, Fits(d), NEW W
  PROVE  /\ UsersFit(W) /\ Live(d.users) \subseteq Live(W) => Fits([d EXCEPT !.users = W])
         /\ MembersFit(W, d.projects, d.users) => Fits([d EXCEPT !.members = W])
         /\ KeysFit(W) => Fits([d EXCEPT !.keys = W])
         /\ ProjectsFit(W) /\ Live(d.projects) \subseteq Live(W) => Fits([d EXCEPT !.projects = W])
         /\ PipelinesFit(W, d.projects) => Fits([d EXCEPT !.pipelines = W])
         /\ StacksFit(W) /\ Live(d.stacks) \subseteq Live(W) => Fits([d EXCEPT !.stacks = W])
         /\ AgentsFit(W, d.projects, d.stacks) /\ Live(d.agents) \subseteq Live(W) =>
                Fits([d EXCEPT !.agents = W])
         /\ EnvironmentsFit(W, d.projects) => Fits([d EXCEPT !.environments = W])
         /\ ConfigsFit(W, d.projects) => Fits([d EXCEPT !.configs = W])
         /\ RunsFit(W, d.projects) => Fits([d EXCEPT !.stories = W])
         /\ CostsFit(W, d.steps, d.runs, d.agents) => Fits([d EXCEPT !.costs = W])
         /\ Fits([d EXCEPT !.sessions = W]) /\ Fits([d EXCEPT !.revoked = W])
         /\ Fits([d EXCEPT !.resets = W])
<1>f. /\ TableNames \subseteq DOMAIN d
      /\ UsersFit(d.users) /\ MembersFit(d.members, d.projects, d.users) /\ KeysFit(d.keys)
      /\ ProjectsFit(d.projects) /\ PipelinesFit(d.pipelines, d.projects)
      /\ StacksFit(d.stacks) /\ AgentsFit(d.agents, d.projects, d.stacks)
      /\ EnvironmentsFit(d.environments, d.projects) /\ ConfigsFit(d.configs, d.projects)
      /\ RunsFit(d.stories, d.projects)
      /\ RunsFit(d.runs, d.projects) /\ StepsFit(d.steps, d.runs)
      /\ CostsFit(d.costs, d.steps, d.runs, d.agents)
  BY FitsTables
<1>p. ASSUME NEW n, NEW e, e = [d EXCEPT ![n] = W]
      PROVE  /\ TableNames \subseteq DOMAIN e /\ (n \in TableNames => e[n] = W)
             /\ \A m \in TableNames : m # n => e[m] = d[m]
  BY <1>f, <1>p
<1>m. /\ "users" \in TableNames /\ "members" \in TableNames /\ "keys" \in TableNames
      /\ "projects" \in TableNames /\ "pipelines" \in TableNames /\ "stacks" \in TableNames
      /\ "agents" \in TableNames /\ "environments" \in TableNames /\ "configs" \in TableNames
      /\ "stories" \in TableNames /\ "runs" \in TableNames /\ "steps" \in TableNames
      /\ "costs" \in TableNames /\ "sessions" \in TableNames /\ "revoked" \in TableNames
  BY DEF TableNames
<1>1. ASSUME UsersFit(W), Live(d.users) \subseteq Live(W) PROVE Fits([d EXCEPT !.users = W])
  <2>1. MembersFit(d.members, d.projects, W)
    BY <1>f, <1>1, MembersFollow
  <2>2. PICK e : e = [d EXCEPT !.users = W]
    OBVIOUS
  <2> QED BY <1>f, <1>m, <1>p, <1>1, <2>1, <2>2, FitsTables
<1>2. ASSUME MembersFit(W, d.projects, d.users) PROVE Fits([d EXCEPT !.members = W])
  <2>2. PICK e : e = [d EXCEPT !.members = W]
    OBVIOUS
  <2> QED BY <1>f, <1>m, <1>p, <1>2, <2>2, FitsTables
<1>3. ASSUME KeysFit(W) PROVE Fits([d EXCEPT !.keys = W])
  <2>2. PICK e : e = [d EXCEPT !.keys = W]
    OBVIOUS
  <2> QED BY <1>f, <1>m, <1>p, <1>3, <2>2, FitsTables
<1>4. ASSUME ProjectsFit(W), Live(d.projects) \subseteq Live(W)
      PROVE  Fits([d EXCEPT !.projects = W])
  <2>1. /\ PipelinesFit(d.pipelines, W) /\ AgentsFit(d.agents, W, d.stacks)
        /\ EnvironmentsFit(d.environments, W) /\ ConfigsFit(d.configs, W)
        /\ RunsFit(d.runs, W) /\ RunsFit(d.stories, W) /\ MembersFit(d.members, W, d.users)
    BY <1>f, <1>4, FollowProjects
  <2>2. PICK e : e = [d EXCEPT !.projects = W]
    OBVIOUS
  <2> QED BY <1>f, <1>m, <1>p, <1>4, <2>1, <2>2, FitsTables
<1>5. ASSUME PipelinesFit(W, d.projects) PROVE Fits([d EXCEPT !.pipelines = W])
  <2>2. PICK e : e = [d EXCEPT !.pipelines = W]
    OBVIOUS
  <2> QED BY <1>f, <1>m, <1>p, <1>5, <2>2, FitsTables
<1>6. ASSUME StacksFit(W), Live(d.stacks) \subseteq Live(W) PROVE Fits([d EXCEPT !.stacks = W])
  <2>1. AgentsFit(d.agents, d.projects, W)
    BY <1>f, <1>6 DEF AgentsFit
  <2>2. PICK e : e = [d EXCEPT !.stacks = W]
    OBVIOUS
  <2> QED BY <1>f, <1>m, <1>p, <1>6, <2>1, <2>2, FitsTables
<1>7. ASSUME AgentsFit(W, d.projects, d.stacks), Live(d.agents) \subseteq Live(W)
      PROVE  Fits([d EXCEPT !.agents = W])
  <2>1. CostsFit(d.costs, d.steps, d.runs, W)
    BY <1>f, <1>7 DEF CostsFit
  <2>2. PICK e : e = [d EXCEPT !.agents = W]
    OBVIOUS
  <2> QED BY <1>f, <1>m, <1>p, <1>7, <2>1, <2>2, FitsTables
<1>8. ASSUME EnvironmentsFit(W, d.projects) PROVE Fits([d EXCEPT !.environments = W])
  <2>2. PICK e : e = [d EXCEPT !.environments = W]
    OBVIOUS
  <2> QED BY <1>f, <1>m, <1>p, <1>8, <2>2, FitsTables
<1>9. ASSUME ConfigsFit(W, d.projects) PROVE Fits([d EXCEPT !.configs = W])
  <2>2. PICK e : e = [d EXCEPT !.configs = W]
    OBVIOUS
  <2> QED BY <1>f, <1>m, <1>p, <1>9, <2>2, FitsTables
<1>10. ASSUME RunsFit(W, d.projects) PROVE Fits([d EXCEPT !.stories = W])
  <2>2. PICK e : e = [d EXCEPT !.stories = W]
    OBVIOUS
  <2> QED BY <1>f, <1>m, <1>p, <1>10, <2>2, FitsTables
<1>11. ASSUME CostsFit(W, d.steps, d.runs, d.agents) PROVE Fits([d EXCEPT !.costs = W])
  <2>2. PICK e : e = [d EXCEPT !.costs = W]
    OBVIOUS
  <2> QED BY <1>f, <1>m, <1>p, <1>11, <2>2, FitsTables
<1>12. ASSUME NEW n \in {"sessions", "revoked", "resets"} PROVE Fits([d EXCEPT ![n] = W])
  <2>2. PICK e : e = [d EXCEPT ![n] = W]
    OBVIOUS
  <2> QED BY <1>f, <1>m, <1>p, <2>2, FitsTables
<1> QED
  BY <1>1, <1>2, <1>3, <1>4, <1>5, <1>6, <1>7, <1>8, <1>9, <1>10, <1>11, <1>12

-----------------------------------------------------------------------------
(* The invariant: the tables are what the schema allows; a request that is  *)
(* to save an agent holds a row with a provider the schema knows; the       *)
(* seeding of a project that has no pipeline is under way, failed or was    *)
(* cut short.                                                               *)
Holds(c) == c.kind = "agent" => "provider" \in DOMAIN c.row /\ c.row.provider \in Providers
AgentHeld == \A s \in Slots : Holds(calls[s])
SchemaInv == Fits(db) /\ "unseeded" \in DOMAIN past /\ AgentHeld /\ Seeded

(* What most steps do to the calls, the ghost and the pipelines.            *)
CallsHold == \A s \in Slots : calls'[s] # calls[s] => Holds(calls'[s])
SeedsStay == \A s \in Slots : In(s, "seed") => calls'[s] = calls[s]
UnseededGrows == "unseeded" \in DOMAIN past' /\ past.unseeded \subseteq past'.unseeded
PipesStay ==
    /\ Live(db'.projects) \subseteq Live(db.projects)
    /\ \A p \in Live(db'.projects) : Piped(db.pipelines, p) => Piped(db'.pipelines, p)

(* p has a pipeline, or its seeding is under way, failed or was cut short.   *)
Provided(d, c, unseeded, p) ==
    \/ HasPipeline(d, p) \/ p \in unseeded
    \/ \E s \in Slots : c[s].kind = "seed" /\ c[s].id = p

LEMMA SeededIs ==
  /\ Seeded <=> \A p \in Live(db.projects) : Provided(db, calls, past.unseeded, p)
  /\ Seeded' <=> \A p \in Live(db'.projects) : Provided(db', calls', past'.unseeded, p)
BY DEF Seeded, Provided, In

LEMMA StillProvided ==
  ASSUME NEW p, Provided(db, calls, past.unseeded, p), SeedsStay, UnseededGrows,
         Piped(db.pipelines, p) => Piped(db'.pipelines, p)
  PROVE  Provided(db', calls', past'.unseeded, p)
<1>2. CASE HasPipeline(db, p)
  BY <1>2 DEF HasPipeline, Piped, Provided
<1>3. CASE p \in past.unseeded
  BY <1>3 DEF UnseededGrows, Provided
<1>4. ASSUME NEW s \in Slots, calls[s].kind = "seed", calls[s].id = p
      PROVE  calls'[s].kind = "seed" /\ calls'[s].id = p
  BY <1>4 DEF SeedsStay, In
<1> QED BY <1>2, <1>3, <1>4 DEF Provided

LEMMA StillHeld ==
  ASSUME SchemaInv, CallsHold
  PROVE  AgentHeld'
<1>1. ASSUME NEW s \in Slots PROVE Holds(calls'[s])
  BY DEF SchemaInv, AgentHeld, CallsHold
<1> QED BY <1>1 DEF AgentHeld

LEMMA SchemaFollows ==
  ASSUME SchemaInv, Fits(db'), CallsHold, SeedsStay, UnseededGrows, PipesStay
  PROVE  SchemaInv'
<1>1. AgentHeld'
  BY StillHeld
<1>2. ASSUME NEW p \in Live(db'.projects) PROVE Provided(db', calls', past'.unseeded, p)
  <2>1. Provided(db, calls, past.unseeded, p)
    BY SeededIs DEF SchemaInv, PipesStay
  <2> QED BY <2>1, StillProvided DEF PipesStay
<1> QED BY <1>1, <1>2, SeededIs DEF SchemaInv, UnseededGrows

LEMMA CallsSame ==
  ASSUME UNCHANGED calls
  PROVE  CallsHold /\ SeedsStay
BY DEF CallsHold, SeedsStay

LEMMA PastSame ==
  ASSUME SchemaInv, UNCHANGED past
  PROVE  UnseededGrows
BY DEF SchemaInv, UnseededGrows

LEMMA CallEnds ==
  ASSUME IInv, NEW s \in Slots, End(s)
  PROVE  /\ CallsHold /\ (calls[s].kind # "seed" => SeedsStay)
         /\ \A t \in Slots : t # s => calls'[t] = calls[t]
<1>1. NoCall.kind = "none"
  BY DEF NoCall
<1>2. calls'[s] = NoCall /\ \A t \in Slots : t # s => calls'[t] = calls[t]
  BY DEF End, IInv, Typed
<1> QED BY <1>1, <1>2 DEF CallsHold, SeedsStay, Holds, In

LEMMA CallBegins ==
  ASSUME IInv, NEW kind, NEW who, NEW i, NEW row, NEW arg, Begin(kind, who, i, row, arg),
         kind = "agent" => "provider" \in DOMAIN row /\ row.provider \in Providers
  PROVE  /\ CallsHold /\ SeedsStay
         /\ \E s \in Slots : calls'[s].kind = kind /\ calls'[s].id = i
<1>c. PICK c : c = [kind |-> kind, who |-> who, id |-> i, row |-> row, arg |-> arg]
  OBVIOUS
<1>f. PICK free : free = {s \in Slots : calls[s].kind = "none"}
  OBVIOUS
<1>1. free # {} /\ calls' = [calls EXCEPT ![CHOOSE s \in free : \A r \in free : s <= r] = c]
  BY <1>c, <1>f DEF Begin
<1>2. \E s \in free : \A r \in free : s <= r
  <2>1. free \subseteq Nat
    BY <1>f DEF Slots
  <2> QED BY <1>1, <2>1, LeastNatural
<1>3. PICK t \in free : t = CHOOSE s \in free : \A r \in free : s <= r
  BY <1>2
<1>4. t \in Slots /\ calls[t].kind = "none"
  BY <1>f
<1>5. calls' = [calls EXCEPT ![t] = c]
  BY <1>1, <1>3
<1>6. calls'[t] = c /\ \A s \in Slots : s # t => calls'[s] = calls[s]
  BY <1>4, <1>5 DEF IInv, Typed
<1>7. c.kind = kind /\ c.id = i /\ c.row = row
  BY <1>c
<1> QED BY <1>4, <1>6, <1>7 DEF CallsHold, SeedsStay, Holds, In

(* A step that writes another table than the projects and their pipelines.  *)
LEMMA PipesSame ==
  ASSUME SchemaInv, NEW n, n \notin {"projects", "pipelines"}, NEW W, db' = [db EXCEPT ![n] = W]
  PROVE  PipesStay
<1>1. {"projects", "pipelines"} \subseteq DOMAIN db
  BY DEF SchemaInv, Fits
<1>2. db'.projects = db.projects /\ db'.pipelines = db.pipelines
  BY <1>1
<1> QED BY <1>2 DEF PipesStay

LEMMA PutHolds ==
  ASSUME SchemaInv, UNCHANGED <<calls, past>>, NEW n, n \notin {"projects", "pipelines"}, NEW W,
         db' = [db EXCEPT ![n] = W], Fits(db')
  PROVE  SchemaInv'
BY CallsSame, PastSame, PipesSame, SchemaFollows

LEMMA DbSame ==
  ASSUME SchemaInv, UNCHANGED db
  PROVE  Fits(db') /\ PipesStay
BY DEF SchemaInv, PipesStay

LEMMA BeginHolds ==
  ASSUME IInv, SchemaInv, UNCHANGED db, UnseededGrows, NEW kind, NEW who, NEW i, NEW row, NEW arg,
         Begin(kind, who, i, row, arg),
         kind = "agent" => "provider" \in DOMAIN row /\ row.provider \in Providers
  PROVE  SchemaInv'
BY CallBegins, DbSame, SchemaFollows

LEMMA EndHolds ==
  ASSUME IInv, SchemaInv, NEW s \in Slots, End(s), calls[s].kind # "seed", UnseededGrows,
         Fits(db'), PipesStay
  PROVE  SchemaInv'
BY CallEnds, SchemaFollows
-----------------------------------------------------------------------------
(* The actions.                                                             *)

LEMMA RegisterHolds ==
  ASSUME IInv, SchemaInv, RegisterUser
  PROVE  SchemaInv'
<1>1. PICK email \in Inputs.emails, pw \in Inputs.passwords, name \in Inputs.people :
        LET r == RegisterRequest(db.users, email, pw, name)
        IN /\ Put("users", r)
           /\ past' = IF r.status # 201 THEN past
                      ELSE [past EXCEPT !.granted = @ \cup {<<r.id, "user">>},
                                        !.proven = @ \cup {<<r.id, pw>>},
                                        !.held = @ \cup {<<r.id, pw>>}]
  BY DEF RegisterUser
<1>2. PICK r : r = RegisterRequest(db.users, email, pw, name)
  OBVIOUS
<1>3. db' = [db EXCEPT !.users = r.t]
  BY <1>1, <1>2 DEF Put
<1>4. UsersFit(r.t) /\ Live(db.users) \subseteq Live(r.t)
  BY <1>2, InputsAssumption, RegisterFits DEF SchemaInv, Fits
<1>5. Fits(db')
  BY <1>3, <1>4, FitsPut DEF SchemaInv
<1>6. UnseededGrows
  BY <1>1 DEF SchemaInv, UnseededGrows
<1> QED BY <1>3, <1>5, <1>6, CallsSame, PipesSame, SchemaFollows DEF RegisterUser

LEMMA SessionsHold ==
  ASSUME SchemaInv, LoginUser \/ LogoutUser \/ Expire \/ Purge \/ ForgotPasswordMail
  PROVE  SchemaInv'
<1>1. \E n \in {"sessions", "revoked", "resets"} : \E W : db' = [db EXCEPT ![n] = W]
  <2>1. CASE LoginUser
    BY <2>1 DEF LoginUser
  <2>2. CASE LogoutUser
    BY <2>2 DEF LogoutUser, Put
  <2>3. CASE Expire
    BY <2>3 DEF Expire
  <2>4. CASE Purge
    BY <2>4 DEF Purge
  <2>5. CASE ForgotPasswordMail
    BY <2>5 DEF ForgotPasswordMail, Put
  <2> QED BY <2>1, <2>2, <2>3, <2>4, <2>5
<1>n. PICK n \in {"sessions", "revoked", "resets"} : \E W : db' = [db EXCEPT ![n] = W]
  BY <1>1
<1>2. PICK W : db' = [db EXCEPT ![n] = W]
  BY <1>n
<1>3. Fits(db')
  BY <1>2, FitsPut DEF SchemaInv
<1>4. UnseededGrows
  BY DEF SchemaInv, UnseededGrows, LoginUser, LogoutUser, Expire, Purge, ForgotPasswordMail
<1>5. UNCHANGED calls
  BY DEF LoginUser, LogoutUser, Expire, Purge, ForgotPasswordMail
<1> QED BY <1>2, <1>3, <1>4, <1>5, CallsSame, PipesSame, SchemaFollows

LEMMA PeopleHold ==
  ASSUME SchemaInv, DeleteUserNow \/ ChangeMembers \/ ChangeKeys
  PROVE  SchemaInv'
<1>1. UNCHANGED <<calls, past>>
  BY DEF DeleteUserNow, ChangeMembers, ChangeKeys
<1>2. CASE DeleteUserNow
  <2>1. PICK who, i : Put("users", DeleteUserRequest(db.users, who, i))
    BY <1>2 DEF DeleteUserNow
  <2>2. PICK W : W = DeleteUserRequest(db.users, who, i).t
    OBVIOUS
  <2>3. UsersFit(W) /\ Live(db.users) \subseteq Live(W)
    BY <2>2, UserDeleteFits DEF SchemaInv, Fits
  <2>4. db' = [db EXCEPT !.users = W]
    BY <2>1, <2>2 DEF Put
  <2>5. Fits(db')
    BY <2>3, <2>4, FitsPut DEF SchemaInv
  <2> QED BY <1>1, <2>4, <2>5, PutHolds
<1>3. CASE ChangeMembers
  <2>1. PICK who, W : /\ db' = [db EXCEPT !.members = W]
                      /\ \/ \E row : W = AddUserRequest(db.members, db.users, db.projects, who, row).t
                         \/ \E p, u : W = RemoveUserRequest(db.members, who, p, u).t
    BY <1>3 DEF ChangeMembers, Put
  <2>2. MembersFit(db.members, db.projects, db.users)
    BY DEF SchemaInv, Fits
  <2>3. MembersFit(W, db.projects, db.users)
    BY <2>1, <2>2, MembersChange
  <2>5. Fits(db')
    BY <2>1, <2>3, FitsPut DEF SchemaInv
  <2> QED BY <1>1, <2>1, <2>5, PutHolds
<1>4. CASE ChangeKeys
  <2>1. PICK who, W : /\ db' = [db EXCEPT !.keys = W]
                      /\ \/ \E k : W = CreateMyAPIKeyRequest(db.keys, db.users, who, k).t
                         \/ \E i : W = DeleteMyAPIKeyRequest(db.keys, who, i).t
    BY <1>4 DEF ChangeKeys, Put
  <2>2. KeysFit(db.keys)
    BY DEF SchemaInv, Fits
  <2>3. KeysFit(W)
    BY <2>1, <2>2, KeysChange
  <2>5. Fits(db')
    BY <2>1, <2>3, FitsPut DEF SchemaInv
  <2> QED BY <1>1, <2>1, <2>5, PutHolds
<1> QED BY <1>2, <1>3, <1>4

LEMMA SettingsHold ==
  ASSUME SchemaInv, CreateAgentNow \/ DeleteEnvironmentNow \/ ChangeChannels
  PROVE  SchemaInv'
<1>1. UNCHANGED <<calls, past>>
  BY DEF CreateAgentNow, DeleteEnvironmentNow, ChangeChannels
<1>2. CASE CreateAgentNow
  <2>1. PICK who, p, a :
          /\ a \in Inputs.agents
          /\ Put("agents", CreateAgentRequest(db.agents, db.projects, db.stacks, who, p, a))
    BY <1>2 DEF CreateAgentNow
  <2>2. PICK W : W = CreateAgentRequest(db.agents, db.projects, db.stacks, who, p, a).t
    OBVIOUS
  <2>3. "provider" \in DOMAIN a
    BY <2>1, InputsAssumption
  <2>4. AgentsFit(W, db.projects, db.stacks) /\ Live(db.agents) \subseteq Live(W)
    BY <2>2, <2>3, AgentsChange DEF SchemaInv, Fits
  <2>5. db' = [db EXCEPT !.agents = W]
    BY <2>1, <2>2 DEF Put
  <2>6. Fits(db')
    BY <2>4, <2>5, FitsPut DEF SchemaInv
  <2> QED BY <1>1, <2>5, <2>6, PutHolds
<1>3. CASE DeleteEnvironmentNow
  <2>1. PICK p : Put("environments", DeleteProjectEnvironmentRequest(db.environments, p))
    BY <1>3 DEF DeleteEnvironmentNow
  <2>2. PICK W : W = DeleteProjectEnvironmentRequest(db.environments, p).t
    OBVIOUS
  <2>3. EnvironmentsFit(W, db.projects)
    BY <2>2, EnvironmentsChange DEF SchemaInv, Fits
  <2>4. db' = [db EXCEPT !.environments = W]
    BY <2>1, <2>2 DEF Put
  <2>5. Fits(db')
    BY <2>3, <2>4, FitsPut DEF SchemaInv
  <2> QED BY <1>1, <2>4, <2>5, PutHolds
<1>4. CASE ChangeChannels
  <2>1. PICK W : /\ db' = [db EXCEPT !.configs = W]
                 /\ \/ \E cfg : W = CreateConfigRequest(db.configs, db.projects, cfg).t
                    \/ \E i, cfg : W = UpdateConfigRequest(db.configs, i, cfg).t
                    \/ \E i : W = DeleteConfigRequest(db.configs, i).t
    BY <1>4 DEF ChangeChannels, Put
  <2>2. ConfigsFit(db.configs, db.projects)
    BY DEF SchemaInv, Fits
  <2>3. ConfigsFit(W, db.projects)
    BY <2>1, <2>2, ConfigsChange
  <2>5. Fits(db')
    BY <2>1, <2>3, FitsPut DEF SchemaInv
  <2> QED BY <1>1, <2>1, <2>5, PutHolds
<1> QED BY <1>2, <1>3, <1>4

LEMMA BeginsHold ==
  ASSUME IInv, SchemaInv,
         \/ ResetBegin \/ UpdateUserBegin \/ UpdateProfileBegin \/ ChangePasswordBegin
         \/ UpdateProjectBegin \/ UpdateAgentBegin \/ PutEnvironmentBegin
  PROVE  SchemaInv'
<1>1. UNCHANGED db
  BY DEF ResetBegin, UpdateUserBegin, UpdateProfileBegin, ChangePasswordBegin,
         UpdateProjectBegin, UpdateAgentBegin, PutEnvironmentBegin
<1>2. UnseededGrows
  BY DEF SchemaInv, UnseededGrows, ResetBegin, UpdateUserBegin, UpdateProfileBegin,
         ChangePasswordBegin, UpdateProjectBegin, UpdateAgentBegin, PutEnvironmentBegin
<1>3. \E kind, who, i, row, arg :
         /\ Begin(kind, who, i, row, arg)
         /\ kind = "agent" => "provider" \in DOMAIN row /\ row.provider \in Providers
  <2>1. CASE ResetBegin
    BY <2>1 DEF ResetBegin
  <2>2. CASE UpdateUserBegin
    BY <2>2 DEF UpdateUserBegin
  <2>3. CASE UpdateProfileBegin
    BY <2>3 DEF UpdateProfileBegin
  <2>4. CASE ChangePasswordBegin
    BY <2>4 DEF ChangePasswordBegin
  <2>5. CASE UpdateProjectBegin
    BY <2>5 DEF UpdateProjectBegin
  <2>6. CASE UpdateAgentBegin
    <3>1. PICK who \in Admins, i \in Live(db.agents), patch \in Inputs.agentPatches :
            Begin("agent", who, i, db.agents[i], patch)
      BY <2>6 DEF UpdateAgentBegin
    <3>2. "provider" \in DOMAIN db.agents[i] /\ db.agents[i].provider \in Providers
      BY DEF SchemaInv, Fits, AgentsFit, Rows, Live
    <3> QED BY <3>1, <3>2
  <2>7. CASE PutEnvironmentBegin
    BY <2>7 DEF PutEnvironmentBegin
  <2> QED BY <2>1, <2>2, <2>3, <2>4, <2>5, <2>6, <2>7
<1> QED BY <1>1, <1>2, <1>3, BeginHolds
LEMMA CreateProjectHolds ==
  ASSUME IInv, SchemaInv, CreateProjectBegin
  PROVE  SchemaInv'
<1>1. PICK who \in Admins, proj \in Inputs.projects :
        LET r == CreateProjectRequest(db.projects, who, proj)
        IN r.status = 201 /\ Put("projects", r) /\ Begin("seed", who, Len(r.t), Nil, Nil)
  BY DEF CreateProjectBegin
<1>2. PICK r : r = CreateProjectRequest(db.projects, who, proj)
  OBVIOUS
<1>3. /\ r.status = 201 /\ db' = [db EXCEPT !.projects = r.t]
      /\ Begin("seed", who, Len(r.t), Nil, Nil)
  BY <1>1, <1>2 DEF Put
<1>4. ProjectsFit(r.t) /\ Live(r.t) = Live(db.projects) \cup {Len(r.t)}
  BY <1>2, <1>3, ProjectCreated DEF SchemaInv, Fits
<1>w. PICK W : W = r.t
  OBVIOUS
<1>p. ProjectsFit(W) /\ Live(db.projects) \subseteq Live(W) /\ db' = [db EXCEPT !.projects = W]
  BY <1>3, <1>4, <1>w
<1>5. Fits(db')
  BY <1>p, FitsPut DEF SchemaInv
<1>6. /\ CallsHold /\ SeedsStay
      /\ \E s \in Slots : calls'[s].kind = "seed" /\ calls'[s].id = Len(r.t)
  BY <1>3, CallBegins
<1>7. UnseededGrows
  BY PastSame DEF CreateProjectBegin
<1>8. db'.projects = r.t /\ db'.pipelines = db.pipelines
  BY <1>3 DEF SchemaInv, Fits
<1>9. ASSUME NEW p \in Live(db'.projects) PROVE Provided(db', calls', past'.unseeded, p)
  <2>1. CASE p \in Live(db.projects)
    <3>1. Provided(db, calls, past.unseeded, p)
      BY <2>1, SeededIs DEF SchemaInv
    <3> QED BY <1>6, <1>7, <1>8, <3>1, StillProvided
  <2>2. CASE p = Len(r.t)
    BY <1>6, <2>2 DEF Provided
  <2> QED BY <1>4, <1>8, <2>1, <2>2
<1> QED BY <1>5, <1>6, <1>7, <1>9, SeededIs, StillHeld DEF SchemaInv, UnseededGrows

LEMMA DeleteProjectHolds ==
  ASSUME SchemaInv, NEW withEvents, DeleteProjectNow(withEvents)
  PROVE  SchemaInv'
<1>1. PICK who \in Admins, p \in DOMAIN db.projects :
        LET r == DeleteProjectRequest(db.projects, who, p, p \in withEvents)
        IN db' = IF r.status = 204 THEN Cascade([db EXCEPT !.projects = r.t], p) ELSE db
  BY DEF DeleteProjectNow
<1>b. PICK busy : busy = (p \in withEvents)
  OBVIOUS
<1>2. PICK r : r = DeleteProjectRequest(db.projects, who, p, busy)
  OBVIOUS
<1>3. db' = IF r.status = 204 THEN Cascade([db EXCEPT !.projects = r.t], p) ELSE db
  BY <1>1, <1>b, <1>2
<1>4. CASE r.status = 204
  <2>1. ProjectsFit(r.t) /\ Live(r.t) = Live(db.projects) \ {p}
    BY <1>2, <1>4, ProjectErased DEF SchemaInv, Fits
  <2>2. PICK e, c : e = [db EXCEPT !.projects = r.t] /\ c = Cascade(e, p)
    OBVIOUS
  <2>3. db' = c
    BY <1>3, <1>4, <2>2
  <2>4. PICK P : P = r.t
    OBVIOUS
  <2>5. /\ Fits(c) /\ c.projects = P
        /\ \A q : Piped(db.pipelines, q) /\ q # p => Piped(c.pipelines, q)
    BY <2>1, <2>2, <2>4, CascadeFits DEF SchemaInv
  <2>6. Fits(db') /\ PipesStay
    BY <2>1, <2>3, <2>4, <2>5 DEF PipesStay
  <2> QED BY <2>6, CallsSame, PastSame, SchemaFollows DEF DeleteProjectNow
<1>5. CASE r.status # 204
  <2>1. UNCHANGED db
    BY <1>3, <1>5
  <2> QED BY <2>1, DbSame, CallsSame, PastSame, SchemaFollows DEF DeleteProjectNow
<1> QED BY <1>4, <1>5

LEMMA UpdatePipelineHolds ==
  ASSUME SchemaInv, UpdatePipeline
  PROVE  SchemaInv'
<1>1. PICK who \in Callers, p \in DOMAIN db.projects, groups \in Inputs.pipelines :
        Put("pipelines", UpdatePipelineConfigRequest(db.pipelines, db.projects, who, p, groups))
  BY DEF UpdatePipeline
<1>2. PICK W : W = UpdatePipelineConfigRequest(db.pipelines, db.projects, who, p, groups).t
  OBVIOUS
<1>3. PipelinesFit(W, db.projects) /\ \A o : Piped(db.pipelines, o) => Piped(W, o)
  BY <1>2, PipelinesChange DEF SchemaInv, Fits
<1>4. db' = [db EXCEPT !.pipelines = W]
  BY <1>1, <1>2 DEF Put
<1>5. Fits(db')
  BY <1>3, <1>4, FitsPut DEF SchemaInv
<1>6. db'.projects = db.projects /\ db'.pipelines = W
  BY <1>4 DEF SchemaInv, Fits
<1>7. PipesStay
  BY <1>3, <1>6 DEF PipesStay
<1> QED BY <1>5, <1>7, CallsSame, PastSame, SchemaFollows DEF UpdatePipeline

LEMMA DeleteAgentHolds ==
  ASSUME SchemaInv, DeleteAgentNow
  PROVE  SchemaInv'
<1>1. PICK who \in Callers, i \in Live(db.agents) :
        LET r == DeleteAgentRequest(db.agents, who, i)
        IN db' = IF r.status = 204 THEN WithoutAgents([db EXCEPT !.agents = r.t], {i}) ELSE db
  BY DEF DeleteAgentNow
<1>2. PICK r : r = DeleteAgentRequest(db.agents, who, i)
  OBVIOUS
<1>3. db' = IF r.status = 204 THEN WithoutAgents([db EXCEPT !.agents = r.t], {i}) ELSE db
  BY <1>1, <1>2
<1>f. /\ TableNames \subseteq DOMAIN db
      /\ UsersFit(db.users) /\ MembersFit(db.members, db.projects, db.users) /\ KeysFit(db.keys)
      /\ ProjectsFit(db.projects) /\ PipelinesFit(db.pipelines, db.projects)
      /\ StacksFit(db.stacks) /\ AgentsFit(db.agents, db.projects, db.stacks)
      /\ EnvironmentsFit(db.environments, db.projects) /\ ConfigsFit(db.configs, db.projects)
      /\ RunsFit(db.stories, db.projects)
      /\ RunsFit(db.runs, db.projects) /\ StepsFit(db.steps, db.runs)
      /\ CostsFit(db.costs, db.steps, db.runs, db.agents)
  BY FitsTables DEF SchemaInv
<1>4. CASE r.status = 204
  <2>1. AgentsFit(r.t, db.projects, db.stacks) /\ Live(r.t) = Live(db.agents) \ {i}
    BY <1>2, <1>4, <1>f, AgentErased
  <2>2. PICK e, ids : e = [db EXCEPT !.agents = r.t] /\ ids = {i}
    OBVIOUS
  <2>3. db' = WithoutAgents(e, ids)
    BY <1>3, <1>4, <2>2
  <2>4. TableNames \subseteq DOMAIN e /\ e.agents = r.t
        /\ \A n \in TableNames \ {"agents"} : e[n] = db[n]
    BY <1>f, <2>2 DEF TableNames
  <2>5. /\ DOMAIN db' = DOMAIN e /\ db'.costs = Unassigned(e.costs, ids)
        /\ \A n \in TableNames \ {"attached", "costs"} : db'[n] = e[n]
    BY <2>3, <2>4, AgentsGo
  <2>6. /\ db'.agents = r.t /\ db'.costs = Unassigned(db.costs, ids)
        /\ \A n \in TableNames \ {"attached", "costs", "agents"} : db'[n] = db[n]
    BY <2>4, <2>5 DEF TableNames
  <2>7. CostsFit(db'.costs, db.steps, db.runs, r.t)
    BY <1>f, <2>1, <2>2, <2>6, CostsKept
  <2>8. /\ db'.users = db.users /\ db'.members = db.members /\ db'.keys = db.keys
        /\ db'.projects = db.projects /\ db'.pipelines = db.pipelines /\ db'.stacks = db.stacks
        /\ db'.environments = db.environments /\ db'.configs = db.configs
        /\ db'.stories = db.stories /\ db'.runs = db.runs /\ db'.steps = db.steps
    BY <2>6 DEF TableNames
  <2>9. Fits(db')
    BY <1>f, <2>1, <2>4, <2>5, <2>6, <2>7, <2>8, FitsTables
  <2>10. PipesStay
    BY <2>8 DEF PipesStay
  <2> QED BY <2>9, <2>10, CallsSame, PastSame, SchemaFollows DEF DeleteAgentNow
<1>5. CASE r.status # 204
  <2>1. UNCHANGED db
    BY <1>3, <1>5
  <2> QED BY <2>1, DbSame, CallsSame, PastSame, SchemaFollows DEF DeleteAgentNow
<1> QED BY <1>4, <1>5

(* Requests that write what they hold.                                      *)
LEMMA ResetSavePast ==
  ASSUME NEW s, ResetSave(s)
  PROVE  past' = past \/ \E X : past' = [past EXCEPT !.held = X]
<1>1. PICK o : o = ResetPasswordSave(db.users, calls[s].who.user, calls[s].row, calls[s].arg)
  OBVIOUS
<1>2. \/ UNCHANGED past
      \/ past' = [past EXCEPT !.held = @ \cup {<<calls[s].who.user, o.t[calls[s].who.user].password>>}]
  BY <1>1, Zenon DEF ResetSave
<1> QED BY <1>2, Zenon

LEMMA UserEndPast ==
  ASSUME NEW s, UpdateUserEnd(s)
  PROVE  past' = past \/ \E X : past' = [past EXCEPT !.granted = X]
<1>1. PICK c, r : c = calls[s] /\ r = UpdateUserRequest(db.users, c.who, c.id, c.row, c.arg)
  OBVIOUS
<1>2. past' = IF r.status = 200 /\ c.arg.role # Nil
              THEN [past EXCEPT !.granted = @ \cup {<<c.id, c.arg.role>>}] ELSE past
  BY <1>1, Zenon DEF UpdateUserEnd
<1>3. CASE r.status = 200 /\ c.arg.role # Nil
  <2>1. past' = [past EXCEPT !.granted = @ \cup {<<c.id, c.arg.role>>}]
    BY <1>2, <1>3, Zenon
  <2> QED BY <2>1, Zenon
<1>4. CASE ~(r.status = 200 /\ c.arg.role # Nil)
  BY <1>2, <1>4, Zenon
<1> QED BY <1>3, <1>4, Zenon

LEMMA PasswordEndPast ==
  ASSUME NEW s, ChangePasswordEnd(s)
  PROVE  \E X : past' = [past EXCEPT !.held = X]
BY DEF ChangePasswordEnd

LEMMA UserEndsPast ==
  ASSUME NEW s, "unseeded" \in DOMAIN past,
         ResetSave(s) \/ UpdateUserEnd(s) \/ UpdateProfileEnd(s) \/ ChangePasswordEnd(s)
  PROVE  "unseeded" \in DOMAIN past' /\ past'.unseeded = past.unseeded
<1>1. UpdateProfileEnd(s) => past' = past
  BY DEF UpdateProfileEnd
<1>2. \/ past' = past
      \/ \E X : past' = [past EXCEPT !.held = X] \/ past' = [past EXCEPT !.granted = X]
  BY <1>1, ResetSavePast, UserEndPast, PasswordEndPast
<1> QED BY <1>2

LEMMA UserEndsHold ==
  ASSUME IInv, SchemaInv, NEW s \in Slots,
         ResetSave(s) \/ UpdateUserEnd(s) \/ UpdateProfileEnd(s) \/ ChangePasswordEnd(s)
  PROVE  SchemaInv'
<1>c. PICK c : c = calls[s]
  OBVIOUS
<1>k. /\ c.kind \in {"user", "profile"} => c.row \in UserRows /\ c.arg \in Patches
      /\ c.kind = "reset" => c.row \in UserRows /\ c.arg \in STRING
      /\ c.kind = "password" => c.arg \in STRING
  BY <1>c DEF IInv, CallsKnow, Knows
<1>u. UsersFit(db.users) /\ Fits(db)
  BY DEF SchemaInv, Fits
<1>1. UnseededGrows
  BY UserEndsPast DEF SchemaInv, UnseededGrows
<1>2. ASSUME NEW W, UsersFit(W), Live(db.users) \subseteq Live(W), db' = [db EXCEPT !.users = W]
      PROVE  Fits(db') /\ PipesStay
  <2>1. Fits(db')
    BY <1>2, <1>u, FitsPut
  <2> QED BY <1>2, <2>1, PipesSame
<1>3. CASE UpdateUserEnd(s)
  <2>1. PICK W : W = UpdateUserRequest(db.users, c.who, c.id, c.row, c.arg).t
    OBVIOUS
  <2>2. c.kind = "user" /\ End(s) /\ db' = [db EXCEPT !.users = W]
    BY <1>3, <1>c, <2>1 DEF UpdateUserEnd, In, Put
  <2>3. UsersFit(W) /\ Live(db.users) \subseteq Live(W)
    BY <1>k, <1>u, <2>1, <2>2, UserSavesFit
  <2> QED BY <1>c, <1>1, <1>2, <2>2, <2>3, EndHolds
<1>4. CASE UpdateProfileEnd(s)
  <2>1. PICK W : W = UpdateMyProfileRequest(db.users, c.who, c.row, c.arg).t
    OBVIOUS
  <2>2. c.kind = "profile" /\ End(s) /\ db' = [db EXCEPT !.users = W]
    BY <1>4, <1>c, <2>1 DEF UpdateProfileEnd, In, Put
  <2>3. UsersFit(W) /\ Live(db.users) \subseteq Live(W)
    BY <1>k, <1>u, <2>1, <2>2, UserSavesFit
  <2> QED BY <1>c, <1>1, <1>2, <2>2, <2>3, EndHolds
<1>5. CASE ChangePasswordEnd(s)
  <2>1. PICK W : W = ChangePasswordSave(db.users, c.id, c.arg).t
    OBVIOUS
  <2>2. c.kind = "password" /\ End(s) /\ db' = [db EXCEPT !.users = W]
    BY <1>5, <1>c, <2>1 DEF ChangePasswordEnd, In
  <2>3. UsersFit(W) /\ Live(db.users) \subseteq Live(W)
    BY <1>k, <1>u, <2>1, <2>2, PasswordFits
  <2> QED BY <1>c, <1>1, <1>2, <2>2, <2>3, EndHolds
<1>6. CASE ResetSave(s)
  <2>1. PICK o : o = ResetPasswordSave(db.users, c.who.user, c.row, c.arg)
    OBVIOUS
  <2>2. /\ c.kind = "reset"
        /\ \/ db' = [db EXCEPT !.users = o.t] /\ calls' = [calls EXCEPT ![s].kind = "mark"]
           \/ End(s) /\ UNCHANGED <<db, past>>
    BY <1>6, <1>c, <2>1 DEF ResetSave, In
  <2>3. CASE db' = [db EXCEPT !.users = o.t] /\ calls' = [calls EXCEPT ![s].kind = "mark"]
    <3>1. PICK W : W = o.t
      OBVIOUS
    <3>2. UsersFit(W) /\ Live(db.users) \subseteq Live(W)
      BY <1>k, <1>u, <2>1, <2>2, <3>1, UserSavesFit
    <3>3. Fits(db') /\ PipesStay
      BY <1>2, <2>3, <3>1, <3>2
    <3>4. DOMAIN calls = Slots /\ Shaped(c)
      BY <1>c DEF IInv, Typed
    <3>5. PICK m : m = [c EXCEPT !.kind = "mark"]
      OBVIOUS
    <3>6. m.kind = "mark"
      BY <3>4, <3>5 DEF Shaped
    <3>7. calls'[s] = m /\ \A t \in Slots : t # s => calls'[t] = calls[t]
      BY <1>c, <2>3, <3>4, <3>5
    <3>8. CallsHold /\ SeedsStay
      BY <1>c, <2>2, <3>6, <3>7 DEF CallsHold, SeedsStay, Holds, In
    <3> QED BY <1>1, <3>3, <3>8, SchemaFollows
  <2>4. CASE End(s) /\ UNCHANGED <<db, past>>
    BY <1>c, <1>1, <2>2, <2>4, DbSame, EndHolds
  <2> QED BY <2>2, <2>3, <2>4
<1> QED BY <1>3, <1>4, <1>5, <1>6

LEMMA SeedingEnds ==
  ASSUME IInv, SchemaInv, NEW s \in Slots, CreateProjectEnd(s)
  PROVE  SchemaInv'
<1>p. PICK p : p = calls[s].id
  OBVIOUS
<1>o. PICK o : o = SeedDefault(db.pipelines, db.projects, p)
  OBVIOUS
<1>w. PICK W : W = IF Ok(o) THEN o.t ELSE db.pipelines
  OBVIOUS
<1>1. db' = [db EXCEPT !.pipelines = W] /\ End(s) /\ UNCHANGED past /\ calls[s].kind = "seed"
  BY <1>p, <1>o, <1>w DEF CreateProjectEnd, In
<1>2. PipelinesFit(db.pipelines, db.projects)
  BY DEF SchemaInv, Fits
<1>3. /\ PipelinesFit(W, db.projects) /\ \A q : Piped(db.pipelines, q) => Piped(W, q)
      /\ p \in Live(db.projects) => Piped(W, p)
  BY <1>2, <1>o, <1>w, PipelinesChange
<1>4. Fits(db')
  BY <1>1, <1>3, FitsPut DEF SchemaInv
<1>5. db'.projects = db.projects /\ db'.pipelines = W
  BY <1>1 DEF SchemaInv, Fits
<1>6. CallsHold /\ \A t \in Slots : t # s => calls'[t] = calls[t]
  BY <1>1, CallEnds
<1>7. ASSUME NEW q \in Live(db'.projects) PROVE Provided(db', calls', past'.unseeded, q)
  <2>1. Provided(db, calls, past.unseeded, q)
    BY <1>5, SeededIs DEF SchemaInv
  <2>2. CASE HasPipeline(db, q) \/ q = p
    BY <1>3, <1>5, <2>2 DEF HasPipeline, Piped, Provided
  <2>3. CASE q \in past.unseeded
    BY <1>1, <2>3 DEF Provided
  <2>4. ASSUME NEW t \in Slots, calls[t].kind = "seed", calls[t].id = q, q # p
        PROVE  calls'[t].kind = "seed" /\ calls'[t].id = q
    BY <1>p, <1>6, <2>4
  <2> QED BY <2>1, <2>2, <2>3, <2>4 DEF Provided
<1>8. "unseeded" \in DOMAIN past'
  BY <1>1 DEF SchemaInv
<1> QED BY <1>4, <1>6, <1>7, <1>8, SeededIs, StillHeld DEF SchemaInv

LEMMA OtherEndsHold ==
  ASSUME IInv, SchemaInv, NEW s \in Slots,
         ResetMark(s) \/ UpdateProjectEnd(s) \/ UpdateAgentEnd(s) \/ PutEnvironmentEnd(s)
  PROVE  SchemaInv'
<1>c. PICK c : c = calls[s]
  OBVIOUS
<1>f. /\ Fits(db) /\ ProjectsFit(db.projects) /\ AgentsFit(db.agents, db.projects, db.stacks)
      /\ EnvironmentsFit(db.environments, db.projects)
  BY DEF SchemaInv, Fits
<1>1. UnseededGrows
  BY DEF SchemaInv, UnseededGrows, ResetMark, UpdateProjectEnd, UpdateAgentEnd, PutEnvironmentEnd
<1>2. End(s) /\ c.kind # "seed"
  BY <1>c DEF ResetMark, UpdateProjectEnd, UpdateAgentEnd, PutEnvironmentEnd, In
<1>3. CASE ResetMark(s)
  <2>1. PICK W : db' = [db EXCEPT !.resets = W]
    BY <1>3 DEF ResetMark
  <2>2. Fits(db')
    BY <1>f, <2>1, FitsPut
  <2> QED BY <1>c, <1>1, <1>2, <2>1, <2>2, PipesSame, EndHolds
<1>4. CASE UpdateProjectEnd(s)
  <2>1. PICK W : W = UpdateProjectRequest(db.projects, c.who, c.id, c.row, c.arg).t
    OBVIOUS
  <2>2. db' = [db EXCEPT !.projects = W]
    BY <1>4, <1>c, <2>1 DEF UpdateProjectEnd, Put
  <2>3. ProjectsFit(W) /\ Live(W) = Live(db.projects)
    BY <1>f, <2>1, ProjectUpdated
  <2>4. Fits(db')
    BY <1>f, <2>2, <2>3, FitsPut
  <2>5. db'.projects = W /\ db'.pipelines = db.pipelines
    BY <2>2 DEF SchemaInv, Fits
  <2>6. PipesStay
    BY <2>3, <2>5 DEF PipesStay
  <2> QED BY <1>c, <1>1, <1>2, <2>4, <2>6, EndHolds
<1>5. CASE UpdateAgentEnd(s)
  <2>1. PICK W : W = UpdateAgentRequest(db.agents, db.stacks, c.who, c.id, c.row, c.arg).t
    OBVIOUS
  <2>2. db' = [db EXCEPT !.agents = W] /\ c.kind = "agent"
    BY <1>5, <1>c, <2>1 DEF UpdateAgentEnd, Put, In
  <2>3. "provider" \in DOMAIN c.row /\ c.row.provider \in Providers
    BY <1>c, <2>2 DEF SchemaInv, AgentHeld, Holds
  <2>4. AgentsFit(W, db.projects, db.stacks) /\ Live(db.agents) \subseteq Live(W)
    BY <1>f, <2>1, <2>3, AgentsChange
  <2>5. Fits(db')
    BY <1>f, <2>2, <2>4, FitsPut
  <2> QED BY <1>c, <1>1, <1>2, <2>2, <2>5, PipesSame, EndHolds
<1>6. CASE PutEnvironmentEnd(s)
  <2>1. PICK W : W = PutProjectEnvironmentRequest(db.environments, db.projects, c.row, c.id, c.arg).t
    OBVIOUS
  <2>2. db' = [db EXCEPT !.environments = W]
    BY <1>6, <1>c, <2>1 DEF PutEnvironmentEnd, Put
  <2>3. EnvironmentsFit(W, db.projects)
    BY <1>f, <2>1, EnvironmentsChange
  <2>4. Fits(db')
    BY <1>f, <2>2, <2>3, FitsPut
  <2> QED BY <1>c, <1>1, <1>2, <2>2, <2>4, PipesSame, EndHolds
<1> QED BY <1>3, <1>4, <1>5, <1>6
(* A crash, a seeding that fails, a start.                                  *)
LEMMA CallsLostHold ==
  ASSUME SchemaInv, CallsLost
  PROVE  SchemaInv'
<1>1. PICK ids : ids = {calls[s].id : s \in {r \in Slots : In(r, "seed")}}
  OBVIOUS
<1>2. past' = [past EXCEPT !.unseeded = @ \cup ids] /\ UNCHANGED db
  BY <1>1 DEF CallsLost
<1>3. "unseeded" \in DOMAIN past' /\ past'.unseeded = past.unseeded \cup ids
  BY <1>2 DEF SchemaInv
<1>4. AgentHeld'
  BY DEF CallsLost, AgentHeld, Holds, NoCall
<1>5. ASSUME NEW p \in Live(db'.projects) PROVE Provided(db', calls', past'.unseeded, p)
  <2>1. Provided(db, calls, past.unseeded, p)
    BY <1>2, SeededIs DEF SchemaInv
  <2>2. ASSUME NEW s \in Slots, calls[s].kind = "seed", calls[s].id = p PROVE p \in ids
    BY <1>1, <2>2 DEF In
  <2> QED BY <1>2, <1>3, <2>1, <2>2 DEF Provided
<1> QED BY <1>2, <1>3, <1>4, <1>5, SeededIs DEF SchemaInv

LEMMA SeedFailsHold ==
  ASSUME IInv, SchemaInv, NEW s \in Slots, SeedFails(s)
  PROVE  SchemaInv'
<1>1. past' = [past EXCEPT !.unseeded = @ \cup {calls[s].id}] /\ UNCHANGED db /\ End(s)
  BY DEF SeedFails
<1>2. "unseeded" \in DOMAIN past' /\ past'.unseeded = past.unseeded \cup {calls[s].id}
  BY <1>1 DEF SchemaInv
<1>3. CallsHold /\ \A t \in Slots : t # s => calls'[t] = calls[t]
  BY <1>1, CallEnds
<1>4. ASSUME NEW p \in Live(db'.projects) PROVE Provided(db', calls', past'.unseeded, p)
  <2>1. Provided(db, calls, past.unseeded, p)
    BY <1>1, SeededIs DEF SchemaInv
  <2>2. ASSUME NEW t \in Slots, calls[t].kind = "seed", calls[t].id = p
        PROVE  \/ p \in past'.unseeded
               \/ calls'[t].kind = "seed" /\ calls'[t].id = p
    BY <1>2, <1>3, <2>2
  <2> QED BY <1>1, <1>2, <2>1, <2>2 DEF Provided
<1> QED BY <1>1, <1>2, <1>3, <1>4, SeededIs, StillHeld DEF SchemaInv

LEMMA StartedHolds ==
  ASSUME SchemaInv, Started
  PROVE  SchemaInv'
<1>1. PICK W : W = SeedStacks(db.stacks, Inputs.catalogue)
  OBVIOUS
<1>2. db' = [db EXCEPT !.stacks = W] /\ UNCHANGED <<calls, past>>
  BY <1>1 DEF Started
<1>3. StacksFit(W) /\ Live(db.stacks) \subseteq Live(W)
  <2>1. InRow(Inputs.catalogue)
    BY InputsAssumption DEF InRow
  <2> QED BY <1>1, <2>1, StacksSeeded DEF SchemaInv, Fits
<1>4. Fits(db')
  BY <1>2, <1>3, FitsPut DEF SchemaInv
<1> QED BY <1>2, <1>4, PutHolds

LEMMA ReportsHold ==
  ASSUME SchemaInv, Reports
  PROVE  SchemaInv'
<1>1. UNCHANGED <<calls, past>>
  BY DEF Reports, RecordCost, CostCallback, DayPasses, StoryDeleted
<1>f. /\ Fits(db) /\ CostsFit(db.costs, db.steps, db.runs, db.agents)
      /\ RunsFit(db.stories, db.projects)
  BY FitsTables DEF SchemaInv
<1>2. ASSUME NEW W, CostsFit(W, db.steps, db.runs, db.agents), db' = [db EXCEPT !.costs = W]
      PROVE  SchemaInv'
  <2>1. Fits(db')
    BY <1>2, <1>f, FitsPut
  <2> QED BY <1>1, <1>2, <2>1, PutHolds
<1>3. CASE RecordCost
  <2>1. PICK s \in Live(db.steps), reported \in Inputs.reports, a \in Live(db.agents) :
          \E o \in RecordStepCost(db, s, db.runs[db.steps[s].run].project, reported, a) :
            db' = NewCosts(o)
    BY <1>3 DEF RecordCost
  <2>2. PICK o \in RecordStepCost(db, s, db.runs[db.steps[s].run].project, reported, a) :
          db' = NewCosts(o)
    BY <2>1
  <2>3. CostsFit(o.t, db.steps, db.runs, db.agents)
    BY <1>f, CostRecorded
  <2>4. CASE db' = [db EXCEPT !.costs = o.t]
    BY <1>2, <2>3, <2>4
  <2>5. CASE db' = db
    BY <1>1, <2>5, DbSame, CallsSame, PastSame, SchemaFollows
  <2> QED BY <2>2, <2>4, <2>5 DEF NewCosts
<1>4. CASE CostCallback
  <2>1. PICK s \in Live(db.steps), reported \in Inputs.reports :
          \E r \in HandleCost(db, s, reported[1]) : Put("costs", r)
    BY <1>4 DEF CostCallback
  <2>2. PICK r \in HandleCost(db, s, reported[1]) : Put("costs", r)
    BY <2>1
  <2>3. CostsFit(r.t, db.steps, db.runs, db.agents)
    BY <1>f, CostReported
  <2>4. db' = [db EXCEPT !.costs = r.t]
    BY <2>2 DEF Put
  <2> QED BY <1>2, <2>3, <2>4
<1>5. CASE DayPasses
  <2>1. db' = [db EXCEPT !.costs = Aged(db.costs)]
    BY <1>5 DEF DayPasses
  <2> QED BY <1>2, <1>f, <2>1, CostsKept
<1>6. CASE StoryDeleted
  <2>1. PICK i \in Live(db.stories) : Put("stories", DeleteStoryRequest(db.stories, "admin", i))
    BY <1>6 DEF StoryDeleted
  <2>2. PICK W : W = DeleteStoryRequest(db.stories, "admin", i).t
    OBVIOUS
  <2>3. RunsFit(W, db.projects)
    BY <1>f, <2>2, StoryErased
  <2>4. db' = [db EXCEPT !.stories = W]
    BY <2>1, <2>2 DEF Put
  <2>5. Fits(db')
    BY <1>f, <2>3, <2>4, FitsPut
  <2> QED BY <1>1, <2>4, <2>5, PutHolds
<1> QED BY <1>3, <1>4, <1>5, <1>6 DEF Reports

LEMMA SchemaStays ==
  ASSUME SchemaInv, UNCHANGED adminVars
  PROVE  SchemaInv'
BY DbSame, CallsSame, PastSame, SchemaFollows DEF adminVars

LEMMA SchemaStarts == Init => SchemaInv
<1> SUFFICES ASSUME NEW s \in Scenarios, AdminInit(s.db, s.plan)
             PROVE  SchemaInv
  BY DEF Init
<1>1. /\ db = s.db /\ calls = [t \in Slots |-> NoCall] /\ "unseeded" \in DOMAIN past
  BY DEF AdminInit
<1>2. Fits(db) /\ \A p \in Live(db.projects) : HasPipeline(db, p)
  BY <1>1, ScenariosAssumption
<1>3. AgentHeld
  BY <1>1 DEF AgentHeld, Holds, NoCall
<1>4. Seeded
  BY <1>2 DEF Seeded
<1> QED BY <1>1, <1>2, <1>3, <1>4 DEF SchemaInv

LEMMA SchemaKeeps == IInv /\ SchemaInv /\ [Next]_vars => SchemaInv'
<1> SUFFICES ASSUME IInv, SchemaInv, [Next]_vars PROVE SchemaInv'
  OBVIOUS
<1>1. CASE Requests
  <2>1. (\E withEvents : AdminRequests(withEvents)) \/ AdminSteps
    BY <1>1 DEF Requests
  <2>2. ASSUME NEW withEvents, AdminRequests(withEvents)
        PROVE  SchemaInv'
    BY <2>2, RegisterHolds, SessionsHold, PeopleHold, SettingsHold, BeginsHold,
       CreateProjectHolds, DeleteProjectHolds, UpdatePipelineHolds, DeleteAgentHolds
       DEF AdminRequests
  <2>3. ASSUME AdminSteps
        PROVE  SchemaInv'
    <3> PICK s \in Slots :
          \/ ResetSave(s) \/ ResetMark(s) \/ UpdateUserEnd(s) \/ UpdateProfileEnd(s)
          \/ ChangePasswordEnd(s) \/ CreateProjectEnd(s) \/ UpdateProjectEnd(s)
          \/ UpdateAgentEnd(s) \/ PutEnvironmentEnd(s)
      BY <2>3 DEF AdminSteps
    <3> QED BY UserEndsHold, SeedingEnds, OtherEndsHold
  <2> QED BY <2>1, <2>2, <2>3
<1>2. CASE PublishEvent \/ NotifyStep \/ LogLines \/ OpenStream \/ EndStream \/ BusWork
  BY <1>2, SchemaStays DEF PublishEvent, NotifyStep, LogLines, OpenStream, EndStream, BusWork
<1>3. CASE Reports
  BY <1>3, ReportsHold
<1>4. CASE SendToCopy
  BY <1>4, SchemaStays, CallsLostHold DEF SendToCopy
<1>5. CASE Faults
  BY <1>5, SchemaStays, CallsLostHold, SeedFailsHold DEF Faults
<1>6. CASE Restart
  BY <1>6, StartedHolds DEF Restart
<1>7. CASE UNCHANGED vars
  BY <1>7, SchemaStays DEF vars
<1> QED BY <1>1, <1>2, <1>3, <1>4, <1>5, <1>6, <1>7 DEF Next

-----------------------------------------------------------------------------
(* The queues.                                                              *)
Buffered == \A k \in DOMAIN channels : Len(channels[k].buf) <= BufferSize
Tailed == \A s \in DOMAIN tails : InRow(tails[s]) /\ Len(tails[s]) <= TailSize
Limits ==
    /\ listener \in {"off", "listening", "lost", "stopped"}
    /\ Buffered /\ Len(merged) <= MergedSize /\ Tailed

LEMMA Queues ==
  ASSUME BusTyped
  PROVE  /\ DOMAIN channels = 1..Len(channels) /\ Len(channels) \in Nat
         /\ \A k \in DOMAIN channels : channels[k] \in ChannelRows /\ channels[k].buf \in Seq(Nat)
         /\ merged \in Seq(Nat)
<1>1. PICK S : S = ChannelRows
  OBVIOUS
<1>2. channels \in Seq(S)
  BY <1>1 DEF BusTyped
<1>3. /\ DOMAIN channels = 1..Len(channels) /\ Len(channels) \in Nat
      /\ \A k \in DOMAIN channels : channels[k] \in S
  BY <1>2, RowFacts
<1>4. \A row \in ChannelRows : row.buf \in Seq(Nat)
  BY DEF ChannelRows
<1> QED BY <1>1, <1>3, <1>4 DEF BusTyped

LEMMA Shorter ==
  ASSUME NEW q \in Seq(Nat)
  PROVE  /\ q # <<>> => Len(Tail(q)) < Len(q)
         /\ \A x \in Nat : Len(Append(q, x)) = Len(q) + 1
         /\ Len(q) \in Nat /\ Len(<<>>) = 0
BY LenProperties, HeadTailProperties, AppendProperties, EmptySeq

LEMMA RightFits ==
  ASSUME NEW q, InRow(q), NEW n \in Nat
  PROVE  InRow(Right(q, n)) /\ Len(Right(q, n)) <= n
<1>1. Len(q) \in Nat /\ DOMAIN q = 1..Len(q)
  BY RowFacts DEF InRow
<1>2. CASE Len(q) <= n
  BY <1>2 DEF Right
<1>3. CASE Len(q) > n
  <2>1. PICK m \in Nat : m = Len(q) - n + 1 /\ m >= 1 /\ m <= Len(q) + 1
    BY <1>1, <1>3
  <2>2. Right(q, n) = SubSeq(q, m, Len(q))
    BY <1>1, <1>3, <2>1 DEF Right
  <2>3. PICK S : S = Range(q)
    OBVIOUS
  <2>4. q \in Seq(S)
    BY <2>3 DEF InRow
  <2>5. PICK l \in Nat : l = Len(q)
    BY <1>1
  <2>6. \A i \in m..l : q[i] \in S
    BY <1>1, <2>1, <2>4, <2>5, ElementOfSeq
  <2>7. m \in Int /\ l \in Int
    OBVIOUS
  <2>8. PICK w : w = SubSeq(q, m, l)
    OBVIOUS
  <2>9. w \in Seq(S) /\ Len(w) = IF m <= l THEN l - m + 1 ELSE 0
    BY <2>6, <2>7, <2>8, SubSeqProperties
  <2>10. InRow(w)
    BY <2>9, RowFacts
  <2>11. Len(w) <= n
    BY <2>1, <2>5, <2>9
  <2> QED BY <2>2, <2>5, <2>8, <2>10, <2>11
<1> QED BY <1>1, <1>2, <1>3
LEMMA SomeLimits ==
  ASSUME Limits, UNCHANGED <<channels, tails>>, Len(merged') <= MergedSize,
         listener' \in {"off", "listening", "lost", "stopped"}
  PROVE  Limits'
BY DEF Limits, Buffered, Tailed

LEMMA ChannelLimits ==
  ASSUME Limits, UNCHANGED <<listener, tails>>, Len(merged') <= MergedSize,
         \A k \in DOMAIN channels' : Len(channels'[k].buf) <= BufferSize
  PROVE  Limits'
BY DEF Limits, Buffered, Tailed

LEMMA GoneLimits ==
  ASSUME Limits, ProcessGone
  PROVE  Limits'
<1>1. channels' = <<>> /\ merged' = <<>> /\ listener' = "off" /\ UNCHANGED tails
  BY DEF ProcessGone
<1>2. DOMAIN channels' = {} /\ Len(merged') = 0 /\ MergedSize \in Nat
  BY <1>1, EmptySeq, SizesAssumption
<1> QED BY <1>1, <1>2 DEF Limits, Buffered, Tailed

LEMMA LogLimits ==
  ASSUME Limits, NEW projects, NEW p, NEW step, NEW lines \in Inputs.lines,
         HandleLogs(projects, p, step, lines)
  PROVE  Limits'
<1>1. /\ tails' = [tails EXCEPT ![step] = Right(tails[step] \o lines, TailSize)]
      /\ UNCHANGED <<listener, channels, merged>>
  BY DEF HandleLogs, AppendRunStepLogTail
<1>2. InRow(lines)
  BY InputsAssumption DEF InRow
<1>3. Tailed'
  <2>1. ASSUME NEW s \in DOMAIN tails' PROVE InRow(tails'[s]) /\ Len(tails'[s]) <= TailSize
    <3>1. s \in DOMAIN tails /\ InRow(tails[s]) /\ Len(tails[s]) <= TailSize
      BY <1>1 DEF Limits, Tailed
    <3>2. CASE s # step
      BY <1>1, <3>1, <3>2
    <3>3. CASE s = step
      <4>1. PICK q : q = tails[s] \o lines
        OBVIOUS
      <4>2. InRow(q)
        <5>1. PICK S : S = Range(tails[s]) \cup Range(lines)
          OBVIOUS
        <5>2. tails[s] \in Seq(S) /\ lines \in Seq(S)
          BY <1>2, <3>1, <5>1, InRowWider
        <5>3. q \in Seq(S)
          BY <4>1, <5>2, ConcatProperties
        <5> QED BY <5>3, RowFacts
      <4>3. InRow(Right(q, TailSize)) /\ Len(Right(q, TailSize)) <= TailSize
        BY <4>2, RightFits, SizesAssumption
      <4> QED BY <1>1, <3>1, <3>3, <4>1, <4>3
    <3> QED BY <3>2, <3>3
  <2> QED BY <2>1 DEF Tailed
<1> QED BY <1>1, <1>3 DEF Limits, Buffered

LEMMA SendLimits ==
  ASSUME BusTyped, Limits, SendNext
  PROVE  Limits'
<1>1. PICK k \in sending.to :
        IF channels[k].closed THEN ProcessGone
        ELSE /\ channels' = IF Full(k) THEN channels
                            ELSE [channels EXCEPT ![k].buf = Append(@, sending.event)]
             /\ UNCHANGED <<listener, merged, tails>>
  BY DEF SendNext
<1>2. CASE channels[k].closed
  BY <1>1, <1>2, GoneLimits
<1>3. CASE ~channels[k].closed
  <2>1. k \in DOMAIN channels /\ sending.event \in Nat
    BY DEF BusTyped
  <2>2. PICK q \in Seq(Nat) : q = channels[k].buf
    BY <2>1, Queues
  <2>3. Len(Append(q, sending.event)) = Len(q) + 1 /\ Len(q) \in Nat
    BY <2>1, Shorter
  <2>4. CASE Full(k)
    BY <1>1, <1>3, <2>4, SomeLimits DEF Limits
  <2>5. CASE ~Full(k)
    <3>1. Len(q) + 1 <= BufferSize
      BY <2>2, <2>3, <2>5, SizesAssumption DEF Full
    <3>2. channels' = [channels EXCEPT ![k].buf = Append(q, sending.event)]
      BY <1>1, <1>3, <2>2, <2>5
    <3>3. "buf" \in DOMAIN channels[k]
      BY <2>1, Queues DEF ChannelRows
    <3>4. DOMAIN channels' = DOMAIN channels /\ channels'[k].buf = Append(q, sending.event)
          /\ \A j \in DOMAIN channels : j # k => channels'[j] = channels[j]
      BY <2>1, <3>2, <3>3
    <3>5. \A j \in DOMAIN channels' : Len(channels'[j].buf) <= BufferSize
      BY <2>3, <3>1, <3>4 DEF Limits, Buffered
    <3> QED BY <1>1, <1>3, <3>5, ChannelLimits DEF Limits
  <2> QED BY <2>4, <2>5
<1> QED BY <1>2, <1>3

LEMMA DrainLimits ==
  ASSUME BusTyped, Limits, NEW k \in DOMAIN channels, FanInTake(k) \/ FanInPass(k)
  PROVE  Limits'
<1>1. channels[k] \in ChannelRows /\ channels[k].buf \in Seq(Nat)
  BY Queues
<1>2. CASE FanInTake(k)
  <2>1. /\ channels' = [channels EXCEPT ![k].held = Head(channels[k].buf), ![k].buf = Tail(@)]
        /\ channels[k].buf # <<>> /\ UNCHANGED <<listener, merged, tails>>
    BY <1>2 DEF FanInTake
  <2>2. PICK q \in Seq(Nat) : q = channels[k].buf
    BY <1>1
  <2>3. Len(Tail(q)) < Len(q) /\ Len(q) \in Nat /\ Tail(q) \in Seq(Nat)
    BY <2>1, <2>2, Shorter
  <2>t. Len(Tail(q)) \in Nat
    BY <2>3, LenProperties
  <2>4. /\ DOMAIN channels' = DOMAIN channels /\ channels'[k].buf = Tail(q)
        /\ \A j \in DOMAIN channels : j # k => channels'[j] = channels[j]
    BY <1>1, <2>1, <2>2 DEF ChannelRows
  <2>5. Len(q) <= BufferSize /\ BufferSize \in Nat
    BY <2>2, SizesAssumption DEF Limits, Buffered
  <2>6. Len(Tail(q)) <= BufferSize
    BY <2>3, <2>5, <2>t
  <2>7. \A j \in DOMAIN channels' : Len(channels'[j].buf) <= BufferSize
    BY <2>4, <2>6 DEF Limits, Buffered
  <2> QED BY <2>1, <2>7, ChannelLimits DEF Limits
<1>3. CASE FanInPass(k)
  <2>1. /\ Len(merged) < MergedSize /\ merged' = Append(merged, channels[k].held)
        /\ channels' = [channels EXCEPT ![k].held = 0] /\ UNCHANGED <<listener, tails>>
    BY <1>3 DEF FanInPass
  <2>2. merged \in Seq(Nat) /\ channels[k].held \in Nat
    BY <1>1, Queues DEF ChannelRows
  <2>3. Len(merged') = Len(merged) + 1 /\ Len(merged) \in Nat
    BY <2>1, <2>2, Shorter
  <2>4. Len(merged') <= MergedSize
    BY <2>1, <2>3, SizesAssumption
  <2>5. /\ DOMAIN channels' = DOMAIN channels
        /\ \A j \in DOMAIN channels : channels'[j].buf = channels[j].buf
    BY <1>1, <2>1 DEF ChannelRows
  <2>6. \A j \in DOMAIN channels' : Len(channels'[j].buf) <= BufferSize
    BY <2>5 DEF Limits, Buffered
  <2> QED BY <2>1, <2>4, <2>6, ChannelLimits
<1> QED BY <1>2, <1>3
LEMMA StreamLimits ==
  ASSUME BusTyped, Subscribed, Limits, NEW c \in Clients, Subscribe(c) \/ Deliver(c) \/ StreamEnds(c)
  PROVE  Limits'
<1>q. /\ DOMAIN channels = 1..Len(channels) /\ Len(channels) \in Nat
      /\ \A k \in DOMAIN channels : channels[k] \in ChannelRows /\ channels[k].buf \in Seq(Nat)
  BY Queues
<1>1. UNCHANGED <<listener, merged, tails>>
  BY DEF Subscribe, Deliver, StreamEnds
<1>2. CASE Subscribe(c)
  <2>1. PICK row : row = NewChannel(c, streams[c].project)
    OBVIOUS
  <2>2. row.buf = <<>>
    BY <2>1 DEF NewChannel
  <2>3. channels' = Append(channels, row)
    BY <1>2, <2>1 DEF Subscribe
  <2>4. PICK S : S = Range(channels) \cup {row}
    OBVIOUS
  <2>5. channels \in Seq(S)
    <3>1. InRow(channels)
      BY RowFacts DEF BusTyped
    <3> QED BY <2>4, <3>1, InRowWider
  <2>6. /\ DOMAIN channels' = 1..(Len(channels) + 1)
        /\ \A k \in 1..Len(channels) : channels'[k] = channels[k]
        /\ channels'[Len(channels) + 1] = row
    BY <2>3, <2>4, <2>5, AppendProperties, LenProperties
  <2>7. Len(row.buf) = 0 /\ BufferSize \in Nat
    BY <2>2, EmptySeq, SizesAssumption
  <2>8. ASSUME NEW k \in DOMAIN channels' PROVE Len(channels'[k].buf) <= BufferSize
    <3>1. k \in DOMAIN channels \/ k = Len(channels) + 1
      BY <1>q, <2>6
    <3> QED BY <1>q, <2>6, <2>7, <3>1 DEF Limits, Buffered
  <2> QED BY <1>1, <2>8, ChannelLimits DEF Limits
<1>3. CASE StreamEnds(c)
  <2>1. PICK k : k = streams[c].channel
    OBVIOUS
  <2>2. channels' = [channels EXCEPT ![k].closed = TRUE] /\ k \in DOMAIN channels
    BY <1>3, <2>1 DEF StreamEnds, Leave, Subscribed, HasChannel
  <2>3. /\ DOMAIN channels' = DOMAIN channels
        /\ \A j \in DOMAIN channels : channels'[j].buf = channels[j].buf
    BY <1>q, <2>2 DEF ChannelRows
  <2>4. \A j \in DOMAIN channels' : Len(channels'[j].buf) <= BufferSize
    BY <2>3 DEF Limits, Buffered
  <2> QED BY <1>1, <2>4, ChannelLimits DEF Limits
<1>4. CASE Deliver(c)
  <2>1. PICK k : k = streams[c].channel
    OBVIOUS
  <2>2. /\ channels' = [channels EXCEPT ![k].buf = Tail(@)] /\ k \in DOMAIN channels
        /\ channels[k].buf # <<>>
    BY <1>4, <2>1 DEF Deliver, Subscribed, HasChannel
  <2>3. PICK q \in Seq(Nat) : q = channels[k].buf
    BY <1>q, <2>2
  <2>4. Len(Tail(q)) < Len(q) /\ Len(q) \in Nat /\ Tail(q) \in Seq(Nat)
    BY <2>2, <2>3, Shorter
  <2>5. Len(Tail(q)) \in Nat
    BY <2>4, LenProperties
  <2>6. Len(q) <= BufferSize /\ BufferSize \in Nat
    BY <2>2, <2>3, SizesAssumption DEF Limits, Buffered
  <2>7. /\ DOMAIN channels' = DOMAIN channels /\ channels'[k].buf = Tail(q)
        /\ \A j \in DOMAIN channels : j # k => channels'[j] = channels[j]
    BY <1>q, <2>2, <2>3 DEF ChannelRows
  <2>8. Len(Tail(q)) <= BufferSize
    BY <2>4, <2>5, <2>6
  <2>9. \A j \in DOMAIN channels' : Len(channels'[j].buf) <= BufferSize
    BY <2>7, <2>8 DEF Limits, Buffered
  <2> QED BY <1>1, <2>9, ChannelLimits DEF Limits
<1> QED BY <1>2, <1>3, <1>4

LEMMA DispatchLimits ==
  ASSUME BusTyped, Limits, NEW configs, Dispatch(configs)
  PROVE  Limits'
<1>1. merged # <<>> /\ merged' = Tail(merged) /\ UNCHANGED <<listener, channels, tails>>
  BY DEF Dispatch
<1>2. merged \in Seq(Nat)
  BY DEF BusTyped
<1>3. Len(Tail(merged)) < Len(merged) /\ Len(merged) \in Nat /\ Tail(merged) \in Seq(Nat)
  BY <1>1, <1>2, Shorter
<1>4. Len(merged') \in Nat
  BY <1>1, <1>3, LenProperties
<1>5. Len(merged') <= MergedSize
  BY <1>1, <1>3, <1>4, SizesAssumption DEF Limits
<1> QED BY <1>1, <1>5, SomeLimits DEF Limits

LEMMA ListenerLimits ==
  ASSUME Limits, \/ HandleNotification \/ SendNone \/ WaitFails \/ ConnectionLost \/ CloseBus
                 \/ UNCHANGED telemetryVars
                 \/ \E c \in Clients : Replay(c) \/ (\E p : Connect(c, p))
                 \/ \E projects, p, name : Publish(projects, p, name)
  PROVE  Limits'
<1>1. UNCHANGED <<channels, merged, tails>>
  BY DEF HandleNotification, SendNone, WaitFails, ConnectionLost, CloseBus, telemetryVars, Replay,
         Connect, Publish
<1>2. listener' \in {listener, "listening", "lost", "stopped"}
  BY DEF HandleNotification, SendNone, WaitFails, ConnectionLost, CloseBus, telemetryVars, Replay,
         Connect, Publish, Reconnect
<1> QED BY <1>1, <1>2, SomeLimits DEF Limits

LEMMA StopLimits ==
  ASSUME BusTyped, Limits, StopAll
  PROVE  Limits'
<1>1. /\ channels' = [k \in DOMAIN channels |->
                        [channels[k] EXCEPT !.closed = @ \/ channels[k].owner = Dispatcher]]
      /\ merged' = <<>> /\ UNCHANGED <<listener, tails>>
  BY DEF StopAll
<1>2. Len(merged') <= MergedSize
  BY <1>1, EmptySeq, SizesAssumption
<1>3. \A k \in DOMAIN channels : channels[k] \in ChannelRows
  BY Queues
<1>4. DOMAIN channels' = DOMAIN channels
      /\ \A k \in DOMAIN channels : channels'[k].buf = channels[k].buf
  BY <1>1, <1>3 DEF ChannelRows
<1> QED BY <1>1, <1>2, <1>4, ChannelLimits DEF Limits, Buffered

LEMMA RunLimits ==
  ASSUME Limits, NEW projects, DispatcherRun(projects)
  PROVE  Limits'
<1>1. PICK X : X = DispatcherProjects(projects)
  OBVIOUS
<1>2. /\ channels' = [k \in DOMAIN X |-> NewChannel(Dispatcher, X[k])]
      /\ listener' = "listening" /\ UNCHANGED <<merged, tails>>
  BY <1>1 DEF DispatcherRun
<1>3. \A k \in DOMAIN channels' : channels'[k].buf = <<>>
  BY <1>2 DEF NewChannel
<1>4. Len(<<>>) = 0 /\ BufferSize \in Nat
  BY EmptySeq, SizesAssumption
<1> QED BY <1>2, <1>3, <1>4 DEF Limits, Buffered, Tailed

LEMMA StartLimits == Init => Limits
<1> SUFFICES ASSUME NEW projects, NEW steps, TelemetryInit(projects, steps)
             PROVE  Limits
  BY DEF Init
<1>1. /\ listener = "listening" /\ merged = <<>> /\ tails = [s \in steps |-> <<>>]
      /\ \A k \in DOMAIN channels : channels[k].buf = <<>>
  BY DEF TelemetryInit
<1>2. Len(<<>>) = 0 /\ BufferSize \in Nat /\ MergedSize \in Nat /\ TailSize \in Nat
  BY EmptySeq, SizesAssumption
<1> QED BY <1>1, <1>2, NothingIn DEF Limits, Buffered, Tailed

LEMMA NextLimits == EventsInv /\ Limits /\ [Next]_vars => Limits'
<1> SUFFICES ASSUME Told, Limits, [Next]_vars PROVE Limits'
  BY DEF EventsInv
<1>t. BusTyped /\ Subscribed
  BY DEF Told, BusSound
<1>1. CASE Requests \/ Reports
  <2>1. UNCHANGED telemetryVars
    BY <1>1 DEF Requests, Reports, RecordCost, CostCallback, DayPasses, StoryDeleted
  <2> QED BY <2>1, ListenerLimits
<1>2. CASE PublishEvent \/ NotifyStep
  BY <1>2, ListenerLimits DEF PublishEvent, NotifyStep, NotificationStep
<1>3. CASE LogLines
  BY <1>3, LogLimits DEF LogLines
<1>4. CASE OpenStream
  BY <1>4, ListenerLimits DEF OpenStream
<1>5. CASE EndStream
  BY <1>5, <1>t, StreamLimits DEF EndStream
<1>6. CASE BusWork
  BY <1>6, <1>t, ListenerLimits, DrainLimits, DispatchLimits, StreamLimits DEF BusWork, TelemetryWork
<1>7. CASE SendToCopy
  BY <1>7, <1>t, SendLimits DEF SendToCopy
<1>8. CASE Faults
  BY <1>8, <1>t, ListenerLimits, GoneLimits, StopLimits DEF Faults, Crash, Exit
<1>9. CASE Restart
  BY <1>9, RunLimits DEF Restart
<1>10. CASE UNCHANGED vars
  BY <1>10, ListenerLimits DEF vars
<1> QED BY <1>1, <1>2, <1>3, <1>4, <1>5, <1>6, <1>7, <1>8, <1>9, <1>10 DEF Next

-----------------------------------------------------------------------------
(* The tables are what the schema allows, whatever requests overlap and     *)
(* whatever is deleted under them: columns, unique indexes, references and  *)
(* checks.  A project without a pipeline is one whose seeding is under way, *)
(* failed or was cut short; no channel, queue or log tail outgrows its size.*)
THEOREM TablesFit == Spec => []TypeOK
<1>1. IInv /\ SchemaInv /\ Limits => TypeOK
  BY DEF IInv, Typed, SchemaInv, Limits, Buffered, Tailed, TypeOK, Bounded
<1>2. Init => IInv /\ EventsInv /\ SchemaInv /\ Limits
  BY InitHolds, InitEvents, SchemaStarts, StartLimits
<1>3. IInv /\ EventsInv /\ SchemaInv /\ Limits /\ [Next]_vars
        => (IInv /\ EventsInv /\ SchemaInv /\ Limits)'
  BY NextKeeps, NextEvents, SchemaKeeps, NextLimits
<1> QED BY <1>1, <1>2, <1>3, PTL DEF Spec
=============================================================================
