-------------------------- MODULE IntegrationProofs --------------------------
(* A connected project: the status that is shown of its credential is       *)
(* earned, and its imports converge, for any number of tokens, concurrent   *)
(* requests, imports and write-back jobs, and any board and document.       *)
(*                                                                          *)
(* The credential.  Four kinds of steps touch it: a request on the          *)
(* connection, a probe's answer, the resolution of a token by whoever needs *)
(* one, and the error of an operation that used it.  The invariant must say *)
(* that a stored key is never newer than the server's: a row that cannot be *)
(* decrypted today stays so, and the "invalid" it earned stays true.        *)
(*                                                                          *)
(* The imports.  ImportInv says of an import that ran alone how far it is:  *)
(* the items before the ones that are left have arrived, each in a row of   *)
(* its own.  Whoever else writes disturbs it, and it promises nothing any   *)
(* more; so what others may do to it is one lemma, ForeignKeeps, and what   *)
(* its own statements do is one lemma each.                                 *)
(*                                                                          *)
(* The rows.  Stories and epics stay what the schema allows, whoever writes *)
(* them: imports, the API's edits, runs, webhooks, write-back jobs.  What   *)
(* an update puts back is what somebody remembers of a row, so RowInv says  *)
(* of every memory of one that the tables would take it.                    *)
EXTENDS Integrations, FiniteSetTheorems, SequenceTheorems, TLAPS

-----------------------------------------------------------------------------
(* The credential.                                                          *)

Statuses == {"connected", "unconfigured", "invalid", "insufficient_scope", "expired"}
Rows == [live : BOOLEAN, token : Tokens \cup {Nil}, key : Nat, status : Statuses,
         expired : BOOLEAN, validated : BOOLEAN]
Ops == [pc : {"idle", "set", "test"}, token : Tokens \cup {Nil}, stored : BOOLEAN]
States == {"ok", "revoked", "narrow", "expired"}

(* Types of what the credential's requests read, and what they imply.       *)
ConnTyped ==
    /\ conn \in Rows
    /\ key \in Nat
    /\ remote \in [Tokens -> States]
    /\ ops \in [Callers -> Ops]
    /\ raced \in BOOLEAN
    /\ conn.live => conn.token \in Tokens /\ conn.key <= key
    /\ \A c \in Callers : ops[c].pc # "idle" => ops[c].token \in Tokens

(* What the stored status says of the stored token.                         *)
Earned ==
    conn.live /\ ~raced =>
      /\ conn.status = "connected" => conn.token \in accepted
      /\ conn.status = "insufficient_scope" => conn.token \in refused
      /\ conn.status = "invalid" => conn.token \in refused \/ ~Decrypts(conn)

CredentialInv == ConnTyped /\ Earned

(* The steps of the others on the credential.                               *)
Resolved ==
    /\ conn' = TokenForProject(conn).conn
    /\ UNCHANGED <<key, provider, remote, ops, accepted, refused, raced, connLeft>>
Noted == \E token, err : Heal(token, err)
Still == UNCHANGED connVars

LEMMA MarkedStatus ==
  ASSUME NEW row \in Rows, NEW status \in Statuses
  PROVE  /\ MarkStatus(row, status) \in Rows
         /\ MarkStatus(row, status).live = row.live
         /\ MarkStatus(row, status).token = row.token
         /\ MarkStatus(row, status).key = row.key
         /\ row.live => MarkStatus(row, status).status = status
BY DEF MarkStatus, Rows

LEMMA StillKeeps ==
  ASSUME CredentialInv, Still
  PROVE  CredentialInv'
BY DEF CredentialInv, ConnTyped, Earned, Still, connVars, Decrypts

LEMMA ResolvedKeeps ==
  ASSUME CredentialInv, Resolved
  PROVE  CredentialInv'
<1>1. conn' = conn \/ (conn.live /\ ~Decrypts(conn) /\ conn' = MarkStatus(conn, "invalid"))
  BY DEF Resolved, TokenForProject, GetByProject
<1>2. "invalid" \in Statuses
  BY DEF Statuses
<1>3. CASE conn' = conn
  BY <1>3 DEF CredentialInv, ConnTyped, Earned, Resolved, Decrypts
<1>4. CASE conn.live /\ ~Decrypts(conn) /\ conn' = MarkStatus(conn, "invalid")
  <2>1. /\ conn' \in Rows /\ conn'.live = conn.live /\ conn'.token = conn.token
        /\ conn'.key = conn.key /\ conn'.status = "invalid"
    BY <1>2, <1>4, MarkedStatus DEF CredentialInv, ConnTyped
  <2> QED BY <1>4, <2>1 DEF CredentialInv, ConnTyped, Earned, Resolved, Decrypts
<1> QED BY <1>1, <1>3, <1>4

LEMMA NotedKeeps ==
  ASSUME CredentialInv, Noted
  PROVE  CredentialInv'
<1> PICK token, err : Heal(token, err)
  BY DEF Noted
<1> USE TokensAssumption
<1>1. CASE ClassifyOperationError(err) = Nil
  <2>1. conn' = conn /\ raced' = raced /\ refused \subseteq refused'
    BY <1>1 DEF Heal, ReconcileFromOperationError, NoteRefusal
  <2> QED BY <2>1 DEF CredentialInv, ConnTyped, Earned, Heal, Decrypts
<1>2. CASE ClassifyOperationError(err) # Nil
  <2>1. /\ err \in {"401", "403"}
        /\ ClassifyOperationError(err) \in {"invalid", "insufficient_scope"}
    BY <1>2 DEF ClassifyOperationError
  <2>2. ClassifyOperationError(err) \in Statuses
    BY <2>1 DEF Statuses
  <2>3. /\ conn' \in Rows /\ conn'.live = conn.live /\ conn'.token = conn.token
        /\ conn'.key = conn.key
        /\ conn.live => conn'.status \in {"invalid", "insufficient_scope"}
    BY <1>2, <2>1, <2>2, MarkedStatus DEF CredentialInv, ConnTyped, Heal, ReconcileFromOperationError
  <2>4. raced' = (raced \/ (conn.live /\ conn.token # token))
    BY <1>2 DEF Heal, NoteRace
  <2>5. conn.live /\ ~raced' => conn.token \in refused'
    BY <2>1, <2>4 DEF Heal, NoteRefusal, CredentialInv, ConnTyped
  <2> QED BY <2>3, <2>4, <2>5 DEF CredentialInv, ConnTyped, Earned, Heal, Decrypts
<1> QED BY <1>1, <1>2

-----------------------------------------------------------------------------
(* Requests on the connection.                                              *)

LEMMA SettingKeeps ==
  ASSUME CredentialInv, NEW c \in Callers, NEW role, NEW token \in Tokens, NEW validate \in BOOLEAN,
         SetGitConnection(c, role, token, validate)
  PROVE  CredentialInv'
<1>t. /\ ops \in [Callers -> Ops]
      /\ \A d \in Callers : ops[d].pc # "idle" => ops[d].token \in Tokens
  BY DEF CredentialInv, ConnTyped
<1>1. CASE validate
  <2>1. ops' = [ops EXCEPT ![c] = [pc |-> "set", token |-> token, stored |-> FALSE]]
        /\ UNCHANGED <<conn, key, remote, accepted, refused, raced>>
    BY <1>1 DEF SetGitConnection
  <2>2. [pc |-> "set", token |-> token, stored |-> FALSE] \in Ops
    BY DEF Ops
  <2>3. ops' \in [Callers -> Ops]
        /\ \A d \in Callers : ops'[d].pc # "idle" => ops'[d].token \in Tokens
    BY <1>t, <2>1, <2>2
  <2> QED BY <2>1, <2>3 DEF CredentialInv, ConnTyped, Earned, Decrypts
<1>2. CASE ~validate
  <2>1. "unconfigured" \in Statuses
    BY DEF Statuses
  <2>2. conn' = Upsert(token, key, "unconfigured", FALSE, FALSE)
        /\ UNCHANGED <<ops, key, remote, accepted, refused, raced>>
    BY <1>2 DEF SetGitConnection
  <2>3. /\ conn' \in Rows /\ conn'.live /\ conn'.token = token /\ conn'.key = key
        /\ conn'.status = "unconfigured"
    BY <2>1, <2>2 DEF CredentialInv, ConnTyped, Upsert, Rows
  <2>4. UNCHANGED <<ops, key, remote, accepted, refused, raced>>
    BY <2>2
  <2>5. ConnTyped'
    BY <2>3, <2>4 DEF CredentialInv, ConnTyped
  <2>6. Earned'
    BY <2>3 DEF Earned
  <2> QED BY <2>5, <2>6 DEF CredentialInv
<1> QED BY <1>1, <1>2

LEMMA TestingKeeps ==
  ASSUME CredentialInv, NEW c \in Callers, NEW role, NEW token \in Tokens \cup {Nil},
         TestGitConnection(c, role, token)
  PROVE  CredentialInv'
<1>1. CASE token = Nil /\ (~conn.live \/ ~Decrypts(conn))
  <2>1. "invalid" \in Statuses
    BY DEF Statuses
  <2>2. /\ conn' \in Rows /\ conn'.live = conn.live /\ conn'.token = conn.token
        /\ conn'.key = conn.key /\ (conn.live => conn'.status = "invalid")
    BY <1>1, <2>1, MarkedStatus DEF TestGitConnection, CredentialInv, ConnTyped
  <2> QED BY <1>1, <2>2 DEF TestGitConnection, CredentialInv, ConnTyped, Earned, Decrypts
<1>2. CASE ~(token = Nil /\ (~conn.live \/ ~Decrypts(conn)))
  <2>1. /\ conn' = conn
        /\ ops' = [ops EXCEPT ![c] = [pc |-> "test", stored |-> token = Nil,
                                      token |-> IF token = Nil THEN conn.token ELSE token]]
    BY <1>2 DEF TestGitConnection
  <2>2. token = Nil => conn.token \in Tokens
    BY <1>2 DEF CredentialInv, ConnTyped
  <2> QED BY <2>1, <2>2 DEF TestGitConnection, CredentialInv, ConnTyped, Earned, Ops, Decrypts
<1> QED BY <1>1, <1>2

LEMMA ClearingKeeps ==
  ASSUME CredentialInv, NEW c, NEW role, ClearGitConnection(c, role)
  PROVE  CredentialInv'
BY DEF ClearGitConnection, NoConn, CredentialInv, ConnTyped, Earned, Rows, Statuses

(* What a reply says: only an accepted token passes, and only a refused one *)
(* is unauthorized or lacks a scope.                                        *)
LEMMA RepliesMeanWhatTheySay ==
  ASSUME ConnTyped, NEW token \in Tokens, NEW reply \in Answers(token), NEW host
  PROVE  LET kind == Probe(provider, host, reply)
         IN /\ kind = Nil => reply \in {"ok", "narrow", "expired"}
            /\ kind # "forbidden"
            /\ kind = "unauthorized" => reply = "401"
<1>1. remote[token] \in States
  BY DEF ConnTyped
<1>2. reply \in {"ok", "narrow", "expired", "401", "429", "5xx", "dns", "tls", "refused"}
  BY <1>1 DEF Answers, Faults, States
<1>3. /\ Do(reply) = Nil => reply \in {"ok", "narrow", "expired"}
      /\ Do(reply) # "forbidden"
      /\ Do(reply) = "unauthorized" => reply = "401"
  BY <1>2 DEF Do, ClassifyTransportError, ClassifyHTTPStatus, Nil
<1> QED BY <1>3 DEF Probe, ProbeGitHub, ProbeGitea, Nil

LEMMA ProbingKeeps ==
  ASSUME CredentialInv, NEW c \in Callers, NEW host, ProbeAnswers(c, host)
  PROVE  CredentialInv'
<1> PICK reply \in Answers(ops[c].token) :
      LET kind == Probe(provider, host, reply)
      IN /\ SetProbed(c, kind, reply) \/ TestProbed(c, kind, reply)
         /\ connLeft' = [connLeft EXCEPT !.faults = IF reply \in Faults THEN @ - 1 ELSE @]
         /\ accepted' = IF reply \in {"ok", "expired"} THEN accepted \cup {ops[c].token}
                        ELSE accepted
         /\ refused' = IF reply \in {"401", "403", "narrow"} THEN refused \cup {ops[c].token}
                       ELSE refused
  BY DEF ProbeAnswers
<1> DEFINE kind == Probe(provider, host, reply)
           token == ops[c].token
<1>1. token \in Tokens /\ ops' = [ops EXCEPT ![c] = IdleOp] /\ UNCHANGED <<key, remote>>
  BY DEF ProbeAnswers, CredentialInv, ConnTyped
<1>2. /\ kind = Nil => reply \in {"ok", "narrow", "expired"}
      /\ kind # "forbidden"
      /\ kind = "unauthorized" => reply = "401"
  BY <1>1, RepliesMeanWhatTheySay DEF CredentialInv
<1>3. ops' \in [Callers -> Ops] /\ \A d \in Callers : ops'[d].pc # "idle" => ops'[d].token \in Tokens
  BY <1>1 DEF CredentialInv, ConnTyped, Ops, IdleOp
<1>4. /\ accepted \subseteq accepted' /\ refused \subseteq refused'
      /\ reply \in {"ok", "expired"} => token \in accepted'
      /\ reply \in {"401", "narrow"} => token \in refused'
  OBVIOUS
<1>5. CASE SetProbed(c, kind, reply)
  <2>1. CASE kind = Nil /\ StatusFromProbe(reply) # "insufficient_scope"
    <3>1. reply \in {"ok", "expired"} /\ StatusFromProbe(reply) \in {"connected", "expired"}
      BY <1>2, <2>1 DEF StatusFromProbe, MissingClassicScopes
    <3>2. StatusFromProbe(reply) \in Statuses
      BY <3>1 DEF Statuses
    <3>u. conn' = Upsert(token, key, StatusFromProbe(reply), reply = "expired", TRUE)
      BY <1>5, <2>1 DEF SetProbed
    <3>3. /\ conn' \in Rows /\ conn'.live /\ conn'.token = token /\ conn'.key = key
          /\ conn'.status \in {"connected", "expired"}
      BY <1>1, <3>1, <3>2, <3>u DEF CredentialInv, ConnTyped, Upsert, Rows
    <3> QED BY <1>1, <1>3, <1>4, <1>5, <3>1, <3>3 DEF SetProbed, CredentialInv, ConnTyped, Earned
  <2>2. CASE ~(kind = Nil /\ StatusFromProbe(reply) # "insufficient_scope")
    <3>1. conn' = conn /\ raced' = raced
      BY <1>5, <2>2 DEF SetProbed
    <3> QED BY <1>1, <1>3, <1>4, <3>1 DEF CredentialInv, ConnTyped, Earned, Decrypts
  <2> QED BY <2>1, <2>2
<1>6. CASE TestProbed(c, kind, reply)
  <2>1. CASE ~ops[c].stored
    <3>1. conn' = conn /\ raced' = raced
      BY <1>6, <2>1 DEF TestProbed
    <3> QED BY <1>1, <1>3, <1>4, <3>1 DEF CredentialInv, ConnTyped, Earned, Decrypts
  <2>2. CASE ops[c].stored
    <3>1. raced' = (raced \/ (conn.live /\ conn.token # token))
      BY <1>6, <2>2 DEF TestProbed, NoteRace
    <3>2. CASE kind # Nil
      <4>1. conn' = ReconcileStoredFromProbe(conn, kind)
        BY <1>6, <2>2, <3>2 DEF TestProbed
      <4>2. conn' = conn \/ (kind = "unauthorized" /\ conn' = MarkStatus(conn, "invalid"))
        BY <1>2, <4>1 DEF ReconcileStoredFromProbe
      <4>3. CASE conn' = conn
        BY <1>1, <1>3, <1>4, <3>1, <4>3 DEF CredentialInv, ConnTyped, Earned, Decrypts
      <4>4. CASE kind = "unauthorized" /\ conn' = MarkStatus(conn, "invalid")
        <5>1. "invalid" \in Statuses
          BY DEF Statuses
        <5>2. /\ conn' \in Rows /\ conn'.live = conn.live /\ conn'.token = conn.token
              /\ conn'.key = conn.key /\ (conn.live => conn'.status = "invalid")
          BY <4>4, <5>1, MarkedStatus DEF CredentialInv, ConnTyped
        <5> QED BY <1>1, <1>2, <1>3, <1>4, <3>1, <4>4, <5>2 DEF CredentialInv, ConnTyped, Earned, Decrypts
      <4> QED BY <4>2, <4>3, <4>4
    <3>3. CASE kind = Nil
      <4> DEFINE status == StatusFromProbe(reply)
      <4>1. status \in {"connected", "insufficient_scope", "expired"}
            /\ (status = "connected" => reply = "ok")
            /\ (status = "insufficient_scope" => reply = "narrow")
        BY <1>2, <3>3 DEF StatusFromProbe, MissingClassicScopes
      <4>2. \/ status = "connected" /\ conn' = SetValidation(conn, "connected", FALSE)
            \/ conn' = MarkStatus(conn, status)
        BY <1>6, <2>2, <3>3 DEF TestProbed
      <4>3. status \in Statuses
        BY <4>1 DEF Statuses
      <4>4. /\ conn' \in Rows /\ conn'.live = conn.live /\ conn'.token = conn.token
            /\ conn'.key = conn.key /\ (conn.live => conn'.status = status)
        <5>1. CASE conn' = MarkStatus(conn, status)
          BY <4>3, <5>1, MarkedStatus DEF CredentialInv, ConnTyped
        <5>2. CASE status = "connected" /\ conn' = SetValidation(conn, "connected", FALSE)
          BY <4>3, <5>2 DEF CredentialInv, ConnTyped, SetValidation, Rows
        <5> QED BY <4>2, <5>1, <5>2
      <4> HIDE DEF status
      <4> QED BY <1>1, <1>3, <1>4, <3>1, <4>1, <4>4 DEF CredentialInv, ConnTyped, Earned, Decrypts
    <3> QED BY <3>2, <3>3
  <2> QED BY <2>1, <2>2
<1> QED BY <1>5, <1>6

LEMMA RequestsKeep ==
  ASSUME CredentialInv, ConnNext
  PROVE  CredentialInv'
<1>1. ASSUME NEW c \in Callers, NEW t \in Tokens, NEW v \in BOOLEAN,
             SetGitConnection(c, "owner", t, v)
      PROVE  CredentialInv'
  BY <1>1, SettingKeeps
<1>2. ASSUME NEW c \in Callers, NEW t \in Tokens \cup {Nil}, TestGitConnection(c, "admin", t)
      PROVE  CredentialInv'
  BY <1>2, TestingKeeps
<1>3. ASSUME NEW c \in Callers, ClearGitConnection(c, "owner") \/ ProbeAnswers(c, "host")
      PROVE  CredentialInv'
  BY <1>3, ClearingKeeps, ProbingKeeps
<1>4. ASSUME NEW t \in Tokens, NEW state \in {"revoked", "narrow", "expired"},
             ProviderRefuses(t, state)
      PROVE  CredentialInv'
  BY <1>4 DEF ProviderRefuses, CredentialInv, ConnTyped, Earned, States, Decrypts
<1>5. CASE RotateKey
  <2>1. /\ key' = key + 1 /\ UNCHANGED <<conn, remote, accepted, refused, raced>>
        /\ ops' = [c \in Callers |-> IdleOp]
    BY <1>5 DEF RotateKey
  <2>2. ConnTyped'
    BY <2>1 DEF CredentialInv, ConnTyped, Rows, Ops, IdleOp
  <2>3. conn.live => conn.key <= key /\ conn.key \in Nat /\ key \in Nat
    BY DEF CredentialInv, ConnTyped, Rows
  <2>4. Earned'
    BY <2>1, <2>3 DEF CredentialInv, Earned, Decrypts
  <2> QED BY <2>2, <2>4 DEF CredentialInv
<1> QED BY <1>1, <1>2, <1>3, <1>4, <1>5 DEF ConnNext

-----------------------------------------------------------------------------
(* The git steps, the imports and the write-backs.                          *)

LEMMA NoteIsNoted ==
  ASSUME NEW token, NEW err, Note(token, err)
  PROVE  Noted
BY DEF Note, Noted, Heal

LEMMA GitStepsTouch ==
  ASSUME GitNext
  PROVE  Still \/ Resolved \/ Noted
<1>1. CASE StartGitStep
  BY <1>1 DEF StartGitStep, Resolved
<1>2. CASE GitBranch
  <2>1. \E o : Note(job.token, o.err)
    BY <1>2 DEF GitBranch
  <2> QED BY <2>1, NoteIsNoted
<1>3. CASE GitPR
  <2>1. \E o : Note(job.token, o.err)
    BY <1>3 DEF GitPR
  <2> QED BY <2>1, NoteIsNoted
<1>4. CASE CIPollTick
  <2>1. \E o : Note(job.token, o.err)
    BY <1>4 DEF CIPollTick
  <2> QED BY <2>1, NoteIsNoted
<1>5. CASE CIPollTimeout \/ RetryGitStep \/ ForgeReports
  BY <1>5 DEF CIPollTimeout, RetryGitStep, ForgeReports, Still
<1> QED BY <1>1, <1>2, <1>3, <1>4, <1>5 DEF GitNext, GitStep

LEMMA ImportsTouch ==
  ASSUME NEW p \in Imports, Import(p) \/ ImportStep(p) \/ ItemFault(p)
  PROVE  Still \/ Resolved \/ Noted
<1>1. CASE Import(p)
  BY <1>1 DEF Import, ImportPlanning, Still
<1>2. CASE For(p)
  <2>1. CASE imp[p].cfg.source = Markdown
    BY <1>2, <2>1 DEF For, Still, connVars
  <2>2. CASE imp[p].cfg.source # Markdown
    BY <1>2, <2>2 DEF For, Resolved
  <2> QED BY <2>1, <2>2
<1>3. CASE Resolve(p)
  BY <1>3 DEF Resolve, Noted
<1>4. CASE Fetch(p)
  BY <1>4 DEF Fetch, Noted
<1>5. CASE EpicByRef(p) \/ EpicByName(p) \/ StoryByIdentity(p) \/ ResolveKey(p)
  <2>1. \E t : Reads(t)
    BY <1>5 DEF EpicByRef, EpicByName, StoryByIdentity, ResolveKey
  <2> QED BY <2>1 DEF Reads, Still
<1>6. CASE EpicWrite(p)
  <2>1. \/ UNCHANGED connVars
        \/ \E o, t, u : Writes(p, o, t, u)
    BY <1>6 DEF EpicWrite
  <2> QED BY <2>1 DEF Writes, Still
<1>7. CASE StoryWrite(p)
  <2>1. \/ \E t : Reads(t)
        \/ \E o, t, u : Writes(p, o, t, u)
    BY <1>7 DEF StoryWrite
  <2> QED BY <2>1 DEF Reads, Writes, Still
<1>8. CASE ItemFault(p)
  BY <1>8 DEF ItemFault, Still
<1> QED BY <1>1, <1>2, <1>3, <1>4, <1>5, <1>6, <1>7, <1>8 DEF ImportStep

LEMMA RunAndUsersTouch ==
  ASSUME RunStep \/ Editing \/ \E i \in Live(stories) : LaunchStory(i)
  PROVE  Still
<1>1. CASE \E i \in Live(stories) : LaunchStory(i)
  BY <1>1 DEF LaunchStory, Still
<1>2. CASE RunStep
  BY <1>2 DEF RunStep, LoadStatus, UpdateStoryStatus, EnqueueWriteBack, EnterStage, ClearStage,
     StoreStage, RunEnds, Still
<1>3. CASE Editing
  BY <1>3 DEF Editing, UserReads, UserDeletes, UserSaves, UserDeletesEpic, UserCreates,
     UserReadsEpic, UserSavesEpic, UserCreatesEpic, BoardEdited, UserVars, Still
<1> QED BY <1>1, <1>2, <1>3

LEMMA ConnectorTouches ==
  ASSUME NEW role, NEW c, SetConnector(role, c)
  PROVE  Still \/ Resolved
<1>1. CASE c.enabled
  BY <1>1 DEF SetConnector, Resolved
<1>2. CASE ~c.enabled
  BY <1>2 DEF SetConnector, Still, connVars
<1> QED BY <1>1, <1>2

LEMMA WriteBackTouches ==
  ASSUME NEW j, WriteBackStep(j)
  PROVE  Still \/ Resolved \/ Noted
<1>1. CASE SyncStatus(j)
  <2>1. /\ conn' = conn \/ conn' = TokenForProject(conn).conn
        /\ UNCHANGED <<key, provider, remote, ops, accepted, refused, raced, connLeft>>
    BY <1>1 DEF SyncStatus
  <2> QED BY <2>1 DEF Resolved, Still, connVars
<1>2. CASE FindBoard(j)
  BY <1>2 DEF FindBoard, Noted
<1>3. CASE StatusOptions(j)
  BY <1>3 DEF StatusOptions, Noted
<1>4. CASE PushStatus(j)
  BY <1>4 DEF PushStatus, Noted
<1> QED BY <1>1, <1>2, <1>3, <1>4 DEF WriteBackStep

LEMMA NextKeeps ==
  ASSUME CredentialInv, [Next]_vars
  PROVE  CredentialInv'
<1> USE StillKeeps, ResolvedKeeps, NotedKeeps
<1>1. CASE Requests
  BY <1>1, RequestsKeep DEF Requests
<1>2. CASE GitWork
  BY <1>2, GitStepsTouch DEF GitWork
<1>3. CASE Importing
  BY <1>3, ImportsTouch DEF Importing
<1>4. CASE Writing
  BY <1>4, RunAndUsersTouch, ConnectorTouches, WriteBackTouches DEF Writing
<1>5. CASE UNCHANGED vars
  BY <1>5 DEF vars, Still
<1> QED BY <1>1, <1>2, <1>3, <1>4, <1>5 DEF Next

LEMMA InitEarned ==
  ASSUME Init
  PROVE  CredentialInv
<1> PICK s \in Scenarios : ConnInit(s.conn, s.provider, s.requests)
  BY DEF Init
<1>1. /\ conn = s.conn /\ key = 1 /\ remote = [t \in Tokens |-> "ok"]
      /\ ops = [c \in Callers |-> IdleOp] /\ raced = FALSE
      /\ conn.status = "connected" => conn.token \in accepted
  <2>1. /\ conn = s.conn /\ key = 1 /\ remote = [t \in Tokens |-> "ok"]
        /\ ops = [c \in Callers |-> IdleOp] /\ raced = FALSE
        /\ accepted = IF s.conn.status = "connected" THEN {s.conn.token} ELSE {}
    BY DEF ConnInit
  <2> QED BY <2>1
<1>2. /\ remote \in [Tokens -> States] /\ ops \in [Callers -> Ops]
      /\ \A c \in Callers : ops[c].pc = "idle"
  BY <1>1 DEF States, Ops, IdleOp
<1>k. key = 1 /\ raced \in BOOLEAN /\ ~raced
  BY <1>1
<1>3. CASE conn = NoConn
  <2>1. conn \in Rows /\ ~conn.live
    BY <1>3 DEF NoConn, Rows, Statuses
  <2> QED BY <1>2, <1>k, <2>1 DEF CredentialInv, ConnTyped, Earned
<1>4. CASE \E token \in Tokens, k \in 0..1, status \in {"unconfigured", "connected", "expired"},
              expired, validated \in BOOLEAN :
                conn = Upsert(token, k, status, expired, validated)
  <2>1. /\ conn \in Rows /\ conn.token \in Tokens /\ conn.key \in 0..1
        /\ conn.status \in {"unconfigured", "connected", "expired"}
    BY <1>4 DEF Upsert, Rows, Statuses
  <2>2. ConnTyped
    BY <1>2, <1>k, <2>1 DEF ConnTyped
  <2>3. Earned
    BY <1>1, <2>1 DEF Earned
  <2> QED BY <2>2, <2>3 DEF CredentialInv
<1> QED BY <1>1, <1>3, <1>4, ScenariosAssumption

(* CredentialSound: types of the connection, its requests and the tokens,   *)
(* and the status earned, in every reachable state.                         *)
THEOREM CredentialSound == Spec => []CredentialInv
BY InitEarned, NextKeeps, PTL DEF Spec

(* StatusIsEarned: "connected" is only shown of a token a probe accepted,   *)
(* "invalid" and "insufficient_scope" only of one the provider refused or   *)
(* the server cannot decrypt, however requests, imports, write-backs, git   *)
(* steps, revocations and key rotations interleave, unless an answer about  *)
(* another token arrived in between (ReconcileFromOperationError,           *)
(* TestGitConnection, TokenForProject).                                     *)
THEOREM StatusIsEarned == Spec => []StatusEarned
<1>1. CredentialInv => StatusEarned
  BY DEF CredentialInv, ConnTyped, Earned, StatusEarned, StatusView, GetByProject, ViewFromConn, UnconfiguredView
<1> QED BY <1>1, CredentialSound, PTL

-----------------------------------------------------------------------------
(* Sequences.                                                               *)

Listing(q) == q \in Seq(Range(q))

LEMMA ListingFacts ==
  ASSUME NEW S, NEW q \in Seq(S)
  PROVE  /\ Listing(q) /\ Len(q) \in Nat /\ DOMAIN q = 1..Len(q)
         /\ q \in [1..Len(q) -> S] /\ \A k \in DOMAIN q : q[k] \in S
<1>1. Len(q) \in Nat /\ DOMAIN q = 1..Len(q) /\ \A k \in DOMAIN q : q[k] \in S
  BY LenProperties, ElementOfSeq
<1>2. q \in [1..Len(q) -> Range(q)] /\ q \in [1..Len(q) -> S]
  BY <1>1, LenProperties DEF Range
<1> QED BY <1>1, <1>2, SeqDef DEF Listing

LEMMA MappedListing ==
  ASSUME NEW n \in Nat, NEW q, DOMAIN q = 1..n, q = [k \in 1..n |-> q[k]]
  PROVE  Listing(q) /\ Len(q) = n
<1>1. q \in [1..n -> Range(q)]
  BY DEF Range
<1>2. PICK S : S = Range(q)
  OBVIOUS
<1>3. q \in Seq(S)
  BY <1>1, <1>2, SeqDef
<1> QED BY <1>2, <1>3, SeqDef DEF Listing

LEMMA NoListing == Listing(<<>>) /\ Len(<<>>) = 0 /\ DOMAIN <<>> = {}
<1>1. \A S : <<>> \in Seq(S)
  OBVIOUS
<1>2. Len(<<>>) = 0 /\ DOMAIN <<>> = {}
  OBVIOUS
<1> QED BY <1>1, <1>2 DEF Listing

LEMMA AppendedListing ==
  ASSUME NEW q, Listing(q), NEW x
  PROVE  /\ Listing(Append(q, x)) /\ Len(q) \in Nat /\ DOMAIN q = 1..Len(q)
         /\ Len(Append(q, x)) = Len(q) + 1 /\ DOMAIN Append(q, x) = 1..(Len(q) + 1)
         /\ Append(q, x)[Len(q) + 1] = x /\ \A k \in DOMAIN q : Append(q, x)[k] = q[k]
<1>1. PICK S : S = Range(q) \cup {x}
  OBVIOUS
<1>2. Len(q) \in Nat /\ DOMAIN q = 1..Len(q) /\ q \in [1..Len(q) -> Range(q)]
  BY ListingFacts DEF Listing
<1>3. q \in [1..Len(q) -> S] /\ x \in S
  BY <1>1, <1>2
<1>4. q \in Seq(S)
  BY <1>2, <1>3, SeqDef
<1>5. /\ Append(q, x) \in Seq(S) /\ Len(Append(q, x)) = Len(q) + 1
      /\ DOMAIN Append(q, x) = 1..(Len(q) + 1)
      /\ Append(q, x)[Len(q) + 1] = x /\ \A k \in 1..Len(q) : Append(q, x)[k] = q[k]
  BY <1>2, <1>3, <1>4, AppendProperties, LenProperties
<1> QED BY <1>2, <1>5, ListingFacts

LEMMA TailListing ==
  ASSUME NEW q, Listing(q), Len(q) > 0
  PROVE  /\ Listing(Tail(q)) /\ Len(Tail(q)) = Len(q) - 1 /\ Len(q) \in Nat
         /\ Head(q) = q[1] /\ \A k \in 1..(Len(q) - 1) : Tail(q)[k] = q[k + 1]
<1>1. PICK S : S = Range(q)
  OBVIOUS
<1>2. q \in Seq(S) /\ Len(q) \in Nat
  BY <1>1, ListingFacts DEF Listing
<1>3. q # <<>>
  BY NoListing
<1>4. /\ Tail(q) \in Seq(S) /\ Len(Tail(q)) = Len(q) - 1
      /\ Head(q) = q[1] /\ \A k \in 1..(Len(q) - 1) : Tail(q)[k] = q[k + 1]
  BY <1>2, <1>3
<1> QED BY <1>2, <1>4, ListingFacts

(* The places that are picked are counted by their ranks.                   *)
LEMMA RanksCount ==
  ASSUME NEW K, IsFiniteSet(K), K \subseteq Nat
  PROVE  /\ Cardinality(K) \in Nat
         /\ \A i \in K : Rank(K, i) \in 1..Cardinality(K)
         /\ \A k \in 1..Cardinality(K) : \E i \in K : Rank(K, i) = k
<1>1. Cardinality(K) \in Nat
  BY FS_CardinalityType
<1>2. ASSUME NEW i \in K PROVE Rank(K, i) \in 1..Cardinality(K)
  <2>1. PICK U : U = {j \in K : j <= i}
    OBVIOUS
  <2>2. U \in SUBSET K /\ i \in U
    BY <2>1
  <2>3. IsFiniteSet(U) /\ Cardinality(U) <= Cardinality(K)
    BY <2>2, FS_Subset
  <2>4. Cardinality(U) \in Nat /\ Cardinality(U) # 0
    <3>1. Cardinality(U) \in Nat
      BY <2>3, FS_CardinalityType
    <3>2. U # {}
      BY <2>2
    <3>3. Cardinality(U) # 0
      BY <2>3, <3>2, FS_EmptySet
    <3> QED BY <3>1, <3>3
  <2> QED BY <1>1, <2>1, <2>3, <2>4 DEF Rank
<1>3. ASSUME NEW i \in K, NEW j \in K, i < j PROVE Rank(K, i) # Rank(K, j)
  <2>1. PICK U, V : U = {m \in K : m <= i} /\ V = {m \in K : m <= j}
    OBVIOUS
  <2>2. V \in SUBSET K /\ U \in SUBSET V /\ j \in V /\ j \notin U
    <3>1. i \in Nat /\ j \in Nat /\ \A m \in K : m \in Nat
      OBVIOUS
    <3>2. \A m \in K : m <= i => m <= j
      BY <1>3, <3>1
    <3>3. j <= j /\ ~(j <= i)
      BY <1>3, <3>1
    <3>4. \A m : m \in U <=> m \in K /\ m <= i
      BY <2>1
    <3>5. \A m : m \in V <=> m \in K /\ m <= j
      BY <2>1
    <3> QED BY <3>2, <3>3, <3>4, <3>5
  <2>3. IsFiniteSet(V)
    BY <2>2, FS_Subset
  <2>4. Cardinality(V) # Cardinality(U)
    BY <2>2, <2>3, FS_Subset
  <2> QED BY <2>1, <2>4 DEF Rank
<1>4. PICK f : f = [i \in K |-> Rank(K, i)]
  OBVIOUS
<1>5. PICK n : n = Cardinality(K)
  OBVIOUS
<1>6. f \in Injection(K, 1..n)
  <2>1. f \in [K -> 1..n]
    BY <1>2, <1>4, <1>5
  <2>2. \A i, j \in K : f[i] = f[j] => i = j
    BY <1>3, <1>4
  <2> QED BY <2>1, <2>2 DEF Injection, IsInjective
<1>7. IsFiniteSet(1..n) /\ Cardinality(1..n) = n
  BY <1>1, <1>5, FS_Interval
<1>8. f \in Surjection(K, 1..n)
  BY <1>5, <1>6, <1>7, FS_Injection
<1>9. \A k \in 1..n : \E i \in K : f[i] = k
  BY <1>8 DEF Surjection
<1> QED BY <1>1, <1>2, <1>4, <1>5, <1>9

LEMMA PickedFacts ==
  ASSUME NEW s, Listing(s), NEW K, K \subseteq DOMAIN s
  PROVE  /\ Listing(Picked(s, K))
         /\ \A k \in DOMAIN Picked(s, K) : \E i \in K : Picked(s, K)[k] = s[i]
         /\ \A k, l \in DOMAIN Picked(s, K) : k # l =>
              \E i, j \in K : i # j /\ Picked(s, K)[k] = s[i] /\ Picked(s, K)[l] = s[j]
<1>1. Len(s) \in Nat /\ DOMAIN s = 1..Len(s)
  BY ListingFacts DEF Listing
<1>2. IsFiniteSet(K) /\ K \subseteq Nat
  <2>1. PICK n : n = Len(s)
    OBVIOUS
  <2>2. n \in Nat /\ K \in SUBSET (1..n)
    BY <1>1, <2>1
  <2>3. IsFiniteSet(1..n)
    BY <2>2, FS_Interval
  <2>4. IsFiniteSet(K)
    BY <2>2, <2>3, FS_Subset
  <2> QED BY <2>2, <2>4
<1>3. PICK n : n = Cardinality(K)
  OBVIOUS
<1>4. n \in Nat /\ \A k \in 1..n : \E i \in K : Rank(K, i) = k
  BY <1>2, <1>3, RanksCount
<1>5. PICK g : g = [k \in 1..n |-> CHOOSE i \in K : Rank(K, i) = k]
  OBVIOUS
<1>6. \A k \in 1..n : g[k] \in K /\ Rank(K, g[k]) = k
  BY <1>4, <1>5
<1>7. Picked(s, K) = [k \in 1..n |-> s[g[k]]]
  BY <1>3, <1>5 DEF Picked
<1>8. PICK q : q = Picked(s, K)
  OBVIOUS
<1>9. DOMAIN q = 1..n /\ q = [k \in 1..n |-> q[k]] /\ \A k \in 1..n : q[k] = s[g[k]]
  BY <1>7, <1>8
<1>10. Listing(q)
  BY <1>4, <1>9, MappedListing
<1>11. \A k, l \in 1..n : k # l => g[k] # g[l]
  BY <1>6
<1> QED BY <1>6, <1>8, <1>9, <1>10, <1>11

-----------------------------------------------------------------------------
(* The invariant.                                                           *)

BoardFits(B) ==
    /\ Listing(B)
    /\ \A i \in DOMAIN B :
        /\ DOMAIN B[i] = ItemFields /\ ItemRef(B[i]) # Nil
        /\ \A k \in DOMAIN B \ {i} : ItemRef(B[i]) # ItemRef(B[k])
TextFits(T) == Listing(T) /\ \A i, k \in DOMAIN T : T[i].key = T[k].key => i = k

StoriesFit(S) ==
    /\ Listing(S) /\ \A i \in DOMAIN S : StoryRow(S[i])
    /\ \A i, k \in Live(S) : i # k => ~StoryClash(S[i], S[k])

(* The project, c being its cleanness.                                      *)
ProjectFits(S, E, B, T, c) ==
    /\ StoriesFit(S) /\ Listing(E) /\ BoardFits(B) /\ TextFits(T) /\ c \in BOOLEAN
    /\ c => \A i \in Live(S) : Covers(S[i], B, T)

EpicPhases == {"epic", "epicName", "epicWrite"}
StoryPhases == {"story", "storyKey", "storyWrite"}
Phases == {"idle", "source", "resolve", "items", "over"} \cup EpicPhases \cup StoryPhases
ImportColumns == {"pc", "cfg", "token", "epics", "stories", "id", "row", "key", "n", "epicOf",
                  "log", "quiet", "re"}

(* What an import holds; a document knows of no item of a board.            *)
Itemless(source, items) == source = Markdown => \A k \in DOMAIN items : items[k].item = Nil
ImportFits(i) ==
    /\ DOMAIN i = ImportColumns /\ i.pc \in Phases
    /\ Listing(i.epics) /\ Listing(i.stories) /\ Listing(i.log)
    /\ i.pc # "idle" => i.cfg.source \in {GitHub, Markdown} /\ Itemless(i.cfg.source, i.stories)
    /\ i.pc \in {"resolve", "items", "storyKey"} => i.cfg.source = GitHub
    /\ i.pc \in EpicPhases => Len(i.epics) > 0
    /\ i.pc \in StoryPhases => Len(i.epics) = 0 /\ Len(i.stories) > 0
    /\ i.pc \in {"story", "storyKey"} => i.id = 0

(* The row an import has found, and the one that is there now.              *)
ViewFits(S, i) ==
    i.pc = "storyWrite" =>
        /\ i.id = 0 /\ i.cfg.source = Markdown => i.key = Head(i.stories).key
        /\ i.id # 0 =>
            /\ i.id \in DOMAIN S /\ StoryRow(i.row)
            /\ i.row.source = GitHub <=> i.cfg.source = GitHub
            /\ S[i.id].source = GitHub <=> i.cfg.source = GitHub

(* An item is imported: a row of the source has its identity, and its spec  *)
(* unless it is held.                                                       *)
Imported(cfg, is, row) ==
    /\ Identity(cfg, is, row) /\ row.source = cfg.source
    /\ IF Locked(row) THEN row.title = is.title ELSE row.hash = CanonicalHash(cfg, is)
Arrived(S, cfg, is) == \E r \in Live(S) : Imported(cfg, is, S[r])

Same(a, b) == \A c \in StoryColumns \ {"wb"} : a[c] = b[c]

(* How far an import is that ran alone and counted no failure: the items    *)
(* before the ones that are left have arrived.                              *)
Alone(i) == i.quiet /\ ~Failed(i.log) /\ ~i.cfg.dry
Rest(items, rest, n) == /\ Len(items) = n + Len(rest)
                        /\ \A k \in 1..Len(rest) : rest[k] = items[k + n]
Found(S, i) ==
    /\ i.id \in Live(S) /\ Same(i.row, S[i.id])
    /\ Identity(i.cfg, Head(i.stories), i.row)
Progress(S, items, i) ==
    i.pc \in EpicPhases \cup StoryPhases \cup {"over"} /\ Alone(i) =>
        /\ \E n \in 0..Len(items) :
            Rest(items, i.stories, n) /\ \A k \in 1..n : Arrived(S, i.cfg, items[k])
        /\ i.pc = "over" => Len(i.stories) = 0
        /\ i.pc = "storyWrite" /\ i.id # 0 => Found(S, i)

(* While everything is clean an import knows the epics its source names, or *)
(* will come to them.                                                       *)
Linked(refs, i) ==
    i.pc \in EpicPhases \cup StoryPhases /\ ~i.cfg.dry =>
        \A x \in refs : \/ x \in DOMAIN i.epicOf /\ i.epicOf[x] # 0
                       \/ \E k \in DOMAIN i.epics : i.epics[k].ext = x

Items(source, B, T) ==
    IF source = GitHub THEN FetchBoard(B, "Status", "Epic").stories ELSE MarkdownStories(T)

Known(S, B, T, c, i) ==
    /\ ImportFits(i) /\ ViewFits(S, i)
    /\ Progress(S, Items(i.cfg.source, B, T), i)
    /\ c => Linked(EpicRefs(i.cfg.source, B, T), i)

RunFits == /\ DOMAIN run = {"pc", "story", "target", "row"}
           /\ run.pc = "save" => DOMAIN run.row = StoryColumns

ImportInv ==
    /\ ProjectFits(stories, epics, board, text, clean) /\ RunFits
    /\ DOMAIN imp = Imports /\ \A p \in Imports : Known(stories, board, text, clean, imp[p])

-----------------------------------------------------------------------------
(* The sources.                                                             *)

(* A source names an item once.                                             *)
Distinct(source, items) ==
    \A j, k \in DOMAIN items : j # k =>
        IF source = GitHub THEN items[j].ext # items[k].ext ELSE items[j].key # items[k].key

LEMMA Apostrophes == GitHub # Markdown /\ GitHub # "manual" /\ Markdown # "manual"
  BY DEF GitHub, Markdown

LEMMA BoardFetched ==
  ASSUME NEW B, BoardFits(B)
  PROVE  LET f == FetchBoard(B, "Status", "Epic")
         IN /\ Listing(f.epics) /\ Listing(f.stories) /\ Distinct(GitHub, f.stories)
            /\ \A k \in DOMAIN f.stories : f.stories[k].ext # Nil
            /\ \A k \in DOMAIN f.epics : f.epics[k].ext # Nil
<1>1. PICK f : f = FetchBoard(B, "Status", "Epic")
  OBVIOUS
<1>2. PICK K, L : /\ K \subseteq DOMAIN B /\ L \subseteq DOMAIN B
                  /\ \A k \in K : B[k].kind = "Issue"
                  /\ f.epics = [i \in DOMAIN Picked(B, K) |-> BoardEpic(Picked(B, K)[i], "Status")]
                  /\ f.stories = [i \in DOMAIN Picked(B, L) |-> BoardStory(Picked(B, L)[i], "Status")]
  <2>1. PICK R : R = {k \in DOMAIN B : Readable(B[k])}
    OBVIOUS
  <2>2. PICK K : K = {k \in R : IsEpic(B[k], "Epic")}
    OBVIOUS
  <2>3. PICK L : L = R \ K
    OBVIOUS
  <2>4. /\ f.epics = [i \in DOMAIN Picked(B, K) |-> BoardEpic(Picked(B, K)[i], "Status")]
        /\ f.stories = [i \in DOMAIN Picked(B, L) |-> BoardStory(Picked(B, L)[i], "Status")]
    BY <1>1, <2>1, <2>2, <2>3 DEF FetchBoard
  <2>5. K \subseteq DOMAIN B /\ L \subseteq DOMAIN B
    BY <2>1, <2>2, <2>3
  <2>6. \A k \in K : B[k].kind = "Issue"
    BY <2>2 DEF IsEpic
  <2> QED BY <2>4, <2>5, <2>6
<1>3. PICK E, S : E = Picked(B, K) /\ S = Picked(B, L)
  OBVIOUS
<1>4. /\ Listing(E) /\ Listing(S)
      /\ \A k \in DOMAIN E : \E i \in K : E[k] = B[i]
      /\ \A k \in DOMAIN S : \E i \in L : S[k] = B[i]
      /\ \A k, l \in DOMAIN S : k # l => \E i, j \in L : i # j /\ S[k] = B[i] /\ S[l] = B[j]
  BY <1>2, <1>3, PickedFacts DEF BoardFits
<1>5. /\ f.epics = [i \in DOMAIN E |-> BoardEpic(E[i], "Status")]
      /\ f.stories = [i \in DOMAIN S |-> BoardStory(S[i], "Status")]
  BY <1>2, <1>3
<1>6. Listing(f.epics) /\ Listing(f.stories)
  <2>1. Len(E) \in Nat /\ DOMAIN E = 1..Len(E) /\ Len(S) \in Nat /\ DOMAIN S = 1..Len(S)
    BY <1>4, ListingFacts DEF Listing
  <2>2. PICK fe, fs : fe = f.epics /\ fs = f.stories
    OBVIOUS
  <2>3. /\ DOMAIN fe = 1..Len(E) /\ fe = [k \in 1..Len(E) |-> fe[k]]
        /\ DOMAIN fs = 1..Len(S) /\ fs = [k \in 1..Len(S) |-> fs[k]]
    BY <1>5, <2>1, <2>2
  <2>4. PICK m \in Nat, n \in Nat : m = Len(E) /\ n = Len(S)
    BY <2>1
  <2>5. Listing(fe) /\ Listing(fs)
    BY <2>3, <2>4, MappedListing
  <2> QED BY <2>2, <2>5
<1>7. \A k \in DOMAIN f.stories : k \in DOMAIN S /\ f.stories[k].ext = ItemRef(S[k])
  BY <1>5 DEF BoardStory
<1>8. \A k \in DOMAIN f.epics : k \in DOMAIN E /\ f.epics[k].ext = E[k].node
  BY <1>5 DEF BoardEpic
<1>9. \A k \in DOMAIN f.epics : f.epics[k].ext # Nil
  <2>1. \A i \in K : B[i].node = ItemRef(B[i]) /\ ItemRef(B[i]) # Nil
    BY <1>2 DEF ItemRef, BoardFits
  <2> QED BY <1>4, <1>8, <2>1
<1>10. \A k \in DOMAIN f.stories : f.stories[k].ext # Nil
  BY <1>2, <1>4, <1>7 DEF BoardFits
<1>11. Distinct(GitHub, f.stories)
  <2>1. \A i, j \in L : i # j => ItemRef(B[i]) # ItemRef(B[j])
    BY <1>2 DEF BoardFits
  <2>2. \A k, l \in DOMAIN f.stories : k # l => f.stories[k].ext # f.stories[l].ext
    BY <1>4, <1>7, <2>1
  <2> QED BY <2>2 DEF Distinct
<1> QED BY <1>1, <1>6, <1>9, <1>10, <1>11

LEMMA TextFetched ==
  ASSUME NEW T, TextFits(T)
  PROVE  /\ Listing(MarkdownEpics(T)) /\ Listing(MarkdownStories(T))
         /\ Distinct(Markdown, MarkdownStories(T))
         /\ \A k \in DOMAIN MarkdownStories(T) : MarkdownStories(T)[k].item = Nil
         /\ \A k \in DOMAIN MarkdownEpics(T) : MarkdownEpics(T)[k].ext # Nil
<1>1. PICK K : K = {i \in DOMAIN T : FirstMention(T, i)}
  OBVIOUS
<1>2. PICK E : E = Picked(T, K)
  OBVIOUS
<1>3. Listing(E) /\ \A k \in DOMAIN E : \E i \in K : E[k] = T[i]
  <2>1. Listing(T) /\ K \subseteq DOMAIN T
    BY <1>1 DEF TextFits
  <2> QED BY <1>2, <2>1, PickedFacts
<1>4. PICK me, ms : me = MarkdownEpics(T) /\ ms = MarkdownStories(T)
  OBVIOUS
<1>5. me = [k \in DOMAIN E |-> [ext |-> E[k].epic, key |-> E[k].epic, name |-> E[k].epic, raw |-> Nil]]
  BY <1>1, <1>2, <1>4 DEF MarkdownEpics
<1>6. /\ DOMAIN ms = DOMAIN T /\ ms = [k \in DOMAIN T |-> ms[k]]
      /\ \A k \in DOMAIN T : ms[k].item = Nil /\ ms[k].key = T[k].key
  BY <1>4 DEF MarkdownStories
<1>7. /\ Len(E) \in Nat /\ DOMAIN E = 1..Len(E) /\ Len(T) \in Nat /\ DOMAIN T = 1..Len(T)
  BY <1>3, ListingFacts DEF TextFits, Listing
<1>8. Listing(me) /\ Listing(ms)
  <2>1. PICK m \in Nat, n \in Nat : m = Len(E) /\ n = Len(T)
    BY <1>7
  <2>2. /\ DOMAIN me = 1..m /\ me = [k \in 1..m |-> me[k]]
        /\ DOMAIN ms = 1..n /\ ms = [k \in 1..n |-> ms[k]]
    BY <1>5, <1>6, <1>7, <2>1
  <2> QED BY <2>2, MappedListing
<1>9. \A k \in DOMAIN me : me[k].ext # Nil
  <2>1. \A i \in K : T[i].epic # Nil
    BY <1>1 DEF FirstMention
  <2>2. \A k \in DOMAIN E : E[k].epic # Nil
    BY <1>3, <2>1
  <2> QED BY <1>5, <2>2
<1>10. Distinct(Markdown, ms)
  BY <1>6, Apostrophes DEF Distinct, TextFits
<1> QED BY <1>4, <1>6, <1>8, <1>9, <1>10

-----------------------------------------------------------------------------
(* The statements.                                                          *)

(* A method that updates row i of S, or does nothing; one that inserts.     *)
Updates(o, S, i, row) ==
    IF Ok(o) THEN /\ i \in Live(S) /\ \A j \in Live(S) \ {i} : ~StoryClash(S[j], row)
                  /\ o.t = [S EXCEPT ![i] = row] /\ o.id = i
    ELSE o.t = S
Inserts(o, S, row) ==
    IF Ok(o) THEN /\ \A j \in Live(S) : ~StoryClash(S[j], row)
                  /\ o.t = Append(S, row) /\ o.id = Len(S) + 1
    ELSE o.t = S

LEMMA OutcomeFields ==
  \A T, i, err : /\ Outcome(T, i, err).t = T /\ Outcome(T, i, err).id = i
                 /\ Outcome(T, i, err).err = err
                 /\ DOMAIN Outcome(T, i, err) = {"t", "id", "err"}
  BY DEF Outcome

LEMMA RepoFields ==
  ASSUME NEW q, DOMAIN q = {"t", "id", "err"}
  PROVE  /\ Repo(q).t = q.t /\ Repo(q).id = q.id /\ (Ok(Repo(q)) <=> q.err = "none")
         /\ RepoExec(q).t = q.t /\ (Ok(RepoExec(q)) <=> q.err = "none")
BY DEF Repo, RepoExec, Ok, DomainError

LEMMA ChangeUpdates ==
  ASSUME NEW S, NEW i, NEW row, NEW q, q = Change(S, i, row, StoryClash)
  PROVE  DOMAIN q = {"t", "id", "err"} /\ Updates(Repo(q), S, i, row)
         /\ (q.err = "none" => Updates(Repo(q), S, i, row)) /\ (q.err # "none" => q.t = S)
<1>1. CASE i \notin Live(S)
  <2>1. q = Refused(S, "no_rows")
    BY <1>1 DEF Change
  <2> QED BY <2>1, OutcomeFields, RepoFields DEF Refused, Updates
<1>2. CASE i \in Live(S) /\ \E j \in Live(S) \ {i} : StoryClash(S[j], row)
  <2>1. q = Refused(S, "unique")
    BY <1>2 DEF Change
  <2> QED BY <2>1, OutcomeFields, RepoFields DEF Refused, Updates
<1>3. CASE i \in Live(S) /\ ~\E j \in Live(S) \ {i} : StoryClash(S[j], row)
  <2>1. q = Outcome([S EXCEPT ![i] = row], i, "none")
    BY <1>3 DEF Change
  <2>2. \A j \in Live(S) \ {i} : ~StoryClash(S[j], row)
    BY <1>3
  <2> QED BY <1>3, <2>1, <2>2, OutcomeFields, RepoFields DEF Updates
<1> QED BY <1>1, <1>2, <1>3

LEMMA RefusedUpdates ==
  ASSUME NEW S, NEW err, err # "none", NEW i, NEW row
  PROVE  /\ Updates(Repo(Refused(S, err)), S, i, row) /\ Inserts(Repo(Refused(S, err)), S, row)
         /\ err # "ok" => Updates(Refused(S, err), S, i, row) /\ Inserts(Refused(S, err), S, row)
BY OutcomeFields, RepoFields DEF Refused, Updates, Inserts, Ok

LEMMA InsertInserts ==
  ASSUME NEW S, NEW row
  PROVE  Inserts(Repo(Insert(S, row, StoryClash)), S, row)
<1>1. CASE \E j \in Live(S) : StoryClash(S[j], row)
  <2>1. Insert(S, row, StoryClash) = Refused(S, "unique")
    BY <1>1 DEF Insert
  <2> QED BY <2>1, RefusedUpdates
<1>2. CASE ~\E j \in Live(S) : StoryClash(S[j], row)
  <2>1. PICK q : q = Insert(S, row, StoryClash)
    OBVIOUS
  <2>2. PICK R, n : R = Append(S, row) /\ n = Len(S) + 1
    OBVIOUS
  <2>3. DOMAIN q = {"t", "id", "err"} /\ q.err = "none" /\ q.t = R /\ q.id = n
    <3>1. q = Outcome(R, n, "none")
      BY <1>2, <2>1, <2>2 DEF Insert
    <3> QED BY <3>1, OutcomeFields
  <2>4. Repo(q).t = q.t /\ Repo(q).id = q.id /\ Ok(Repo(q))
    BY <2>3, RepoFields
  <2>5. \A j \in Live(S) : ~StoryClash(S[j], row)
    BY <1>2
  <2> QED BY <2>1, <2>2, <2>3, <2>4, <2>5 DEF Inserts
<1> QED BY <1>1, <1>2

LEMMA WithEpicUpdates ==
  ASSUME NEW S, NEW E, NEW s, NEW o, NEW i, NEW row
  PROVE  /\ Updates(o, S, i, row) => Updates(WithEpic(S, E, s, o), S, i, row)
         /\ Inserts(o, S, row) => Inserts(WithEpic(S, E, s, o), S, row)
<1>1. CASE WithEpic(S, E, s, o) = o
  BY <1>1
<1>2. CASE WithEpic(S, E, s, o) = Refused(S, "internal")
  BY <1>2, RefusedUpdates
<1> QED BY <1>1, <1>2 DEF WithEpic

(* The rows that the statements write.                                      *)
Saved(r, s) == [r EXCEPT !.title = Coalesce(s.title, r.title),
                         !.objective = Coalesce(s.objective, r.objective),
                         !.status = Coalesce(s.status, r.status),
                         !.epic = IF s.epic = 0 THEN r.epic ELSE s.epic]
FromImport(r, s) == [r EXCEPT !.title = s.title, !.objective = s.objective, !.status = s.status,
                              !.epic = s.epic, !.source = s.source, !.ext = s.ext,
                              !.item = s.item, !.hash = s.hash]
OfOrigin(r, s) == [r EXCEPT !.title = s.title, !.source = s.source, !.ext = s.ext, !.item = s.item]
Created(s, source, ext, item, hash) ==
    [live |-> TRUE, key |-> s.key, title |-> s.title, objective |-> s.objective, epic |-> s.epic,
     status |-> s.status, stage |-> Nil, source |-> source, ext |-> ext, item |-> item,
     hash |-> hash, wb |-> Nil]

LEMMA StatementsUpdate ==
  ASSUME NEW S, NEW E, NEW i, NEW s, NEW stage
  PROVE  /\ Updates(StoryRepoUpdate(S, E, i, s), S, i, Saved(S[i], s))
         /\ Updates(StoryRepoUpdateStage(S, i, stage), S, i, [S[i] EXCEPT !.stage = stage])
         /\ Updates(StoryRepoUpdateFromImport(S, E, i, s), S, i, FromImport(S[i], s))
         /\ Updates(StoryRepoUpdateProvenanceOnly(S, i, s), S, i, OfOrigin(S[i], s))
         /\ Inserts(StoryRepoCreateFromImport(S, E, s), S, Created(s, s.source, s.ext, s.item, s.hash))
         /\ Inserts(StoryRepoCreate(S, E, s), S, Created(s, "manual", Nil, Nil, NoHash))
<1>1. Updates(StoryRepoUpdate(S, E, i, s), S, i, Saved(S[i], s))
  <2>1. UpdateStory(S, i, s) \in {Refused(S, "no_rows"), Change(S, i, Saved(S[i], s), StoryClash)}
    BY DEF UpdateStory, Saved
  <2>2. Updates(Repo(UpdateStory(S, i, s)), S, i, Saved(S[i], s))
    BY <2>1, RefusedUpdates, ChangeUpdates
  <2> QED BY <2>2, WithEpicUpdates DEF StoryRepoUpdate
<1>2. Updates(StoryRepoUpdateStage(S, i, stage), S, i, [S[i] EXCEPT !.stage = stage])
  <2>1. UpdateStoryCurrentStage(S, i, stage)
          \in {Refused(S, "no_rows"), Change(S, i, [S[i] EXCEPT !.stage = stage], StoryClash)}
    BY DEF UpdateStoryCurrentStage
  <2> QED BY <2>1, RefusedUpdates, ChangeUpdates DEF StoryRepoUpdateStage
<1>3. Updates(StoryRepoUpdateFromImport(S, E, i, s), S, i, FromImport(S[i], s))
  <2>1. UpdateStoryFromImport(S, i, s)
          \in {Refused(S, "no_rows"), Change(S, i, FromImport(S[i], s), StoryClash)}
    BY DEF UpdateStoryFromImport, FromImport
  <2>2. Updates(Repo(UpdateStoryFromImport(S, i, s)), S, i, FromImport(S[i], s))
    BY <2>1, RefusedUpdates, ChangeUpdates
  <2> QED BY <2>2, WithEpicUpdates DEF StoryRepoUpdateFromImport
<1>4. Updates(StoryRepoUpdateProvenanceOnly(S, i, s), S, i, OfOrigin(S[i], s))
  <2>1. PICK q : q = UpdateStoryProvenanceOnly(S, i, s)
    OBVIOUS
  <2>2. q \in {Refused(S, "no_rows"), Change(S, i, OfOrigin(S[i], s), StoryClash)}
    BY <2>1 DEF UpdateStoryProvenanceOnly, OfOrigin
  <2>3. /\ DOMAIN q = {"t", "id", "err"} /\ Updates(Repo(q), S, i, OfOrigin(S[i], s))
        /\ (q.err # "none" => q.t = S)
    <3>1. CASE q = Refused(S, "no_rows")
      BY <3>1, RefusedUpdates, OutcomeFields DEF Refused
    <3> QED BY <2>2, <3>1, ChangeUpdates
  <2>4. CASE q.err = "unique"
    <3>1. StoryRepoUpdateProvenanceOnly(S, i, s) = [q EXCEPT !.err = "internal"]
      BY <2>1, <2>4 DEF StoryRepoUpdateProvenanceOnly
    <3> QED BY <2>3, <2>4, <3>1 DEF Updates, Ok
  <2>5. CASE q.err # "unique"
    BY <2>1, <2>3, <2>5 DEF StoryRepoUpdateProvenanceOnly
  <2> QED BY <2>4, <2>5
<1>5. Inserts(StoryRepoCreateFromImport(S, E, s), S, Created(s, s.source, s.ext, s.item, s.hash))
  <2>1. Inserts(Repo(CreateStoryFromImport(S, s)), S, Created(s, s.source, s.ext, s.item, s.hash))
    BY InsertInserts DEF CreateStoryFromImport, Created
  <2> QED BY <2>1, WithEpicUpdates DEF StoryRepoCreateFromImport
<1>6. Inserts(StoryRepoCreate(S, E, s), S, Created(s, "manual", Nil, Nil, NoHash))
  <2>1. Inserts(Repo(CreateStory(S, s)), S, Created(s, "manual", Nil, Nil, NoHash))
    BY InsertInserts DEF CreateStory, Created
  <2> QED BY <2>1, WithEpicUpdates DEF StoryRepoCreate
<1> QED BY <1>1, <1>2, <1>3, <1>4, <1>5, <1>6

LEMMA ClashSymmetric == \A a, b : StoryClash(a, b) <=> StoryClash(b, a)
  BY DEF StoryClash, SameRef

(* A row is replaced: the table fits, and only that row differs.            *)
LEMMA RowUpdated ==
  ASSUME NEW S, StoriesFit(S), NEW o, NEW i, NEW row, Updates(o, S, i, row),
         i \in Live(S) => StoryRow(row) /\ row.live
  PROVE  /\ StoriesFit(o.t) /\ DOMAIN o.t = DOMAIN S /\ Live(o.t) = Live(S)
         /\ \A j \in DOMAIN S \ {i} : o.t[j] = S[j]
         /\ Ok(o) => i \in Live(S) /\ o.t[i] = row
<1>1. CASE ~Ok(o)
  BY <1>1 DEF Updates
<1>2. CASE Ok(o)
  <2>1. PICK R : R = o.t
    OBVIOUS
  <2>2. /\ i \in Live(S) /\ i \in DOMAIN S /\ R = [S EXCEPT ![i] = row]
        /\ \A j \in Live(S) \ {i} : ~StoryClash(S[j], row)
    BY <1>2, <2>1 DEF Updates, Live
  <2>3. PICK n \in Nat : DOMAIN S = 1..n /\ S \in [1..n -> Range(S)]
    BY ListingFacts DEF StoriesFit, Listing
  <2>4. DOMAIN R = DOMAIN S /\ R[i] = row /\ \A j \in DOMAIN S \ {i} : R[j] = S[j]
    BY <2>2, <2>3
  <2>5. Listing(R)
    <3>1. DOMAIN R = 1..n /\ R = [k \in 1..n |-> R[k]]
      BY <2>2, <2>3
    <3> QED BY <3>1, MappedListing
  <2>6. Live(R) = Live(S)
    BY <2>2, <2>4 DEF Live
  <2>7. \A j \in DOMAIN R : StoryRow(R[j])
    BY <2>2, <2>4 DEF StoriesFit
  <2>8. \A j, k \in Live(R) : j # k => ~StoryClash(R[j], R[k])
    <3>1. \A j \in Live(S) : j \in DOMAIN S
      BY DEF Live
    <3> QED BY <2>2, <2>4, <2>6, <3>1, ClashSymmetric DEF StoriesFit
  <2>9. StoriesFit(R)
    BY <2>5, <2>7, <2>8 DEF StoriesFit
  <2> QED BY <2>1, <2>2, <2>4, <2>6, <2>9
<1> QED BY <1>1, <1>2

(* A row is added.                                                          *)
LEMMA RowInserted ==
  ASSUME NEW S, StoriesFit(S), NEW o, NEW row, Inserts(o, S, row), StoryRow(row), row.live
  PROVE  /\ StoriesFit(o.t) /\ DOMAIN S \subseteq DOMAIN o.t /\ Live(S) \subseteq Live(o.t)
         /\ \A j \in DOMAIN S : o.t[j] = S[j]
         /\ Ok(o) => \E n \in Live(o.t) : o.t[n] = row /\ Live(o.t) = Live(S) \cup {n}
         /\ ~Ok(o) => o.t = S
<1>1. CASE ~Ok(o)
  BY <1>1 DEF Inserts
<1>2. CASE Ok(o)
  <2>1. PICK R : R = o.t
    OBVIOUS
  <2>2. R = Append(S, row) /\ \A j \in Live(S) : ~StoryClash(S[j], row)
    BY <1>2, <2>1 DEF Inserts
  <2>3. /\ Listing(R) /\ Len(S) \in Nat /\ DOMAIN S = 1..Len(S)
        /\ DOMAIN R = 1..(Len(S) + 1) /\ R[Len(S) + 1] = row
        /\ \A k \in DOMAIN S : R[k] = S[k]
    BY <2>2, AppendedListing DEF StoriesFit
  <2>4. PICK n : n = Len(S) + 1
    OBVIOUS
  <2>5. /\ DOMAIN R = DOMAIN S \cup {n} /\ n \notin DOMAIN S /\ R[n] = row
    BY <2>3, <2>4
  <2>6. Live(R) = Live(S) \cup {n} /\ Live(S) \subseteq DOMAIN S
    BY <2>3, <2>5 DEF Live
  <2>7. \A j \in DOMAIN R : StoryRow(R[j])
    BY <2>3, <2>5 DEF StoriesFit
  <2>8. \A j, k \in Live(R) : j # k => ~StoryClash(R[j], R[k])
    BY <2>2, <2>3, <2>5, <2>6, ClashSymmetric DEF StoriesFit
  <2>9. StoriesFit(R)
    BY <2>3, <2>7, <2>8 DEF StoriesFit
  <2> QED BY <1>2, <2>1, <2>3, <2>5, <2>6, <2>9
<1> QED BY <1>1, <1>2

(* Rows are mapped one by one: a table whose rows keep key and reference,   *)
(* or die, fits.                                                            *)
Fades(S, R) ==
    /\ DOMAIN R = DOMAIN S /\ R = [k \in DOMAIN S |-> R[k]]
    /\ \A k \in DOMAIN S : /\ StoryRow(S[k]) => StoryRow(R[k])
                           /\ StoryRow(S[k]) /\ R[k].live => S[k].live
                           /\ StoryRow(S[k]) => /\ R[k].key = S[k].key /\ R[k].source = S[k].source
                                                /\ R[k].ext = S[k].ext

LEMMA RowsFade ==
  ASSUME NEW S, StoriesFit(S), NEW R, Fades(S, R)
  PROVE  StoriesFit(R) /\ Live(R) \subseteq Live(S)
<1>1. PICK n \in Nat : DOMAIN S = 1..n
  BY ListingFacts DEF StoriesFit, Listing
<1>2. Listing(R)
  BY <1>1, MappedListing DEF Fades
<1>3. \A k \in DOMAIN R : StoryRow(R[k])
  BY DEF Fades, StoriesFit
<1>4. Live(R) \subseteq Live(S)
  BY DEF Fades, StoriesFit, Live
<1>5. \A j, k \in Live(R) : StoryClash(R[j], R[k]) <=> StoryClash(S[j], S[k])
  <2>1. \A k \in Live(R) : /\ R[k].key = S[k].key /\ R[k].source = S[k].source
                           /\ R[k].ext = S[k].ext
    BY DEF Fades, StoriesFit, Live
  <2> QED BY <2>1 DEF StoryClash, SameRef
<1> QED BY <1>2, <1>3, <1>4, <1>5 DEF StoriesFit

-----------------------------------------------------------------------------
(* An import while others work.                                             *)

(* Rows stay on their side: those of the board are those of the board.      *)
Kin(S, R) == /\ DOMAIN S \subseteq DOMAIN R
             /\ \A k \in DOMAIN S : R[k].source = GitHub <=> S[k].source = GitHub

(* What is said of an import that is not quiet holds whatever others write. *)
LEMMA KnownDisturbed ==
  ASSUME NEW S, NEW B, NEW T, NEW c, NEW i, Known(S, B, T, c, i),
         NEW R, Kin(S, R), NEW C, NEW d, d => c,
         d => \A src : EpicRefs(src, C, T) = EpicRefs(src, B, T)
  PROVE  Known(R, C, T, d, [i EXCEPT !.quiet = FALSE])
<1>1. PICK j : j = [i EXCEPT !.quiet = FALSE]
  OBVIOUS
<1>2. DOMAIN i = ImportColumns
  BY DEF Known, ImportFits
<1>3. /\ DOMAIN j = ImportColumns /\ j.quiet = FALSE /\ j.pc = i.pc /\ j.epics = i.epics
      /\ j.stories = i.stories /\ j.log = i.log /\ j.cfg = i.cfg /\ j.id = i.id
      /\ j.row = i.row /\ j.key = i.key /\ j.epicOf = i.epicOf
  BY <1>1, <1>2 DEF ImportColumns
<1>4. ImportFits(j)
  BY <1>3 DEF Known, ImportFits
<1>5. ViewFits(R, j)
  BY <1>3 DEF Known, ViewFits, Kin
<1>6. \A items : Progress(R, items, j)
  BY <1>3 DEF Progress, Alone
<1>7. d => Linked(EpicRefs(j.cfg.source, C, T), j)
  <2>1. d => Linked(EpicRefs(i.cfg.source, C, T), i)
    BY DEF Known
  <2> QED BY <1>3, <2>1 DEF Linked
<1> QED BY <1>1, <1>4, <1>5, <1>6, <1>7 DEF Known

(* A mark of the write-back disturbs nothing.                               *)
Marks(S, R) ==
    /\ DOMAIN R = DOMAIN S /\ R = [k \in DOMAIN S |-> R[k]]
    /\ \A k \in DOMAIN S : R[k] = S[k] \/ \E w : R[k] = [S[k] EXCEPT !.wb = w]

LEMMA MarksKeep ==
  ASSUME NEW S, StoriesFit(S), NEW R, Marks(S, R)
  PROVE  /\ StoriesFit(R) /\ Kin(S, R) /\ Live(R) = Live(S)
         /\ \A k \in DOMAIN S : Same(S[k], R[k])
<1>1. \A k \in DOMAIN S : DOMAIN S[k] = StoryColumns
  BY DEF StoriesFit, StoryRow
<1>2. \A k \in DOMAIN S : Same(S[k], R[k]) /\ DOMAIN R[k] = StoryColumns
  <2>1. TAKE k \in DOMAIN S
  <2>2. CASE R[k] = S[k]
    BY <1>1, <2>2 DEF Same
  <2>3. CASE \E w : R[k] = [S[k] EXCEPT !.wb = w]
    BY <1>1, <2>3 DEF Same
  <2> QED BY <2>2, <2>3 DEF Marks
<1>3. \A k \in DOMAIN S : /\ R[k].live = S[k].live /\ R[k].key = S[k].key
                          /\ R[k].source = S[k].source /\ R[k].ext = S[k].ext
                          /\ R[k].hash = S[k].hash
  BY <1>2 DEF Same, StoryColumns
<1>4. Fades(S, R)
  BY <1>2, <1>3 DEF Fades, Marks, StoryRow
<1>5. Live(R) = Live(S)
  BY <1>3 DEF Live, Marks
<1>6. Kin(S, R)
  BY <1>3 DEF Kin, Marks
<1> QED BY <1>2, <1>4, <1>5, <1>6, RowsFade

LEMMA SameImported ==
  ASSUME NEW a, NEW b, Same(a, b), NEW cfg, NEW is
  PROVE  /\ Imported(cfg, is, a) => Imported(cfg, is, b)
         /\ Identity(cfg, is, a) <=> Identity(cfg, is, b)
         /\ Locked(a) <=> Locked(b)
<1>1. /\ a.key = b.key /\ a.source = b.source /\ a.ext = b.ext /\ a.title = b.title
      /\ a.hash = b.hash /\ a.status = b.status /\ a.stage = b.stage
  BY DEF Same, StoryColumns
<1>2. Locked(a) <=> Locked(b)
  BY <1>1 DEF Locked
<1>3. Identity(cfg, is, a) <=> Identity(cfg, is, b)
  BY <1>1 DEF Identity
<1> QED BY <1>1, <1>2, <1>3 DEF Imported

LEMMA KnownMarked ==
  ASSUME NEW S, StoriesFit(S), NEW B, NEW T, NEW c, NEW i, Known(S, B, T, c, i),
         NEW R, Marks(S, R)
  PROVE  Known(R, B, T, c, i)
<1>1. /\ Kin(S, R) /\ Live(R) = Live(S) /\ \A k \in DOMAIN S : Same(S[k], R[k])
  BY MarksKeep
<1>2. \A k \in Live(S) : k \in DOMAIN S
  BY DEF Live
<1>3. ViewFits(R, i)
  BY <1>1 DEF Known, ViewFits, Kin
<1>4. \A cfg, is : Arrived(S, cfg, is) => Arrived(R, cfg, is)
  BY <1>1, <1>2, SameImported DEF Arrived
<1>5. Found(S, i) => Found(R, i)
  BY <1>1, <1>2 DEF Found, Same
<1>6. Progress(R, Items(i.cfg.source, B, T), i)
  BY <1>4, <1>5 DEF Known, Progress
<1> QED BY <1>3, <1>6 DEF Known

-----------------------------------------------------------------------------
(* The steps of an import.                                                  *)

LEMMA FailedLog ==
  ASSUME NEW log, Listing(log), NEW why
  PROVE  /\ Listing(Append(log, why))
         /\ Failed(Append(log, why)) <=> Failed(log) \/ why \in {"fail", "SOURCE_ERROR"}
<1>1. PICK q : q = Append(log, why)
  OBVIOUS
<1>2. /\ Listing(q) /\ Len(log) \in Nat /\ DOMAIN log = 1..Len(log)
      /\ DOMAIN q = 1..(Len(log) + 1) /\ q[Len(log) + 1] = why
      /\ \A k \in DOMAIN log : q[k] = log[k]
  BY <1>1, AppendedListing
<1>3. PICK n : n = Len(log) + 1
  OBVIOUS
<1>4. DOMAIN q = DOMAIN log \cup {n} /\ q[n] = why
  BY <1>2, <1>3
<1> QED BY <1>1, <1>2, <1>4 DEF Failed

(* The fields an import keeps while it works on an item.                    *)
Carries(i, j) ==
    /\ DOMAIN j = ImportColumns /\ j.epics = i.epics /\ j.stories = i.stories
    /\ j.log = i.log /\ j.cfg = i.cfg /\ j.quiet = i.quiet /\ j.epicOf = i.epicOf

LEMMA EpicPhaseKnown ==
  ASSUME NEW S, NEW B, NEW T, NEW c, NEW i, Known(S, B, T, c, i), i.pc \in EpicPhases,
         NEW j, Carries(i, j), j.pc \in EpicPhases
  PROVE  Known(S, B, T, c, j)
<1>1. j.pc \notin StoryPhases \cup {"idle", "resolve", "items", "over"} /\ i.pc # "idle"
  BY DEF EpicPhases, StoryPhases
<1>2. ImportFits(j)
  BY <1>1 DEF Known, ImportFits, Carries, Phases, EpicPhases, StoryPhases
<1>3. ViewFits(S, j)
  BY <1>1 DEF ViewFits, StoryPhases
<1>4. Progress(S, Items(j.cfg.source, B, T), j)
  <2>1. Progress(S, Items(i.cfg.source, B, T), i)
    BY DEF Known
  <2> QED BY <1>1, <2>1 DEF Progress, Carries, Alone, StoryPhases
<1>5. c => Linked(EpicRefs(j.cfg.source, B, T), j)
  BY DEF Known, Linked, Carries
<1> QED BY <1>2, <1>3, <1>4, <1>5 DEF Known

LEMMA StoryPhaseKnown ==
  ASSUME NEW S, NEW B, NEW T, NEW c, NEW i, Known(S, B, T, c, i), i.pc \in StoryPhases,
         NEW j, Carries(i, j), j.pc \in StoryPhases, ViewFits(S, j),
         j.pc \in {"story", "storyKey"} => j.id = 0,
         j.pc = "storyKey" => j.cfg.source = GitHub,
         j.pc = "storyWrite" /\ j.id # 0 => Found(S, j)
  PROVE  Known(S, B, T, c, j)
<1>1. j.pc \notin EpicPhases \cup {"idle", "resolve", "items", "over"} /\ i.pc # "idle"
  BY DEF EpicPhases, StoryPhases
<1>2. ImportFits(j)
  BY <1>1 DEF Known, ImportFits, Carries, Phases
<1>3. Progress(S, Items(j.cfg.source, B, T), j)
  <2>1. Progress(S, Items(i.cfg.source, B, T), i)
    BY DEF Known
  <2> QED BY <1>1, <2>1 DEF Progress, Carries, Alone
<1>4. c => Linked(EpicRefs(j.cfg.source, B, T), j)
  BY DEF Known, Linked, Carries
<1> QED BY <1>2, <1>3, <1>4 DEF Known

(* The loop goes on with what is left.                                      *)
LEMMA GotoFields ==
  ASSUME NEW i, DOMAIN i = ImportColumns, NEW log, NEW j, j = Goto(i, log)
  PROVE  /\ DOMAIN j = ImportColumns /\ j.epics = i.epics /\ j.stories = i.stories
         /\ j.log = log /\ j.cfg = i.cfg /\ j.quiet = i.quiet /\ j.epicOf = i.epicOf
         /\ j.id = 0
         /\ j.pc = IF Len(i.epics) > 0 THEN "epic" ELSE IF Len(i.stories) > 0 THEN "story" ELSE "over"
BY DEF Goto, ImportColumns

LEMMA GotoKnown ==
  ASSUME NEW S, NEW B, NEW T, NEW c, NEW i, NEW log, NEW j, j = Goto(i, log),
         DOMAIN i = ImportColumns, Listing(i.epics), Listing(i.stories), Listing(log),
         i.cfg.source \in {GitHub, Markdown}, Itemless(i.cfg.source, i.stories),
         i.quiet /\ ~Failed(log) /\ ~i.cfg.dry =>
            \E n \in 0..Len(Items(i.cfg.source, B, T)) :
                /\ Rest(Items(i.cfg.source, B, T), i.stories, n)
                /\ \A k \in 1..n : Arrived(S, i.cfg, Items(i.cfg.source, B, T)[k]),
         c /\ ~i.cfg.dry => \A x \in EpicRefs(i.cfg.source, B, T) :
                                \/ x \in DOMAIN i.epicOf /\ i.epicOf[x] # 0
                                \/ \E k \in DOMAIN i.epics : i.epics[k].ext = x
  PROVE  Known(S, B, T, c, j)
<1>1. /\ DOMAIN j = ImportColumns /\ j.epics = i.epics /\ j.stories = i.stories
      /\ j.log = log /\ j.cfg = i.cfg /\ j.quiet = i.quiet /\ j.epicOf = i.epicOf
      /\ j.id = 0
      /\ j.pc = IF Len(i.epics) > 0 THEN "epic" ELSE IF Len(i.stories) > 0 THEN "story" ELSE "over"
  BY GotoFields
<1>2. Len(i.epics) \in Nat /\ Len(i.stories) \in Nat
  BY ListingFacts DEF Listing
<1>3. /\ j.pc \in {"epic", "story", "over"}
      /\ j.pc = "epic" => Len(j.epics) > 0
      /\ j.pc = "story" => Len(j.epics) = 0 /\ Len(j.stories) > 0
      /\ j.pc = "over" => Len(j.stories) = 0
  BY <1>1, <1>2
<1>4. ImportFits(j)
  BY <1>1, <1>3 DEF ImportFits, Phases, EpicPhases, StoryPhases
<1>5. ViewFits(S, j)
  BY <1>3 DEF ViewFits
<1>6. Progress(S, Items(j.cfg.source, B, T), j)
  BY <1>1, <1>3 DEF Progress, Alone
<1>7. c => Linked(EpicRefs(j.cfg.source, B, T), j)
  BY <1>1 DEF Linked
<1> QED BY <1>4, <1>5, <1>6, <1>7 DEF Known

(* The loop goes on with the next story: this one has arrived, or failed.   *)
StoryDone(i, why) == Goto([i EXCEPT !.stories = Tail(@)], Append(i.log, why))
Attached(i, k) == \E e : k = Link(i, Head(i.epics).ext, e) /\ e # 0
EpicDone(i, why) == Goto([i EXCEPT !.epics = Tail(@)], Append(i.log, why))

LEMMA NextStoryKnown ==
  ASSUME NEW S, NEW B, NEW T, NEW c, NEW i, Known(S, B, T, c, i), i.pc \in StoryPhases,
         NEW R, NEW d, d => c, NEW why,
         Alone(i) /\ why \notin {"fail", "SOURCE_ERROR"} =>
            /\ Arrived(R, i.cfg, Head(i.stories))
            /\ \A k, n \in Nat : /\ n < Len(Items(i.cfg.source, B, T)) /\ k \in 1..n
                                 /\ Head(i.stories) = Items(i.cfg.source, B, T)[n + 1]
                                 /\ Arrived(S, i.cfg, Items(i.cfg.source, B, T)[k])
                                 => Arrived(R, i.cfg, Items(i.cfg.source, B, T)[k])
  PROVE  Known(R, B, T, d, StoryDone(i, why))
<1>1. PICK j, log, items : /\ j = [i EXCEPT !.stories = Tail(i.stories)] /\ log = Append(i.log, why)
                           /\ items = Items(i.cfg.source, B, T)
  OBVIOUS
<1>2. /\ DOMAIN i = ImportColumns /\ Listing(i.epics) /\ Listing(i.stories) /\ Listing(i.log)
      /\ i.cfg.source \in {GitHub, Markdown} /\ Len(i.stories) > 0
      /\ Itemless(i.cfg.source, i.stories)
  BY DEF Known, ImportFits, StoryPhases
<1>3. /\ DOMAIN j = ImportColumns /\ j.epics = i.epics /\ j.stories = Tail(i.stories)
      /\ j.cfg = i.cfg /\ j.quiet = i.quiet /\ j.epicOf = i.epicOf
  BY <1>1, <1>2 DEF ImportColumns
<1>4. /\ Listing(Tail(i.stories)) /\ Len(Tail(i.stories)) = Len(i.stories) - 1 /\ Len(i.stories) \in Nat
      /\ Head(i.stories) = i.stories[1]
      /\ \A k \in 1..(Len(i.stories) - 1) : Tail(i.stories)[k] = i.stories[k + 1]
  BY <1>2, TailListing
<1>5. Listing(log) /\ (Failed(log) <=> Failed(i.log) \/ why \in {"fail", "SOURCE_ERROR"})
  BY <1>1, <1>2, FailedLog
<1>6. ASSUME j.quiet, ~Failed(log), ~j.cfg.dry
      PROVE  \E n \in 0..Len(items) : Rest(items, j.stories, n) /\ \A k \in 1..n : Arrived(R, j.cfg, items[k])
  <2>1. Alone(i) /\ why \notin {"fail", "SOURCE_ERROR"}
    BY <1>3, <1>5, <1>6 DEF Alone
  <2>2. PICK n \in 0..Len(items) : /\ Rest(items, i.stories, n)
                                   /\ \A k \in 1..n : Arrived(S, i.cfg, items[k])
    BY <1>1, <2>1 DEF Known, Progress
  <2>3. /\ n \in Nat /\ Len(items) = n + Len(i.stories) /\ n + 1 \in 0..Len(items) /\ n < Len(items)
    BY <1>2, <1>4, <2>2 DEF Rest
  <2>4. items[n + 1] = Head(i.stories)
    <3>1. 1 \in 1..Len(i.stories)
      BY <1>2, <1>4
    <3>2. i.stories[1] = items[1 + n]
      BY <2>2, <3>1 DEF Rest
    <3> QED BY <1>4, <2>3, <3>2
  <2>5. Rest(items, j.stories, n + 1)
    <3>1. PICK q, m : q = j.stories /\ m = Len(i.stories)
      OBVIOUS
    <3>2. Len(q) = m - 1 /\ \A k \in 1..(m - 1) : q[k] = i.stories[k + 1]
      BY <1>3, <1>4, <3>1
    <3> m \in Nat /\ n \in Nat /\ Len(items) = n + m
      BY <1>4, <2>3, <3>1
    <3>3. \A k \in 1..m : i.stories[k] = items[k + n]
      BY <2>2, <3>1 DEF Rest
    <3>4. \A k \in 1..(m - 1) : q[k] = items[k + (n + 1)]
      <4>1. TAKE k \in 1..(m - 1)
      <4>2. k + 1 \in 1..m /\ (k + 1) + n = k + (n + 1)
        OBVIOUS
      <4>3. i.stories[k + 1] = items[(k + 1) + n]
        BY <3>3, <4>2
      <4> QED BY <3>2, <4>2, <4>3
    <3>5. Len(items) = (n + 1) + Len(q)
      BY <3>2
    <3> QED BY <3>1, <3>2, <3>4, <3>5 DEF Rest
  <2>6. \A k \in 1..(n + 1) : Arrived(R, j.cfg, items[k])
    <3>1. Arrived(R, i.cfg, items[n + 1])
      BY <2>1, <2>4
    <3>2. \A k \in 1..n : k \in Nat
      BY <2>3
    <3>3. \A k \in 1..n : Arrived(R, i.cfg, items[k])
      BY <1>1, <2>1, <2>2, <2>3, <2>4, <3>2
    <3>4. \A k \in 1..(n + 1) : k = n + 1 \/ k \in 1..n
      BY <2>3
    <3> QED BY <1>3, <3>1, <3>3, <3>4
  <2> QED BY <2>3, <2>5, <2>6
<1>7. d /\ ~j.cfg.dry => \A x \in EpicRefs(j.cfg.source, B, T) :
                                \/ x \in DOMAIN j.epicOf /\ j.epicOf[x] # 0
                                \/ \E k \in DOMAIN j.epics : j.epics[k].ext = x
  BY <1>3 DEF Known, Linked
<1>8. Known(R, B, T, d, Goto(j, log))
  <2>1. Listing(j.epics) /\ Listing(j.stories) /\ j.cfg.source \in {GitHub, Markdown}
    BY <1>2, <1>3, <1>4
  <2>2. items = Items(j.cfg.source, B, T)
    BY <1>1, <1>3
  <2>3. Itemless(j.cfg.source, j.stories)
    <3>1. /\ DOMAIN i.stories = 1..Len(i.stories)
          /\ DOMAIN Tail(i.stories) = 1..(Len(i.stories) - 1)
      BY <1>2, <1>4, ListingFacts DEF Listing
    <3>2. \A k \in 1..(Len(i.stories) - 1) : k + 1 \in 1..Len(i.stories)
      BY <1>4
    <3> QED BY <1>2, <1>3, <1>4, <3>1, <3>2 DEF Itemless
  <2> QED BY <1>3, <1>5, <1>6, <1>7, <2>1, <2>2, <2>3, GotoKnown
<1> QED BY <1>1, <1>8 DEF StoryDone

(* The loop goes on with the next epic: this one is linked, or it failed.   *)
LEMMA NextEpicKnown ==
  ASSUME NEW S, NEW B, NEW T, NEW c, NEW i, Known(S, B, T, c, i), i.pc \in EpicPhases,
         NEW k, NEW d, d => c, NEW why,
         k = i \/ Attached(i, k), d /\ ~i.cfg.dry => Attached(i, k)
  PROVE  Known(S, B, T, d, EpicDone(k, why))
<1>1. PICK j, ext : j = [k EXCEPT !.epics = Tail(k.epics)] /\ ext = Head(i.epics).ext
  OBVIOUS
<1>2. /\ DOMAIN i = ImportColumns /\ Listing(i.epics) /\ Listing(i.stories) /\ Listing(i.log)
      /\ i.cfg.source \in {GitHub, Markdown} /\ Len(i.epics) > 0
      /\ Itemless(i.cfg.source, i.stories)
  BY DEF Known, ImportFits, EpicPhases
<1>3. /\ DOMAIN k = ImportColumns /\ k.epics = i.epics /\ k.stories = i.stories
      /\ k.log = i.log /\ k.cfg = i.cfg /\ k.quiet = i.quiet
      /\ \A x \in DOMAIN i.epicOf : x \in DOMAIN k.epicOf /\ (i.epicOf[x] # 0 => k.epicOf[x] # 0)
      /\ Attached(i, k) => ext \in DOMAIN k.epicOf /\ k.epicOf[ext] # 0
  <2>1. CASE ~Attached(i, k)
    BY <1>1, <1>2, <2>1
  <2>2. CASE Attached(i, k)
    <3>1. PICK e : k = Link(i, ext, e) /\ e # 0
      BY <1>1, <2>2 DEF Attached
    <3>2. PICK f : f = [x \in DOMAIN i.epicOf \cup {ext} |-> IF x = ext THEN e ELSE i.epicOf[x]]
      OBVIOUS
    <3>3. k = [i EXCEPT !.epicOf = f]
      BY <3>1, <3>2 DEF Link
    <3>4. /\ ext \in DOMAIN f /\ f[ext] = e
          /\ \A x \in DOMAIN i.epicOf : x \in DOMAIN f /\ (f[x] = e \/ f[x] = i.epicOf[x])
      BY <3>2
    <3> QED BY <1>2, <3>1, <3>3, <3>4 DEF ImportColumns
  <2> QED BY <2>1, <2>2
<1>4. /\ DOMAIN j = ImportColumns /\ j.epics = Tail(i.epics) /\ j.stories = i.stories
      /\ j.cfg = i.cfg /\ j.quiet = i.quiet /\ j.epicOf = k.epicOf
  BY <1>1, <1>3 DEF ImportColumns
<1>5. /\ Listing(Tail(i.epics)) /\ Len(Tail(i.epics)) = Len(i.epics) - 1 /\ Len(i.epics) \in Nat
      /\ Head(i.epics) = i.epics[1]
      /\ \A m \in 1..(Len(i.epics) - 1) : Tail(i.epics)[m] = i.epics[m + 1]
  BY <1>2, TailListing
<1>6. PICK log : log = Append(i.log, why)
  OBVIOUS
<1>7. Listing(log) /\ (Failed(log) <=> Failed(i.log) \/ why \in {"fail", "SOURCE_ERROR"})
  BY <1>2, <1>6, FailedLog
<1>8. j.quiet /\ ~Failed(log) /\ ~j.cfg.dry =>
        \E n \in 0..Len(Items(j.cfg.source, B, T)) :
            /\ Rest(Items(j.cfg.source, B, T), j.stories, n)
            /\ \A m \in 1..n : Arrived(S, j.cfg, Items(j.cfg.source, B, T)[m])
  BY <1>4, <1>7 DEF Known, Progress, Alone
<1>9. ASSUME d, ~j.cfg.dry, NEW x \in EpicRefs(j.cfg.source, B, T)
      PROVE  \/ x \in DOMAIN j.epicOf /\ j.epicOf[x] # 0
             \/ \E m \in DOMAIN j.epics : j.epics[m].ext = x
  <2>1. ext \in DOMAIN j.epicOf /\ j.epicOf[ext] # 0
    BY <1>1, <1>3, <1>4, <1>9
  <2>2. CASE x \in DOMAIN i.epicOf /\ i.epicOf[x] # 0
    BY <1>3, <1>4, <2>2
  <2>3. CASE \E m \in DOMAIN i.epics : i.epics[m].ext = x
    <3>1. PICK m \in DOMAIN i.epics : i.epics[m].ext = x
      BY <2>3
    <3>2. DOMAIN i.epics = 1..Len(i.epics) /\ DOMAIN Tail(i.epics) = 1..(Len(i.epics) - 1)
      BY <1>2, <1>5, ListingFacts DEF Listing
    <3>3. CASE m = 1
      BY <1>1, <1>5, <2>1, <3>1, <3>3
    <3>4. CASE m # 1
      <4>1. m - 1 \in 1..(Len(i.epics) - 1) /\ (m - 1) + 1 = m
        BY <1>5, <3>1, <3>2, <3>4
      <4>2. Tail(i.epics)[m - 1] = i.epics[m]
        BY <1>5, <4>1
      <4> QED BY <1>4, <3>1, <3>2, <4>1, <4>2
    <3> QED BY <3>3, <3>4
  <2> QED BY <1>4, <1>9, <2>2, <2>3 DEF Known, Linked
<1>10. Known(S, B, T, d, Goto(j, log))
  BY <1>2, <1>4, <1>5, <1>7, <1>8, <1>9, GotoKnown
<1> QED BY <1>1, <1>3, <1>6, <1>10 DEF EpicDone

(* The source was fetched: nothing has arrived, every epic is to come.      *)
Groups(source, B, T) ==
    IF source = GitHub THEN FetchBoard(B, "Status", "Epic").epics ELSE MarkdownEpics(T)

LEMMA Sources ==
  ASSUME NEW B, BoardFits(B), NEW T, TextFits(T), NEW source \in {GitHub, Markdown}
  PROVE  /\ Listing(Items(source, B, T)) /\ Listing(Groups(source, B, T))
         /\ Distinct(source, Items(source, B, T))
         /\ \A k \in DOMAIN Items(source, B, T) :
                /\ source = GitHub => Items(source, B, T)[k].ext # Nil
                /\ source = Markdown => Items(source, B, T)[k].item = Nil
         /\ EpicRefs(source, B, T) =
                {Groups(source, B, T)[k].ext : k \in DOMAIN Groups(source, B, T)}
         /\ Nil \notin EpicRefs(source, B, T)
<1>1. CASE source = GitHub
  <2>1. PICK f : f = FetchBoard(B, "Status", "Epic")
    OBVIOUS
  <2>2. /\ Listing(f.epics) /\ Listing(f.stories) /\ Distinct(GitHub, f.stories)
        /\ \A k \in DOMAIN f.stories : f.stories[k].ext # Nil
        /\ \A k \in DOMAIN f.epics : f.epics[k].ext # Nil
    BY <2>1, BoardFetched
  <2>3. Items(source, B, T) = f.stories /\ Groups(source, B, T) = f.epics
    BY <1>1, <2>1 DEF Items, Groups
  <2>4. EpicRefs(source, B, T) = {f.epics[k].ext : k \in DOMAIN f.epics}
    BY <1>1, <2>1 DEF EpicRefs, EpicsOn
  <2> QED BY <1>1, <2>2, <2>3, <2>4, Apostrophes
<1>2. CASE source = Markdown
  <2>1. PICK f, g : f = MarkdownStories(T) /\ g = MarkdownEpics(T)
    OBVIOUS
  <2>2. /\ Listing(g) /\ Listing(f) /\ Distinct(Markdown, f)
        /\ \A k \in DOMAIN f : f[k].item = Nil
        /\ \A k \in DOMAIN g : g[k].ext # Nil
    BY <2>1, TextFetched
  <2>3. Items(source, B, T) = f /\ Groups(source, B, T) = g
    BY <1>2, <2>1, Apostrophes DEF Items, Groups
  <2>4. EpicRefs(source, B, T) = {g[k].ext : k \in DOMAIN g}
    BY <1>2, <2>1, Apostrophes DEF EpicRefs
  <2> QED BY <1>2, <2>2, <2>3, <2>4, Apostrophes
<1> QED BY <1>1, <1>2

LEMMA FetchedKnown ==
  ASSUME NEW S, NEW B, BoardFits(B), NEW T, TextFits(T), NEW c, NEW i, Known(S, B, T, c, i),
         i.cfg.source \in {GitHub, Markdown}, NEW E, E = Groups(i.cfg.source, B, T),
         NEW I, I = Items(i.cfg.source, B, T)
  PROVE  Known(S, B, T, c, Goto([i EXCEPT !.epics = E, !.stories = I], <<>>))
<1>1. PICK j : j = [i EXCEPT !.epics = E, !.stories = I]
  OBVIOUS
<1>2. DOMAIN i = ImportColumns
  BY DEF Known, ImportFits
<1>3. /\ DOMAIN j = ImportColumns /\ j.epics = E /\ j.stories = I /\ j.cfg = i.cfg
  BY <1>1, <1>2 DEF ImportColumns
<1>4. /\ Listing(E) /\ Listing(I)
      /\ EpicRefs(i.cfg.source, B, T) = {E[k].ext : k \in DOMAIN E}
  BY Sources
<1>5. Len(I) \in Nat
  BY <1>4, ListingFacts DEF Listing
<1>6. /\ Rest(I, I, 0) /\ 0 \in 0..Len(I) /\ \A k \in 1..0 : Arrived(S, i.cfg, I[k])
  BY <1>5 DEF Rest
<1>7. PICK log : log = <<>>
  OBVIOUS
<1>8. Listing(log)
  BY <1>7, NoListing
<1>9. \A x \in EpicRefs(j.cfg.source, B, T) : \E k \in DOMAIN j.epics : j.epics[k].ext = x
  BY <1>3, <1>4
<1>10. Known(S, B, T, c, Goto(j, log))
  <2>1. I = Items(j.cfg.source, B, T) /\ Rest(I, j.stories, 0)
    BY <1>3, <1>6
  <2>2. Itemless(j.cfg.source, j.stories)
    BY <1>3, Sources DEF Itemless
  <2> QED BY <1>3, <1>4, <1>6, <1>8, <1>9, <2>1, <2>2, GotoKnown
<1> QED BY <1>1, <1>7, <1>10

(* The source answered with an error.                                       *)
LEMMA StoppedKnown ==
  ASSUME NEW S, NEW B, NEW T, NEW c, NEW i, Known(S, B, T, c, i), i.pc # "idle",
         NEW j, DOMAIN j = ImportColumns, j.pc = "over", j.log = Append(i.log, "SOURCE_ERROR"),
         j.epics = i.epics, j.stories = i.stories, j.cfg = i.cfg
  PROVE  Known(S, B, T, c, j)
<1>1. ImportFits(i)
  BY DEF Known
<1>2. Listing(j.log) /\ Failed(j.log)
  BY <1>1, FailedLog DEF ImportFits
<1>3. ImportFits(j)
  BY <1>1, <1>2 DEF ImportFits, Phases, EpicPhases, StoryPhases
<1>4. ViewFits(S, j)
  BY DEF ViewFits
<1>5. \A items : Progress(S, items, j)
  BY <1>2 DEF Progress, Alone
<1>6. \A refs : Linked(refs, j)
  BY DEF Linked, EpicPhases, StoryPhases
<1> QED BY <1>3, <1>4, <1>5, <1>6 DEF Known

-----------------------------------------------------------------------------
(* Steps.                                                                   *)

ProjectStays == UNCHANGED <<stories, epics, board, text, clean>>

(* One import moves on and nobody writes.                                   *)
LEMMA ReadKeeps ==
  ASSUME ImportInv, ProjectStays, UNCHANGED run, NEW p \in Imports, DOMAIN imp' = Imports,
         \A q \in Imports \ {p} : imp'[q] = imp[q],
         Known(stories, board, text, clean, imp'[p])
  PROVE  ImportInv'
<1>1. /\ stories' = stories /\ epics' = epics /\ board' = board /\ text' = text /\ clean' = clean
      /\ run' = run
  BY DEF ProjectStays
<1>2. \A q \in Imports : Known(stories', board', text', clean', imp'[q])
  BY <1>1 DEF ImportInv
<1>3. RunFits'
  BY <1>1 DEF ImportInv, RunFits
<1> QED BY <1>1, <1>2, <1>3 DEF ImportInv

(* One import writes and disturbs the others.                               *)
LEMMA WriteKeeps ==
  ASSUME ImportInv, UNCHANGED <<board, text, run>>, NEW p \in Imports, NEW t,
         imp' = Disturb(t, p), \A q \in Imports \ {p} : t[q] = imp[q], Kin(stories, stories'),
         clean' => clean, ProjectFits(stories', epics', board, text, clean'),
         Known(stories', board, text, clean', t[p])
  PROVE  ImportInv'
<1>1. board' = board /\ text' = text /\ run' = run
  OBVIOUS
<1>2. DOMAIN imp' = Imports /\ imp'[p] = t[p]
      /\ \A q \in Imports \ {p} : imp'[q] = [imp[q] EXCEPT !.quiet = FALSE]
  BY DEF Disturb
<1>3. ASSUME NEW q \in Imports \ {p} PROVE Known(stories', board, text, clean', imp'[q])
  <2>1. Known(stories, board, text, clean, imp[q])
    BY DEF ImportInv
  <2>2. Known(stories', board, text, clean', [imp[q] EXCEPT !.quiet = FALSE])
    BY <2>1, KnownDisturbed
  <2> QED BY <1>2, <2>2
<1>4. \A q \in Imports : Known(stories', board', text', clean', imp'[q])
  BY <1>1, <1>2, <1>3
<1>5. RunFits'
  BY <1>1 DEF ImportInv, RunFits
<1> QED BY <1>1, <1>2, <1>4, <1>5 DEF ImportInv

(* Somebody else writes.                                                    *)
LEMMA ForeignKeeps ==
  ASSUME ImportInv, UNCHANGED text, RunFits', imp' = Disturb(imp, 0), Kin(stories, stories'),
         clean' => clean, clean' => EpicsOn(board') = EpicsOn(board),
         ProjectFits(stories', epics', board', text, clean')
  PROVE  ImportInv'
<1>1. text' = text
  OBVIOUS
<1>2. /\ DOMAIN imp' = Imports
      /\ \A q \in Imports : imp'[q] = [imp[q] EXCEPT !.quiet = FALSE]
  BY ImportsAssumption DEF Disturb
<1>3. clean' => \A src : EpicRefs(src, board', text) = EpicRefs(src, board, text)
  BY DEF EpicRefs
<1>4. ASSUME NEW q \in Imports PROVE Known(stories', board', text, clean', imp'[q])
  <2>1. Known(stories, board, text, clean, imp[q])
    BY DEF ImportInv
  <2>2. Known(stories', board', text, clean', [imp[q] EXCEPT !.quiet = FALSE])
    BY <1>3, <2>1, KnownDisturbed
  <2> QED BY <1>2, <2>2
<1> QED BY <1>1, <1>2, <1>4 DEF ImportInv

(* Nothing of it changes, or only marks.                                    *)
LEMMA MarkedKeeps ==
  ASSUME ImportInv, RunFits', UNCHANGED <<epics, board, text, clean, imp>>,
         Marks(stories, stories') \/ stories' = stories
  PROVE  ImportInv'
<1>1. epics' = epics /\ board' = board /\ text' = text /\ clean' = clean /\ imp' = imp
  OBVIOUS
<1>2. CASE stories' = stories
  BY <1>1, <1>2 DEF ImportInv
<1>3. CASE Marks(stories, stories')
  <2>1. StoriesFit(stories)
    BY DEF ImportInv, ProjectFits
  <2>2. /\ StoriesFit(stories') /\ Live(stories') = Live(stories)
        /\ \A k \in DOMAIN stories : Same(stories[k], stories'[k])
    BY <1>3, <2>1, MarksKeep
  <2>3. \A q \in Imports : Known(stories', board, text, clean, imp[q])
    BY <1>3, <2>1, KnownMarked DEF ImportInv
  <2>4. clean => \A k \in Live(stories') : Covers(stories'[k], board, text)
    <3>1. \A k \in Live(stories) : k \in DOMAIN stories
      BY DEF Live
    <3>2. \A a, b : Same(a, b) /\ Covers(a, board, text) => Covers(b, board, text)
      <4>1. \A a, b : Same(a, b) => /\ a.hash = b.hash /\ a.title = b.title /\ a.source = b.source
                                    /\ a.epic = b.epic
        BY DEF Same, StoryColumns
      <4> QED BY <4>1 DEF Covers
    <3> QED BY <2>2, <3>1, <3>2 DEF ImportInv, ProjectFits
  <2>5. ProjectFits(stories', epics, board, text, clean)
    BY <2>2, <2>4 DEF ImportInv, ProjectFits
  <2> QED BY <1>1, <2>3, <2>5 DEF ImportInv
<1> QED BY <1>2, <1>3

-----------------------------------------------------------------------------
(* The lookups.                                                             *)

LEMMA OneFound ==
  ASSUME NEW S, NEW M, M \subseteq Live(S), NEW q,
         q = Repo(IF M = {} THEN Refused(S, "no_rows") ELSE Outcome(S, CHOOSE k \in M : TRUE, "none"))
  PROVE  Ok(q) => q.id \in M
<1>1. CASE M = {}
  <2>1. q = Repo(Refused(S, "no_rows"))
    BY <1>1
  <2> QED BY <2>1 DEF Repo, Refused, Outcome, Ok, DomainError
<1>2. CASE M # {}
  <2>1. PICK m : m = CHOOSE k \in M : TRUE
    OBVIOUS
  <2>2. m \in M /\ q = Repo(Outcome(S, m, "none"))
    BY <1>2, <2>1
  <2> QED BY <2>2 DEF Repo, Outcome
<1> QED BY <1>1, <1>2

LEMMA LookupsFind ==
  ASSUME NEW S, NEW name, NEW source, NEW ext
  PROVE  /\ Ok(StoryRepoGetByKey(S, name)) =>
                /\ StoryRepoGetByKey(S, name).id \in Live(S)
                /\ S[StoryRepoGetByKey(S, name).id].key = name
         /\ Ok(StoryRepoGetBySourceRef(S, source, ext)) =>
                /\ StoryRepoGetBySourceRef(S, source, ext).id \in Live(S)
                /\ S[StoryRepoGetBySourceRef(S, source, ext).id].source = source
                /\ S[StoryRepoGetBySourceRef(S, source, ext).id].ext = ext
         /\ Ok(EpicRepoGetBySourceRef(S, source, ext)) =>
                EpicRepoGetBySourceRef(S, source, ext).id \in Live(S)
         /\ Ok(EpicRepoGetByName(S, name)) => EpicRepoGetByName(S, name).id \in Live(S)
<1>1. PICK K : K = {k \in Live(S) : S[k].key = name}
  OBVIOUS
<1>2. PICK R : R = {k \in Live(S) : S[k].source = source /\ S[k].ext = ext}
  OBVIOUS
<1>3. PICK N : N = {k \in Live(S) : S[k].name = name}
  OBVIOUS
<1>4. Ok(StoryRepoGetByKey(S, name)) => StoryRepoGetByKey(S, name).id \in K
  BY <1>1, OneFound DEF StoryRepoGetByKey, GetStoryByKey, One, RowsWhere
<1>5. Ok(StoryRepoGetBySourceRef(S, source, ext)) => StoryRepoGetBySourceRef(S, source, ext).id \in R
  BY <1>2, OneFound DEF StoryRepoGetBySourceRef, GetStoryBySourceRef, One, RowsWhere
<1>6. Ok(EpicRepoGetBySourceRef(S, source, ext)) => EpicRepoGetBySourceRef(S, source, ext).id \in R
  BY <1>2, OneFound DEF EpicRepoGetBySourceRef, GetEpicBySourceRef, One, RowsWhere
<1>7. Ok(EpicRepoGetByName(S, name)) => EpicRepoGetByName(S, name).id \in N
  BY <1>3, OneFound DEF EpicRepoGetByName, GetEpicByName, One, RowsWhere
<1> QED BY <1>1, <1>2, <1>3, <1>4, <1>5, <1>6, <1>7

-----------------------------------------------------------------------------
(* The actions of an import.                                                *)

LEMMA StartKeeps ==
  ASSUME ImportInv, NEW p \in Imports, NEW role, NEW cfg, ImportPlanning(p, role, cfg), UNCHANGED run
  PROVE  ImportInv'
<1>1. PICK a, b : imp' = [imp EXCEPT ![p] = [IdleImport EXCEPT !.pc = "source", !.cfg = cfg,
                                                               !.quiet = a, !.re = b]]
  BY DEF ImportPlanning
<1>2. PICK j : j = [IdleImport EXCEPT !.pc = "source", !.cfg = cfg, !.quiet = a, !.re = b]
  OBVIOUS
<1>3. /\ DOMAIN j = ImportColumns /\ j.pc = "source" /\ j.cfg = cfg /\ j.epics = <<>>
      /\ j.stories = <<>> /\ j.log = <<>>
  BY <1>2 DEF IdleImport, ImportColumns
<1>4. cfg.source \in {GitHub, Markdown}
  BY DEF ImportPlanning, ConfigOk
<1>5. ImportFits(j)
  BY <1>3, <1>4, NoListing DEF ImportFits, Itemless, Phases, EpicPhases, StoryPhases
<1>6. Known(stories, board, text, clean, j)
  BY <1>3, <1>5 DEF Known, ViewFits, Progress, Linked, EpicPhases, StoryPhases
<1>7. DOMAIN imp' = Imports /\ imp'[p] = j /\ \A q \in Imports \ {p} : imp'[q] = imp[q]
  BY <1>1, <1>2 DEF ImportInv
<1>8. ProjectStays
  BY DEF ImportPlanning, ProjectStays
<1> QED BY <1>6, <1>7, <1>8, ReadKeeps

(* The import stops, or goes on.                                            *)
LEMMA StopKeeps ==
  ASSUME ImportInv, NEW p \in Imports, imp[p].pc # "idle", Stop(p, "SOURCE_ERROR"),
         ProjectStays, UNCHANGED run
  PROVE  ImportInv'
<1>1. PICK i : i = imp[p]
  OBVIOUS
<1>2. DOMAIN i = ImportColumns /\ Known(stories, board, text, clean, i)
  BY <1>1 DEF ImportInv, Known, ImportFits
<1>3. PICK j : j = imp'[p]
  OBVIOUS
<1>4. /\ DOMAIN imp' = Imports /\ \A q \in Imports \ {p} : imp'[q] = imp[q]
      /\ j = [i EXCEPT !.pc = "over", !.log = Append(i.log, "SOURCE_ERROR")]
  BY <1>1, <1>3 DEF Stop, ImportInv
<1>5. /\ DOMAIN j = ImportColumns /\ j.pc = "over" /\ j.log = Append(i.log, "SOURCE_ERROR")
      /\ j.epics = i.epics /\ j.stories = i.stories /\ j.cfg = i.cfg
  BY <1>2, <1>4 DEF ImportColumns
<1>6. Known(stories, board, text, clean, j)
  BY <1>1, <1>2, <1>5, StoppedKnown
<1> QED BY <1>3, <1>4, <1>6, ReadKeeps

LEMMA MoveKeeps ==
  ASSUME ImportInv, NEW p \in Imports, NEW j, imp' = [imp EXCEPT ![p] = j],
         Known(stories, board, text, clean, j), ProjectStays, UNCHANGED run
  PROVE  ImportInv'
<1>1. DOMAIN imp' = Imports /\ imp'[p] = j /\ \A q \in Imports \ {p} : imp'[q] = imp[q]
  BY DEF ImportInv
<1> QED BY <1>1, ReadKeeps

LEMMA ForKeeps ==
  ASSUME ImportInv, NEW p \in Imports, For(p), UNCHANGED run
  PROVE  ImportInv'
<1>1. PICK i : i = imp[p]
  OBVIOUS
<1>2. /\ Known(stories, board, text, clean, i) /\ i.pc = "source" /\ DOMAIN i = ImportColumns
      /\ i.cfg.source \in {GitHub, Markdown} /\ BoardFits(board) /\ TextFits(text)
  BY <1>1 DEF ImportInv, Known, ImportFits, For, ProjectFits
<1>3. ProjectStays
  BY DEF For, ProjectStays
<1>4. CASE i.cfg.source = Markdown
  <2>1. imp' = [imp EXCEPT ![p] = Goto([i EXCEPT !.epics = MarkdownEpics(text),
                                                 !.stories = MarkdownStories(text)], <<>>)]
    BY <1>1, <1>4 DEF For
  <2>2. /\ MarkdownEpics(text) = Groups(i.cfg.source, board, text)
        /\ MarkdownStories(text) = Items(i.cfg.source, board, text)
    BY <1>4, Apostrophes DEF Groups, Items
  <2>3. Known(stories, board, text, clean,
              Goto([i EXCEPT !.epics = MarkdownEpics(text), !.stories = MarkdownStories(text)], <<>>))
    BY <1>2, <2>2, FetchedKnown
  <2> QED BY <1>3, <2>1, <2>3, MoveKeeps
<1>5. CASE i.cfg.source # Markdown /\ Stop(p, "SOURCE_ERROR")
  BY <1>1, <1>2, <1>3, <1>5, StopKeeps
<1>6. CASE i.cfg.source # Markdown /\ ~Stop(p, "SOURCE_ERROR")
  <2>1. PICK token : imp' = [imp EXCEPT ![p].pc = "resolve", ![p].token = token]
    BY <1>1, <1>6 DEF For
  <2>2. PICK j : j = [i EXCEPT !.pc = "resolve", !.token = token]
    OBVIOUS
  <2>3. imp' = [imp EXCEPT ![p] = j]
    BY <1>1, <2>1, <2>2 DEF ImportInv
  <2>4. Carries(i, j) /\ j.pc = "resolve"
    BY <1>2, <2>2 DEF Carries, ImportColumns
  <2>5. ImportFits(j)
    BY <1>2, <1>6, <2>4 DEF Known, ImportFits, Carries, Phases, EpicPhases, StoryPhases
  <2>6. Known(stories, board, text, clean, j)
    BY <2>4, <2>5 DEF Known, ViewFits, Progress, Linked, EpicPhases, StoryPhases
  <2> QED BY <1>3, <2>3, <2>6, MoveKeeps
<1> QED BY <1>4, <1>5, <1>6

LEMMA ResolveKeeps ==
  ASSUME ImportInv, NEW p \in Imports, Resolve(p), UNCHANGED run
  PROVE  ImportInv'
<1>1. PICK i : i = imp[p]
  OBVIOUS
<1>2. /\ Known(stories, board, text, clean, i) /\ i.pc = "resolve" /\ DOMAIN i = ImportColumns
      /\ i.cfg.source = GitHub
  BY <1>1 DEF ImportInv, Known, ImportFits, Resolve
<1>3. ProjectStays
  BY DEF Resolve, ProjectStays
<1>4. CASE Stop(p, "SOURCE_ERROR")
  BY <1>1, <1>2, <1>3, <1>4, StopKeeps
<1>5. CASE ~Stop(p, "SOURCE_ERROR")
  <2>1. imp' = [imp EXCEPT ![p].pc = "items"]
    BY <1>5 DEF Resolve
  <2>2. PICK j : j = [i EXCEPT !.pc = "items"]
    OBVIOUS
  <2>3. imp' = [imp EXCEPT ![p] = j]
    BY <1>1, <2>1, <2>2 DEF ImportInv
  <2>4. Carries(i, j) /\ j.pc = "items"
    BY <1>2, <2>2 DEF Carries, ImportColumns
  <2>5. ImportFits(j)
    BY <1>2, <2>4 DEF Known, ImportFits, Carries, Phases, EpicPhases, StoryPhases
  <2>6. Known(stories, board, text, clean, j)
    BY <2>4, <2>5 DEF Known, ViewFits, Progress, Linked, EpicPhases, StoryPhases
  <2> QED BY <1>3, <2>3, <2>6, MoveKeeps
<1> QED BY <1>4, <1>5

LEMMA FetchKeeps ==
  ASSUME ImportInv, NEW p \in Imports, Fetch(p), UNCHANGED run
  PROVE  ImportInv'
<1>1. PICK i : i = imp[p]
  OBVIOUS
<1>2. /\ Known(stories, board, text, clean, i) /\ i.pc = "items" /\ DOMAIN i = ImportColumns
      /\ i.cfg.source = GitHub /\ BoardFits(board) /\ TextFits(text)
  BY <1>1 DEF ImportInv, Known, ImportFits, Fetch, ProjectFits
<1>3. ProjectStays
  BY DEF Fetch, ProjectStays
<1>4. CASE Stop(p, "SOURCE_ERROR")
  BY <1>1, <1>2, <1>3, <1>4, StopKeeps
<1>5. CASE ~Stop(p, "SOURCE_ERROR")
  <2>1. PICK f : f = FetchBoard(board, "Status", "Epic")
    OBVIOUS
  <2>2. imp' = [imp EXCEPT ![p] = Goto([i EXCEPT !.epics = f.epics, !.stories = f.stories], <<>>)]
    BY <1>1, <1>5, <2>1 DEF Fetch
  <2>3. /\ f.epics = Groups(i.cfg.source, board, text)
        /\ f.stories = Items(i.cfg.source, board, text)
    BY <1>2, <2>1 DEF Groups, Items
  <2>4. Known(stories, board, text, clean,
              Goto([i EXCEPT !.epics = f.epics, !.stories = f.stories], <<>>))
    BY <1>2, <2>3, FetchedKnown
  <2> QED BY <1>3, <2>2, <2>4, MoveKeeps
<1> QED BY <1>4, <1>5

-----------------------------------------------------------------------------
(* The table of epics.                                                      *)

LEMMA EpicInserted ==
  ASSUME NEW E, Listing(E), NEW row, NEW q, q = Insert(E, row, EpicClash)
  PROVE  Listing(Repo(q).t) /\ (Ok(Repo(q)) => Repo(q).id # 0)
<1>1. CASE q = Refused(E, "unique")
  <2>1. q.t = E /\ q.err = "unique" /\ DOMAIN q = {"t", "id", "err"}
    BY <1>1, OutcomeFields DEF Refused
  <2> QED BY <2>1, RepoFields
<1>2. CASE q # Refused(E, "unique")
  <2>1. PICK R, n : R = Append(E, row) /\ n = Len(E) + 1
    OBVIOUS
  <2>2. q = Outcome(R, n, "none")
    BY <1>2, <2>1 DEF Insert
  <2>3. q.t = R /\ q.id = n /\ DOMAIN q = {"t", "id", "err"}
    BY <2>2, OutcomeFields
  <2>4. Listing(R) /\ n # 0
    BY <2>1, AppendedListing
  <2> QED BY <2>3, <2>4, RepoFields
<1> QED BY <1>1, <1>2

LEMMA EpicUpdated ==
  ASSUME NEW E, Listing(E), NEW i, NEW row, NEW q,
         q \in {Refused(E, "no_rows"), Change(E, i, row, EpicClash)}
  PROVE  Listing(Repo(q).t)
<1>1. CASE \E err : q = Refused(E, err)
  <2>1. q.t = E /\ DOMAIN q = {"t", "id", "err"}
    BY <1>1, OutcomeFields DEF Refused
  <2> QED BY <2>1, RepoFields
<1>2. CASE ~\E err : q = Refused(E, err)
  <2>1. PICK R : R = [E EXCEPT ![i] = row]
    OBVIOUS
  <2>2. q = Outcome(R, i, "none")
    BY <1>2, <2>1 DEF Change
  <2>3. q.t = R /\ DOMAIN q = {"t", "id", "err"}
    BY <2>2, OutcomeFields
  <2>4. PICK n \in Nat : DOMAIN E = 1..n
    BY ListingFacts DEF Listing
  <2>5. DOMAIN R = 1..n /\ R = [k \in 1..n |-> R[k]]
    BY <2>1, <2>4
  <2>6. Listing(R)
    BY <2>5, MappedListing
  <2> QED BY <2>3, <2>6, RepoFields
<1> QED BY <1>1, <1>2

LEMMA EpicStatements ==
  ASSUME NEW E, Listing(E), NEW i, NEW e
  PROVE  /\ Listing(EpicRepoCreate(E, e).t) /\ Listing(EpicRepoUpdate(E, i, e).t)
         /\ Listing(EpicRepoUpdateFromImport(E, i, e).t)
         /\ Listing(EpicRepoCreateFromImport(E, e).t)
         /\ Ok(EpicRepoCreateFromImport(E, e)) => EpicRepoCreateFromImport(E, e).id # 0
<1>1. Listing(EpicRepoCreate(E, e).t)
  BY EpicInserted DEF EpicRepoCreate, CreateEpic
<1>2. /\ Listing(EpicRepoCreateFromImport(E, e).t)
      /\ Ok(EpicRepoCreateFromImport(E, e)) => EpicRepoCreateFromImport(E, e).id # 0
  BY EpicInserted DEF EpicRepoCreateFromImport, CreateEpicFromImport
<1>3. Listing(EpicRepoUpdate(E, i, e).t)
  <2>1. PICK row : row = [E[i] EXCEPT !.name = Coalesce(e.name, @), !.status = Coalesce(e.status, @)]
    OBVIOUS
  <2>2. UpdateEpic(E, i, e) \in {Refused(E, "no_rows"), Change(E, i, row, EpicClash)}
    BY <2>1 DEF UpdateEpic
  <2> QED BY <2>2, EpicUpdated DEF EpicRepoUpdate
<1>4. Listing(EpicRepoUpdateFromImport(E, i, e).t)
  <2>1. PICK row : row = [E[i] EXCEPT !.name = e.name, !.status = e.status,
                                      !.source = e.source, !.ext = e.ext]
    OBVIOUS
  <2>2. UpdateEpicFromImport(E, i, e) \in {Refused(E, "no_rows"), Change(E, i, row, EpicClash)}
    BY <2>1 DEF UpdateEpicFromImport
  <2> QED BY <2>2, EpicUpdated DEF EpicRepoUpdateFromImport
<1> QED BY <1>1, <1>2, <1>3, <1>4

LEMMA LiveEpics ==
  ASSUME NEW E, Listing(E)
  PROVE  \A e \in Live(E) : e # 0
<1>1. PICK n \in Nat : DOMAIN E = 1..n
  BY ListingFacts DEF Listing
<1> QED BY <1>1 DEF Live

-----------------------------------------------------------------------------
(* The epics of an import.                                                  *)

LEMMA EpicReadKeeps ==
  ASSUME ImportInv, NEW p \in Imports, imp[p].pc \in EpicPhases, NEW t, Reads(t), UNCHANGED run,
         \/ \E id, row : t = [imp EXCEPT ![p].pc = "epicWrite", ![p].id = id, ![p].row = row]
         \/ \E id : t = [imp EXCEPT ![p].pc = "epicWrite", ![p].id = id]
         \/ t = [imp EXCEPT ![p].pc = "epicName"]
         \/ \E e, why : /\ e \in Live(epics)
                        /\ t = NextEpic(p, Link(imp[p], Head(imp[p].epics).ext, e), why)
  PROVE  ImportInv'
<1>1. PICK i : i = imp[p]
  OBVIOUS
<1>2. Known(stories, board, text, clean, i) /\ DOMAIN i = ImportColumns /\ p \in DOMAIN imp
  BY <1>1 DEF ImportInv, Known, ImportFits
<1>3. ProjectStays /\ imp' = t
  BY DEF Reads, ProjectStays
<1>4. CASE \E e, why : e \in Live(epics) /\ t = NextEpic(p, Link(i, Head(i.epics).ext, e), why)
  <2>1. PICK e, why : e \in Live(epics) /\ t = NextEpic(p, Link(i, Head(i.epics).ext, e), why)
    BY <1>4
  <2>2. e # 0
    BY <2>1, LiveEpics DEF ImportInv, ProjectFits
  <2>3. PICK k : k = Link(i, Head(i.epics).ext, e)
    OBVIOUS
  <2>4. Known(stories, board, text, clean, EpicDone(k, why))
    <3>1. Attached(i, k) /\ i.pc \in EpicPhases
      BY <1>1, <2>2, <2>3 DEF Attached
    <3> QED BY <1>2, <3>1, NextEpicKnown
  <2>5. imp' = [imp EXCEPT ![p] = EpicDone(k, why)]
    BY <1>3, <2>1, <2>3 DEF NextEpic, EpicDone
  <2> QED BY <1>3, <2>4, <2>5, MoveKeeps
<1>5. CASE ~\E e, why : e \in Live(epics) /\ t = NextEpic(p, Link(i, Head(i.epics).ext, e), why)
  <2>1. /\ DOMAIN t = Imports /\ \A q \in Imports \ {p} : t[q] = imp[q]
        /\ \/ \E id, row : t[p] = [i EXCEPT !.pc = "epicWrite", !.id = id, !.row = row]
           \/ \E id : t[p] = [i EXCEPT !.pc = "epicWrite", !.id = id]
           \/ t[p] = [i EXCEPT !.pc = "epicName"]
    <3>1. CASE \E id, row : t = [imp EXCEPT ![p].pc = "epicWrite", ![p].id = id, ![p].row = row]
      <4>1. PICK id, row : t = [imp EXCEPT ![p].pc = "epicWrite", ![p].id = id, ![p].row = row]
        BY <3>1
      <4>2. DOMAIN t = Imports /\ \A q \in Imports \ {p} : t[q] = imp[q]
        BY <4>1 DEF ImportInv
      <4>3. t[p] = [i EXCEPT !.pc = "epicWrite", !.id = id, !.row = row]
        BY <1>1, <1>2, <4>1
      <4> QED BY <4>2, <4>3
    <3>2. CASE \E id : t = [imp EXCEPT ![p].pc = "epicWrite", ![p].id = id]
      BY <1>1, <1>2, <3>2 DEF ImportInv
    <3>3. CASE t = [imp EXCEPT ![p].pc = "epicName"]
      BY <1>1, <1>2, <3>3 DEF ImportInv
    <3> QED BY <1>1, <1>5, <3>1, <3>2, <3>3
  <2>2. PICK j : j = t[p]
    OBVIOUS
  <2>3. Carries(i, j) /\ j.pc \in {"epicWrite", "epicName"}
    <3>1. CASE \E id, row : j = [i EXCEPT !.pc = "epicWrite", !.id = id, !.row = row]
      BY <1>2, <3>1 DEF Carries, ImportColumns
    <3>2. CASE \E id : j = [i EXCEPT !.pc = "epicWrite", !.id = id]
      BY <1>2, <3>2 DEF Carries, ImportColumns
    <3>3. CASE j = [i EXCEPT !.pc = "epicName"]
      BY <1>2, <3>3 DEF Carries, ImportColumns
    <3> QED BY <2>1, <2>2, <3>1, <3>2, <3>3
  <2>4. Known(stories, board, text, clean, j)
    <3>1. i.pc \in EpicPhases /\ j.pc \in EpicPhases
      BY <1>1, <2>3 DEF EpicPhases
    <3> QED BY <1>2, <2>3, <3>1, EpicPhaseKnown
  <2> QED BY <1>3, <2>1, <2>2, <2>4, ReadKeeps
<1> QED BY <1>4, <1>5

LEMMA EpicByRefKeeps ==
  ASSUME ImportInv, NEW p \in Imports, EpicByRef(p), UNCHANGED run
  PROVE  ImportInv'
<1>1. PICK i, x : i = imp[p] /\ x = Head(i.epics).ext
  OBVIOUS
<1>2. PICK q : q = EpicRepoGetBySourceRef(epics, i.cfg.source, x)
  OBVIOUS
<1>3. Ok(q) => q.id \in Live(epics)
  BY <1>2, LookupsFind
<1>4. imp[p].pc \in EpicPhases
  BY DEF EpicByRef, EpicPhases
<1>5. PICK t : /\ Reads(t)
               /\ \/ ~Ok(q) /\ t = [imp EXCEPT ![p].pc = "epicName"]
                  \/ Ok(q) /\ t = NextEpic(p, Link(i, x, q.id), "skip")
                  \/ Ok(q) /\ t = [imp EXCEPT ![p].pc = "epicWrite", ![p].id = q.id,
                                              ![p].row = epics[q.id]]
  BY <1>1, <1>2 DEF EpicByRef
<1> QED BY <1>1, <1>3, <1>4, <1>5, EpicReadKeeps

LEMMA EpicByNameKeeps ==
  ASSUME ImportInv, NEW p \in Imports, EpicByName(p), UNCHANGED run
  PROVE  ImportInv'
<1>1. PICK i, x, name : i = imp[p] /\ x = Head(i.epics).ext /\ name = Head(i.epics).name
  OBVIOUS
<1>2. PICK q : q = EpicRepoGetByName(epics, name)
  OBVIOUS
<1>3. Ok(q) => q.id \in Live(epics)
  BY <1>2, LookupsFind
<1>4. imp[p].pc \in EpicPhases
  BY DEF EpicByName, EpicPhases
<1>5. PICK t : /\ Reads(t)
               /\ \/ ~Ok(q) /\ t = [imp EXCEPT ![p].pc = "epicWrite", ![p].id = 0]
                  \/ Ok(q) /\ t = NextEpic(p, Link(i, x, q.id), "link")
                  \/ Ok(q) /\ t = [imp EXCEPT ![p].pc = "epicWrite", ![p].id = q.id,
                                              ![p].row = epics[q.id]]
  BY <1>1, <1>2 DEF EpicByName
<1> QED BY <1>1, <1>3, <1>4, <1>5, EpicReadKeeps

LEMMA KinSelf == \A S : Kin(S, S)
  BY DEF Kin

LEMMA EpicWriteKeeps ==
  ASSUME ImportInv, NEW p \in Imports, EpicWrite(p), UNCHANGED run
  PROVE  ImportInv'
<1>1. PICK i, ie : i = imp[p] /\ ie = Head(i.epics)
  OBVIOUS
<1>2. /\ Known(stories, board, text, clean, i) /\ DOMAIN i = ImportColumns /\ p \in DOMAIN imp
      /\ i.pc \in EpicPhases /\ Listing(epics)
      /\ ProjectFits(stories, epics, board, text, clean)
  BY <1>1 DEF ImportInv, Known, ImportFits, EpicWrite, EpicPhases, ProjectFits
<1>3. PICK o : o = IF i.id = 0 THEN EpicRepoCreateFromImport(epics, NewEpic(i.cfg, ie))
                   ELSE EpicRepoUpdateFromImport(epics, i.id, EpicTarget(i.cfg, ie, i.row))
  OBVIOUS
<1>4. PICK e, k : /\ e = (IF i.id # 0 THEN i.id ELSE o.id)
                  /\ k = (IF e = 0 THEN i ELSE Link(i, ie.ext, e))
  OBVIOUS
<1>5. Listing(o.t) /\ (Ok(o) => e # 0)
  BY <1>2, <1>3, <1>4, EpicStatements
<1>6. k = i \/ Attached(i, k)
  BY <1>1, <1>4 DEF Attached
<1>7. CASE i.cfg.dry
  <2>1. PICK l, why : imp' = NextEpic(p, l, why) /\ (l = i \/ l = k)
    BY <1>1, <1>3, <1>4, <1>7 DEF EpicWrite
  <2>2. ProjectStays
    BY <1>1, <1>7 DEF EpicWrite, ProjectStays
  <2>3. l = i \/ Attached(i, l)
    BY <1>6, <2>1
  <2>4. Known(stories, board, text, clean, EpicDone(l, why))
    BY <1>2, <1>7, <2>3, NextEpicKnown
  <2>5. imp' = [imp EXCEPT ![p] = EpicDone(l, why)]
    BY <2>1 DEF NextEpic, EpicDone
  <2> QED BY <2>2, <2>4, <2>5, MoveKeeps
<1>8. CASE ~i.cfg.dry
  <2>1. PICK why : /\ epics' = o.t /\ stories' = stories
                   /\ Writes(p, o, NextEpic(p, k, why), FALSE)
    BY <1>1, <1>3, <1>4, <1>8 DEF EpicWrite
  <2>2. PICK t : t = NextEpic(p, k, why)
    OBVIOUS
  <2>3. /\ imp' = Disturb(t, p) /\ clean' = (clean /\ Ok(o) /\ ~FALSE)
        /\ board' = board /\ text' = text
    BY <2>1, <2>2 DEF Writes
  <2>4. (clean' => clean /\ Ok(o)) /\ clean' \in BOOLEAN
    BY <2>3
  <2>5. clean' => Attached(i, k)
    BY <1>1, <1>4, <1>5, <2>4 DEF Attached
  <2>6. Known(stories, board, text, clean', EpicDone(k, why))
    BY <1>2, <1>6, <2>4, <2>5, NextEpicKnown
  <2>7. /\ t[p] = EpicDone(k, why)
        /\ \A q \in Imports \ {p} : t[q] = imp[q]
    BY <1>2, <2>2 DEF NextEpic, EpicDone, ImportInv
  <2>8. ProjectFits(stories, epics', board, text, clean')
    BY <1>2, <1>5, <2>1, <2>4 DEF ProjectFits
  <2> QED BY <2>1, <2>3, <2>4, <2>6, <2>7, <2>8, KinSelf, WriteKeeps
<1> QED BY <1>7, <1>8

-----------------------------------------------------------------------------
(* The stories of an import.                                                *)

LEMMA StoryReadKeeps ==
  ASSUME ImportInv, NEW p \in Imports, imp[p].pc \in StoryPhases, NEW t, Reads(t), UNCHANGED run,
         DOMAIN t = Imports, \A q \in Imports \ {p} : t[q] = imp[q], Carries(imp[p], t[p]),
         t[p].pc \in StoryPhases, ViewFits(stories, t[p]),
         t[p].pc \in {"story", "storyKey"} => t[p].id = 0,
         t[p].pc = "storyKey" => t[p].cfg.source = GitHub,
         t[p].pc = "storyWrite" /\ t[p].id # 0 => Found(stories, t[p])
  PROVE  ImportInv'
<1>1. PICK i, j : i = imp[p] /\ j = t[p]
  OBVIOUS
<1>2. Known(stories, board, text, clean, i)
  BY <1>1 DEF ImportInv
<1>3. Known(stories, board, text, clean, j)
  BY <1>1, <1>2, StoryPhaseKnown
<1>4. ProjectStays /\ imp' = t
  BY DEF Reads, ProjectStays
<1> QED BY <1>1, <1>3, <1>4, ReadKeeps

(* An item fails, or is skipped because its row is up to date.              *)
LEMMA StorySkipKeeps ==
  ASSUME ImportInv, NEW p \in Imports, imp[p].pc \in StoryPhases, NEW t, NEW why,
         t = NextStory(p, imp[p], why), Reads(t), UNCHANGED run,
         Alone(imp[p]) /\ why \notin {"fail", "SOURCE_ERROR"} =>
            Arrived(stories, imp[p].cfg, Head(imp[p].stories))
  PROVE  ImportInv'
<1>1. PICK i : i = imp[p]
  OBVIOUS
<1>2. Known(stories, board, text, clean, i) /\ p \in DOMAIN imp
  BY <1>1 DEF ImportInv
<1>3. Known(stories, board, text, clean, StoryDone(i, why))
  BY <1>1, <1>2, NextStoryKnown
<1>4. ProjectStays /\ imp' = t
  BY DEF Reads, ProjectStays
<1>5. t = [imp EXCEPT ![p] = StoryDone(i, why)]
  BY <1>1 DEF NextStory, StoryDone
<1> QED BY <1>3, <1>4, <1>5, MoveKeeps

LEMMA StoryByIdentityKeeps ==
  ASSUME ImportInv, NEW p \in Imports, StoryByIdentity(p), UNCHANGED run
  PROVE  ImportInv'
<1>1. PICK i, is : i = imp[p] /\ is = Head(i.stories)
  OBVIOUS
<1>2. PICK q : q = IF i.cfg.source = Markdown THEN StoryRepoGetByKey(stories, is.key)
                   ELSE StoryRepoGetBySourceRef(stories, i.cfg.source, is.ext)
  OBVIOUS
<1>3. /\ DOMAIN i = ImportColumns /\ p \in DOMAIN imp /\ DOMAIN imp = Imports /\ i.pc = "story"
      /\ i.id = 0 /\ i.cfg.source \in {GitHub, Markdown} /\ imp[p].pc \in StoryPhases
  BY <1>1 DEF ImportInv, Known, ImportFits, StoryByIdentity, StoryPhases
<1>4. Ok(q) => /\ q.id \in Live(stories)
               /\ i.cfg.source = Markdown => stories[q.id].key = is.key
               /\ i.cfg.source # Markdown => /\ stories[q.id].source = i.cfg.source
                                             /\ stories[q.id].ext = is.ext
  BY <1>2, LookupsFind
<1>5. PICK t :
        /\ Reads(t)
        /\ \/ t = NextStory(p, i, "fail")
           \/ /\ Ok(q) /\ ~KeyTakenByRemote(i.cfg, stories[q.id])
              /\ t = [imp EXCEPT ![p].pc = "storyWrite", ![p].id = q.id, ![p].row = stories[q.id]]
           \/ /\ i.cfg.source = Markdown
              /\ t = [imp EXCEPT ![p].pc = "storyWrite", ![p].key = is.key]
           \/ /\ i.cfg.source # Markdown
              /\ t = [imp EXCEPT ![p].pc = "storyKey", ![p].key = is.key]
  BY <1>1, <1>2 DEF StoryByIdentity
<1>6. CASE t = NextStory(p, i, "fail")
  BY <1>1, <1>3, <1>5, <1>6, StorySkipKeeps
<1>7. CASE /\ Ok(q) /\ ~KeyTakenByRemote(i.cfg, stories[q.id])
           /\ t = [imp EXCEPT ![p].pc = "storyWrite", ![p].id = q.id, ![p].row = stories[q.id]]
  <2>1. PICK id, row : id = q.id /\ row = stories[q.id]
    OBVIOUS
  <2>2. t = [imp EXCEPT ![p].pc = "storyWrite", ![p].id = id, ![p].row = row]
    BY <1>7, <2>1
  <2>3. DOMAIN t = Imports /\ \A r \in Imports \ {p} : t[r] = imp[r]
    BY <1>3, <2>2
  <2>4. PICK j : j = t[p]
    OBVIOUS
  <2>5. j = [i EXCEPT !.pc = "storyWrite", !.id = id, !.row = row]
    BY <1>1, <1>3, <2>2, <2>4
  <2>6. Carries(i, j) /\ j.pc = "storyWrite" /\ j.id = id /\ j.row = row
    BY <1>3, <2>5 DEF Carries, ImportColumns
  <2>7. id \in Live(stories) /\ id \in DOMAIN stories /\ StoryRow(row) /\ row = stories[id]
    BY <1>4, <1>7, <2>1 DEF ImportInv, ProjectFits, StoriesFit, Live
  <2>8. row.source = GitHub <=> i.cfg.source = GitHub
    BY <1>3, <1>4, <1>7, <2>1, <2>7, Apostrophes DEF KeyTakenByRemote
  <2>9. Identity(i.cfg, is, row)
    BY <1>4, <1>7, <2>1 DEF Identity
  <2>10. ViewFits(stories, j)
    BY <1>3, <2>6, <2>7, <2>8, LiveEpics DEF ViewFits, ImportInv, ProjectFits, StoriesFit, Carries
  <2>11. Found(stories, j)
    BY <1>1, <2>6, <2>7, <2>9 DEF Found, Same, Carries
  <2>12. j.pc \in StoryPhases /\ j.pc \notin {"story", "storyKey"}
    BY <2>6 DEF StoryPhases
  <2> QED BY <1>1, <1>3, <1>5, <2>3, <2>4, <2>6, <2>10, <2>11, <2>12, StoryReadKeeps
<1>8. CASE /\ i.cfg.source = Markdown
           /\ t = [imp EXCEPT ![p].pc = "storyWrite", ![p].key = is.key]
  <2>1. PICK k : k = is.key
    OBVIOUS
  <2>2. t = [imp EXCEPT ![p].pc = "storyWrite", ![p].key = k]
    BY <1>8, <2>1
  <2>3. DOMAIN t = Imports /\ \A r \in Imports \ {p} : t[r] = imp[r]
    BY <1>3, <2>2
  <2>4. PICK j : j = t[p]
    OBVIOUS
  <2>5. j = [i EXCEPT !.pc = "storyWrite", !.key = k]
    BY <1>1, <1>3, <2>2, <2>4
  <2>6. Carries(i, j) /\ j.pc = "storyWrite" /\ j.id = 0 /\ j.key = k
    BY <1>3, <2>5 DEF Carries, ImportColumns
  <2>7. ViewFits(stories, j)
    BY <1>1, <2>1, <2>6 DEF ViewFits, Carries
  <2>8. j.pc \in StoryPhases
    BY <2>6 DEF StoryPhases
  <2> QED BY <1>1, <1>3, <1>5, <2>3, <2>4, <2>6, <2>7, <2>8, StoryReadKeeps
<1>9. CASE /\ i.cfg.source # Markdown
           /\ t = [imp EXCEPT ![p].pc = "storyKey", ![p].key = is.key]
  <2>1. PICK k : k = is.key
    OBVIOUS
  <2>2. t = [imp EXCEPT ![p].pc = "storyKey", ![p].key = k]
    BY <1>9, <2>1
  <2>3. DOMAIN t = Imports /\ \A r \in Imports \ {p} : t[r] = imp[r]
    BY <1>3, <2>2
  <2>4. PICK j : j = t[p]
    OBVIOUS
  <2>5. j = [i EXCEPT !.pc = "storyKey", !.key = k]
    BY <1>1, <1>3, <2>2, <2>4
  <2>6. Carries(i, j) /\ j.pc = "storyKey" /\ j.id = 0 /\ j.cfg.source = GitHub
    BY <1>3, <1>9, <2>5 DEF Carries, ImportColumns
  <2>7. ViewFits(stories, j) /\ j.pc \in StoryPhases
    BY <2>6 DEF ViewFits, StoryPhases
  <2> QED BY <1>1, <1>3, <1>5, <2>3, <2>4, <2>6, <2>7, StoryReadKeeps
<1> QED BY <1>5, <1>6, <1>7, <1>8, <1>9

LEMMA ResolveKeyKeeps ==
  ASSUME ImportInv, NEW p \in Imports, ResolveKey(p), UNCHANGED run
  PROVE  ImportInv'
<1>1. PICK i : i = imp[p]
  OBVIOUS
<1>2. /\ DOMAIN i = ImportColumns /\ p \in DOMAIN imp /\ DOMAIN imp = Imports /\ i.pc = "storyKey"
      /\ i.id = 0 /\ i.cfg.source = GitHub /\ imp[p].pc \in StoryPhases
  BY <1>1 DEF ImportInv, Known, ImportFits, ResolveKey, StoryPhases
<1>3. PICK t, k : /\ Reads(t)
                  /\ \/ t = [imp EXCEPT ![p].pc = "storyWrite"]
                     \/ t = [imp EXCEPT ![p].key = k, ![p].n = imp[p].n + 1]
  BY DEF ResolveKey
<1>4. PICK m : m = imp[p].n + 1
  OBVIOUS
<1>5. PICK j : j = t[p]
  OBVIOUS
<1>6. /\ DOMAIN t = Imports /\ \A r \in Imports \ {p} : t[r] = imp[r]
      /\ j = [i EXCEPT !.pc = "storyWrite"] \/ j = [i EXCEPT !.key = k, !.n = m]
  BY <1>1, <1>2, <1>3, <1>4, <1>5
<1>7. Carries(i, j) /\ j.pc \in {"storyWrite", "storyKey"} /\ j.id = 0 /\ j.cfg.source = GitHub
  BY <1>2, <1>6 DEF Carries, ImportColumns
<1>8. ViewFits(stories, j) /\ j.pc \in StoryPhases
  BY <1>7, Apostrophes DEF ViewFits, StoryPhases
<1> QED BY <1>1, <1>2, <1>3, <1>5, <1>6, <1>7, <1>8, StoryReadKeeps

-----------------------------------------------------------------------------
(* What an import writes of a story.                                        *)

(* The rows of the items before it are other rows.                          *)
LEMMA OthersStay ==
  ASSUME NEW S, NEW R, NEW i, NEW items, Listing(items), Distinct(i.cfg.source, items),
         i.cfg.source \in {GitHub, Markdown}, Found(S, i),
         Live(R) = Live(S), \A k \in DOMAIN S \ {i.id} : R[k] = S[k],
         NEW n \in Nat, n < Len(items), NEW m \in 1..n, Head(i.stories) = items[n + 1],
         Arrived(S, i.cfg, items[m])
  PROVE  Arrived(R, i.cfg, items[m])
<1>1. Len(items) \in Nat /\ DOMAIN items = 1..Len(items)
  BY ListingFacts DEF Listing
<1>2. PICK a, b : a = items[m] /\ b = items[n + 1]
  OBVIOUS
<1>3. IF i.cfg.source = GitHub THEN a.ext # b.ext ELSE a.key # b.key
  <2>1. m \in DOMAIN items /\ n + 1 \in DOMAIN items /\ m # n + 1
    BY <1>1
  <2> QED BY <1>2, <2>1 DEF Distinct
<1>4. PICK r \in Live(S) : Imported(i.cfg, a, S[r])
  BY <1>2 DEF Arrived
<1>5. Identity(i.cfg, b, S[i.id])
  BY <1>2, SameImported DEF Found
<1>6. r # i.id
  BY <1>3, <1>4, <1>5, Apostrophes DEF Imported, Identity
<1>7. r \in Live(R) /\ R[r] = S[r]
  BY <1>4, <1>6 DEF Live
<1> QED BY <1>2, <1>4, <1>7 DEF Arrived

(* A parent that the source names is known by then.                         *)
Parent(i, is) == IF is.epic # Nil /\ is.epic \in DOMAIN i.epicOf THEN i.epicOf[is.epic] ELSE 0

LEMMA ParentKnown ==
  ASSUME NEW refs, NEW i, Linked(refs, i), ImportFits(i), i.pc = "storyWrite", ~i.cfg.dry,
         Nil \notin refs, NEW is, is.epic \in refs
  PROVE  Parent(i, is) # 0
<1>1. DOMAIN i.epics = {}
  BY NoListing, ListingFacts DEF ImportFits, StoryPhases, Listing
<1>2. is.epic \in DOMAIN i.epicOf /\ i.epicOf[is.epic] # 0
  BY <1>1 DEF Linked, StoryPhases
<1> QED BY <1>2 DEF Parent

LEMMA HashFields ==
  \A cfg, is : /\ CanonicalHash(cfg, is)[1] = is.title /\ CanonicalHash(cfg, is)[3] = is.epic
               /\ CanonicalHash(cfg, is) # NoHash
<1>1. \A a, b, c, d : <<a, b, c, d>>[1] = a /\ <<a, b, c, d>>[3] = c /\ <<a, b, c, d>> # <<>>
  OBVIOUS
<1> QED BY <1>1 DEF CanonicalHash, NoHash

(* The refs that count for a row depend on its side only.                   *)
LEMMA SidesCover ==
  ASSUME NEW a, NEW b, NEW B, NEW T, Covers(a, B, T), b.hash = a.hash, b.title = a.title,
         b.epic = a.epic, b.source = GitHub <=> a.source = GitHub
  PROVE  Covers(b, B, T)
<1>1. EpicRefs(b.source, B, T) = EpicRefs(a.source, B, T)
  BY DEF EpicRefs
<1> QED BY <1>1 DEF Covers

(* What the write of a story must achieve.                                  *)
Achieved(S, B, T, c, i, o, d) ==
    /\ StoriesFit(o.t) /\ Kin(S, o.t)
    /\ d => \A k \in Live(o.t) : Covers(o.t[k], B, T)
    /\ Alone(i) /\ Ok(o) =>
        /\ Arrived(o.t, i.cfg, Head(i.stories))
        /\ \A m, n \in Nat : /\ n < Len(Items(i.cfg.source, B, T)) /\ m \in 1..n
                             /\ Head(i.stories) = Items(i.cfg.source, B, T)[n + 1]
                             /\ Arrived(S, i.cfg, Items(i.cfg.source, B, T)[m])
                             => Arrived(o.t, i.cfg, Items(i.cfg.source, B, T)[m])

LEMMA CreateAchieves ==
  ASSUME NEW S, NEW E, NEW B, NEW T, NEW c, ProjectFits(S, E, B, T, c), NEW i, Known(S, B, T, c, i),
         i.pc = "storyWrite", ~i.cfg.dry, i.id = 0, NEW is, is = Head(i.stories),
         NEW s, s = NewStory(i.cfg, is, i.key, Parent(i, is)),
         NEW o, o = StoryRepoCreateFromImport(S, E, s), NEW d, d => c
  PROVE  Achieved(S, B, T, c, i, o, d)
<1>1. /\ StoriesFit(S) /\ BoardFits(B) /\ TextFits(T) /\ i.cfg.source \in {GitHub, Markdown}
      /\ i.cfg.source = Markdown => i.key = is.key
  BY DEF ProjectFits, Known, ImportFits, ViewFits
<1>2. PICK row : row = Created(s, s.source, s.ext, s.item, s.hash)
  OBVIOUS
<1>3. /\ DOMAIN row = StoryColumns /\ row.live = TRUE /\ row.source = i.cfg.source
      /\ row.ext = is.ext /\ row.key = i.key /\ row.title = is.title
      /\ row.hash = CanonicalHash(i.cfg, is) /\ row.epic = Parent(i, is)
  BY <1>2 DEF Created, NewStory, StoryColumns
<1>4. Inserts(o, S, row)
  BY <1>2, StatementsUpdate
<1>5. StoryRow(row) /\ row.live
  BY <1>1, <1>3, Apostrophes DEF StoryRow
<1>6. PICK R : R = o.t
  OBVIOUS
<1>7. /\ StoriesFit(R) /\ DOMAIN S \subseteq DOMAIN R /\ Live(S) \subseteq Live(R)
      /\ \A j \in DOMAIN S : R[j] = S[j]
      /\ Ok(o) => \E n \in Live(R) : R[n] = row /\ Live(R) = Live(S) \cup {n}
      /\ ~Ok(o) => R = S
  BY <1>1, <1>4, <1>5, <1>6, RowInserted
<1>8. Kin(S, R)
  BY <1>7 DEF Kin
<1>9. d => Covers(row, B, T)
  <2>1. Nil \notin EpicRefs(i.cfg.source, B, T)
    BY <1>1, Sources
  <2>2. d /\ is.epic \in EpicRefs(i.cfg.source, B, T) => Parent(i, is) # 0
    BY <2>1, ParentKnown DEF Known
  <2> QED BY <1>3, <2>2, HashFields DEF Covers
<1>10. d => \A k \in Live(R) : Covers(R[k], B, T)
  <2>1. \A k \in Live(S) : k \in DOMAIN S
    BY DEF Live
  <2>2. d => \A k \in Live(S) : Covers(S[k], B, T)
    BY DEF ProjectFits
  <2> QED BY <1>7, <1>9, <2>1, <2>2
<1>11. Ok(o) => Arrived(R, i.cfg, is)
  <2>1. Identity(i.cfg, is, row)
    BY <1>1, <1>3 DEF Identity
  <2>2. Imported(i.cfg, is, row)
    BY <1>3, <2>1 DEF Imported
  <2> QED BY <1>7, <2>2 DEF Arrived
<1>12. \A cfg, x : Arrived(S, cfg, x) => Arrived(R, cfg, x)
  BY <1>7 DEF Arrived, Live
<1> QED BY <1>6, <1>7, <1>8, <1>10, <1>11, <1>12 DEF Achieved

(* A row is rewritten.                                                      *)
LEMMA ChangeAchieves ==
  ASSUME NEW S, NEW E, NEW B, NEW T, NEW c, ProjectFits(S, E, B, T, c), NEW i, Known(S, B, T, c, i),
         i.pc = "storyWrite", ~i.cfg.dry, i.id # 0, NEW is, is = Head(i.stories),
         NEW o, NEW row, Updates(o, S, i.id, row), i.id \in Live(S) => StoryRow(row) /\ row.live,
         i.id \in Live(S) => (row.source = GitHub <=> i.cfg.source = GitHub),
         NEW d, d => c, d => Ok(o), d /\ i.id \in Live(S) => Covers(row, B, T),
         Found(S, i) => Imported(i.cfg, is, row)
  PROVE  Achieved(S, B, T, c, i, o, d)
<1>1. /\ StoriesFit(S) /\ BoardFits(B) /\ TextFits(T) /\ i.cfg.source \in {GitHub, Markdown}
      /\ i.id \in DOMAIN S
      /\ S[i.id].source = GitHub <=> i.cfg.source = GitHub
  BY DEF ProjectFits, Known, ImportFits, ViewFits
<1>2. PICK R : R = o.t
  OBVIOUS
<1>3. /\ StoriesFit(R) /\ DOMAIN R = DOMAIN S /\ Live(R) = Live(S)
      /\ \A j \in DOMAIN S \ {i.id} : R[j] = S[j]
      /\ Ok(o) => i.id \in Live(S) /\ R[i.id] = row
      /\ ~Ok(o) => R = S
  <2>1. ~Ok(o) => R = S
    BY <1>2 DEF Updates
  <2> QED BY <1>1, <1>2, <2>1, RowUpdated
<1>4. Kin(S, R)
  BY <1>1, <1>3 DEF Kin
<1>5. d => \A k \in Live(R) : Covers(R[k], B, T)
  <2>1. \A k \in Live(S) : k \in DOMAIN S
    BY DEF Live
  <2>2. d => \A k \in Live(S) : Covers(S[k], B, T)
    BY DEF ProjectFits
  <2> QED BY <1>3, <2>1, <2>2
<1>6. Alone(i) => Found(S, i)
  BY DEF Known, Progress, StoryPhases
<1>7. Alone(i) /\ Ok(o) => Arrived(R, i.cfg, is)
  BY <1>3, <1>6 DEF Arrived
<1>8. PICK items : items = Items(i.cfg.source, B, T)
  OBVIOUS
<1>9. Listing(items) /\ Distinct(i.cfg.source, items)
  BY <1>1, <1>8, Sources
<1>10. ASSUME Alone(i), Ok(o), NEW m \in Nat, NEW n \in Nat, n < Len(items), m \in 1..n,
              Head(i.stories) = items[n + 1], Arrived(S, i.cfg, items[m])
       PROVE  Arrived(R, i.cfg, items[m])
  BY <1>1, <1>3, <1>6, <1>9, <1>10, OthersStay
<1> QED BY <1>2, <1>3, <1>4, <1>5, <1>7, <1>8, <1>10 DEF Achieved

LEMMA UpdateAchieves ==
  ASSUME NEW S, NEW E, NEW B, NEW T, NEW c, ProjectFits(S, E, B, T, c), NEW i, Known(S, B, T, c, i),
         i.pc = "storyWrite", ~i.cfg.dry, i.id # 0, NEW is, is = Head(i.stories),
         NEW s, s = Merged(i.cfg, is, i.row, Parent(i, is)),
         NEW o, o = StoryRepoUpdateFromImport(S, E, i.id, s), NEW d, d => c /\ Ok(o)
  PROVE  Achieved(S, B, T, c, i, o, d)
<1>1. /\ StoriesFit(S) /\ BoardFits(B) /\ TextFits(T) /\ i.cfg.source \in {GitHub, Markdown}
      /\ i.id \in DOMAIN S /\ StoryRow(i.row) /\ StoryRow(S[i.id])
  BY DEF ProjectFits, Known, ImportFits, ViewFits, StoriesFit
<1>2. PICK r, old : r = i.row /\ old = S[i.id]
  OBVIOUS
<1>3. PICK e : e = IF r.epic = 0 THEN Parent(i, is) ELSE r.epic
  OBVIOUS
<1>4. /\ s.title = is.title /\ s.source = i.cfg.source /\ s.ext = is.ext
      /\ s.hash = CanonicalHash(i.cfg, is) /\ s.epic = e
  <2>1. DOMAIN r = StoryColumns
    BY <1>1, <1>2 DEF StoryRow
  <2> QED BY <1>2, <1>3, <2>1 DEF Merged, StoryColumns
<1>5. PICK row : row = FromImport(old, s)
  OBVIOUS
<1>6. /\ DOMAIN row = StoryColumns /\ row.live = old.live /\ row.key = old.key
      /\ row.title = s.title /\ row.source = s.source /\ row.ext = s.ext
      /\ row.hash = s.hash /\ row.epic = s.epic
  <2>1. DOMAIN old = StoryColumns
    BY <1>1, <1>2 DEF StoryRow
  <2> QED BY <1>5, <2>1 DEF FromImport, StoryColumns
<1>7. Updates(o, S, i.id, row)
  BY <1>2, <1>5, StatementsUpdate
<1>8. StoryRow(row) /\ (i.id \in Live(S) => row.live)
  BY <1>1, <1>2, <1>4, <1>6, Apostrophes DEF StoryRow, Live
<1>9. d => Covers(row, B, T)
  <2>1. Nil \notin EpicRefs(i.cfg.source, B, T)
    BY <1>1, Sources
  <2>2. d /\ is.epic \in EpicRefs(i.cfg.source, B, T) => Parent(i, is) # 0
    BY <2>1, ParentKnown DEF Known
  <2> QED BY <1>3, <1>4, <1>6, <2>2, HashFields DEF Covers
<1>10. Found(S, i) => Imported(i.cfg, is, row)
  <2>1. Found(S, i) => old.key = r.key
    BY <1>2 DEF Found, Same, StoryColumns
  <2>2. Found(S, i) => Identity(i.cfg, is, row)
    BY <1>2, <1>4, <1>6, <2>1 DEF Found, Identity
  <2> QED BY <1>4, <1>6, <2>2 DEF Imported
<1>11. row.source = GitHub <=> i.cfg.source = GitHub
  BY <1>4, <1>6
<1> QED BY <1>7, <1>8, <1>9, <1>10, <1>11, ChangeAchieves

LEMMA ProvenanceAchieves ==
  ASSUME NEW S, NEW E, NEW B, NEW T, NEW c, ProjectFits(S, E, B, T, c), NEW i, Known(S, B, T, c, i),
         i.pc = "storyWrite", ~i.cfg.dry, i.id # 0, NEW is, is = Head(i.stories), NEW s,
         \/ Locked(i.row) /\ s = Provenance(i.cfg, is, i.row)
         \/ /\ s = [i.row EXCEPT !.item = is.item] /\ ~Locked(i.row) /\ i.cfg.source = GitHub
            /\ i.row.hash = CanonicalHash(i.cfg, is),
         NEW o, o = StoryRepoUpdateProvenanceOnly(S, i.id, s),
         NEW d, d => c /\ Ok(o) /\ o.t[i.id].title = S[i.id].title
  PROVE  Achieved(S, B, T, c, i, o, d)
<1>1. /\ StoriesFit(S) /\ i.cfg.source \in {GitHub, Markdown}
      /\ i.id \in DOMAIN S /\ StoryRow(i.row) /\ StoryRow(S[i.id])
      /\ i.row.source = GitHub <=> i.cfg.source = GitHub
      /\ S[i.id].source = GitHub <=> i.cfg.source = GitHub
  BY DEF ProjectFits, Known, ImportFits, ViewFits, StoriesFit
<1>2. PICK r, old : r = i.row /\ old = S[i.id]
  OBVIOUS
<1>3. DOMAIN r = StoryColumns /\ DOMAIN old = StoryColumns
  BY <1>1, <1>2 DEF StoryRow
<1>4. \/ Locked(r) /\ s.title = is.title /\ s.source = i.cfg.source /\ s.ext = is.ext
      \/ /\ ~Locked(r) /\ s.title = r.title /\ s.source = r.source /\ s.ext = r.ext
         /\ r.hash = CanonicalHash(i.cfg, is) /\ r.source = GitHub /\ i.cfg.source = GitHub
  BY <1>1, <1>2, <1>3 DEF Provenance, StoryColumns
<1>5. PICK row : row = OfOrigin(old, s)
  OBVIOUS
<1>6. /\ DOMAIN row = StoryColumns /\ row.live = old.live /\ row.key = old.key
      /\ row.title = s.title /\ row.source = s.source /\ row.ext = s.ext
      /\ row.hash = old.hash /\ row.epic = old.epic /\ row.status = old.status
      /\ row.stage = old.stage
  BY <1>3, <1>5 DEF OfOrigin, StoryColumns
<1>7. Updates(o, S, i.id, row)
  BY <1>2, <1>5, StatementsUpdate
<1>8. row.source \in {GitHub, Markdown} /\ (row.source = GitHub <=> i.cfg.source = GitHub)
  BY <1>1, <1>4, <1>6
<1>9. StoryRow(row) /\ (i.id \in Live(S) => row.live)
  BY <1>1, <1>2, <1>6, <1>8, Apostrophes DEF StoryRow, Live
<1>10. d /\ i.id \in Live(S) => Covers(row, B, T)
  <2>1. d => row.title = old.title
    <3>1. Ok(o) => o.t[i.id] = row
      BY <1>1, <1>7, <1>9, RowUpdated
    <3> QED BY <1>2, <3>1
  <2>2. d /\ i.id \in Live(S) => Covers(old, B, T)
    BY <1>2 DEF ProjectFits
  <2>3. row.source = GitHub <=> old.source = GitHub
    BY <1>1, <1>2, <1>8
  <2> QED BY <1>6, <2>1, <2>2, <2>3, SidesCover
<1>11. Found(S, i) => Imported(i.cfg, is, row)
  <2>1. Found(S, i) => /\ old.key = r.key /\ old.hash = r.hash /\ old.status = r.status
                       /\ old.stage = r.stage
    BY <1>2 DEF Found, Same, StoryColumns
  <2>2. Found(S, i) => (Locked(row) <=> Locked(r))
    BY <1>6, <2>1 DEF Locked
  <2>3. Found(S, i) => Identity(i.cfg, is, row)
    BY <1>1, <1>2, <1>4, <1>6, <2>1, Apostrophes DEF Found, Identity
  <2> QED BY <1>4, <1>6, <2>1, <2>2, <2>3 DEF Imported
<1> QED BY <1>7, <1>8, <1>9, <1>10, <1>11, ChangeAchieves

(* A row that is left alone is the item's already.                          *)
LEMMA SkipArrived ==
  ASSUME NEW S, NEW E, NEW B, NEW T, NEW c, ProjectFits(S, E, B, T, c), NEW i, Known(S, B, T, c, i),
         i.pc = "storyWrite", i.id # 0, NEW is, is = Head(i.stories), Alone(i),
         StoryDecision(i.cfg, is, i.row) \in {"skip", "lock"}
  PROVE  Arrived(S, i.cfg, is)
<1>1. PICK r : r = i.row
  OBVIOUS
<1>2. /\ StoryRow(r) /\ i.cfg.source \in {GitHub, Markdown}
      /\ r.source = GitHub <=> i.cfg.source = GitHub
  BY <1>1 DEF Known, ImportFits, ViewFits
<1>3. Found(S, i)
  BY DEF Known, Progress, StoryPhases
<1>4. Identity(i.cfg, is, r) /\ Same(r, S[i.id]) /\ i.id \in Live(S)
  BY <1>1, <1>3 DEF Found
<1>5. \/ Locked(r) /\ r.title = is.title /\ r.source = i.cfg.source
      \/ ~Locked(r) /\ r.hash = CanonicalHash(i.cfg, is)
  <2>1. CASE Locked(r)
    <3>1. Provenance(i.cfg, is, r) = r
      BY <1>1, <2>1 DEF StoryDecision
    <3>2. Provenance(i.cfg, is, r).title = is.title /\ Provenance(i.cfg, is, r).source = i.cfg.source
      BY <1>2 DEF Provenance, StoryRow, StoryColumns
    <3> QED BY <2>1, <3>1, <3>2
  <2>2. CASE ~Locked(r)
    BY <1>1, <2>2 DEF StoryDecision
  <2> QED BY <2>1, <2>2
<1>6. r.source = i.cfg.source
  <2>1. r.hash = CanonicalHash(i.cfg, is) => r.source # "manual"
    BY <1>2, HashFields DEF StoryRow
  <2> QED BY <1>2, <1>5, <2>1, Apostrophes DEF StoryRow
<1>7. Imported(i.cfg, is, r)
  BY <1>4, <1>5, <1>6 DEF Imported
<1> QED BY <1>4, <1>7, SameImported DEF Arrived

LEMMA StoryWriteKeeps ==
  ASSUME ImportInv, NEW p \in Imports, StoryWrite(p), UNCHANGED run
  PROVE  ImportInv'
<1>1. PICK i, is : i = imp[p] /\ is = Head(i.stories)
  OBVIOUS
<1>2. /\ Known(stories, board, text, clean, i) /\ i.pc = "storyWrite" /\ i.pc \in StoryPhases
      /\ p \in DOMAIN imp /\ ProjectFits(stories, epics, board, text, clean)
  BY <1>1 DEF ImportInv, StoryWrite, StoryPhases
<1>3. PICK act : act = IF i.id = 0 THEN "create" ELSE StoryDecision(i.cfg, is, i.row)
  OBVIOUS
<1>4. PICK o : o = CASE act = "create" ->
                            StoryRepoCreateFromImport(stories, epics, NewStory(i.cfg, is, i.key, Parent(i, is)))
                     [] act = "update" ->
                            StoryRepoUpdateFromImport(stories, epics, i.id, Merged(i.cfg, is, i.row, Parent(i, is)))
                     [] act = "refresh" ->
                            StoryRepoUpdateProvenanceOnly(stories, i.id, Provenance(i.cfg, is, i.row))
                     [] act = "backfill" ->
                            StoryRepoUpdateProvenanceOnly(stories, i.id, [i.row EXCEPT !.item = is.item])
                     [] OTHER -> Outcome(stories, i.id, "ok")
  OBVIOUS
<1>5. IF i.cfg.dry \/ act \in {"skip", "lock"}
      THEN Reads(NextStory(p, i, act))
      ELSE /\ stories' = o.t
           /\ Writes(p, o, NextStory(p, i, IF Ok(o) THEN act ELSE "fail"),
                     act \in {"refresh", "backfill"} /\ Retitled(o.t, i.id))
           /\ epics' = epics
  BY <1>1, <1>3, <1>4 DEF StoryWrite, Parent
<1>6. StoryDecision(i.cfg, is, i.row) \in {"skip", "lock", "refresh", "update", "backfill"}
  BY DEF StoryDecision
<1>7. CASE i.cfg.dry \/ act \in {"skip", "lock"}
  <2>1. Alone(i) => Arrived(stories, i.cfg, is)
    <3>1. Alone(i) => i.id # 0 /\ act = StoryDecision(i.cfg, is, i.row) /\ act \in {"skip", "lock"}
      BY <1>3, <1>7 DEF Alone
    <3> QED BY <1>1, <1>2, <3>1, SkipArrived
  <2> QED BY <1>1, <1>2, <1>5, <1>7, <2>1, StorySkipKeeps
<1>8. CASE ~i.cfg.dry /\ act \notin {"skip", "lock"}
  <2>1. PICK why : why = IF Ok(o) THEN act ELSE "fail"
    OBVIOUS
  <2>2. PICK t : t = NextStory(p, i, why)
    OBVIOUS
  <2>3. /\ stories' = o.t /\ epics' = epics /\ imp' = Disturb(t, p) /\ board' = board /\ text' = text
        /\ clean' = (clean /\ Ok(o) /\ ~(act \in {"refresh", "backfill"} /\ Retitled(o.t, i.id)))
    BY <1>5, <1>8, <2>1, <2>2 DEF Writes
  <2>4. /\ clean' \in BOOLEAN
        /\ clean' => clean /\ Ok(o)
        /\ clean' /\ act \in {"refresh", "backfill"} => ~Retitled(o.t, i.id)
    BY <2>3
  <2>5. Achieved(stories, board, text, clean, i, o, clean')
    <3>1. CASE i.id = 0
      <4>1. act = "create"
        BY <1>3, <3>1
      <4>2. o = StoryRepoCreateFromImport(stories, epics, NewStory(i.cfg, is, i.key, Parent(i, is)))
        BY <1>4, <4>1
      <4> QED BY <1>1, <1>2, <1>8, <2>4, <3>1, <4>2, CreateAchieves
    <3>2. CASE i.id # 0 /\ act = "update"
      <4>1. o = StoryRepoUpdateFromImport(stories, epics, i.id, Merged(i.cfg, is, i.row, Parent(i, is)))
        BY <1>4, <3>2
      <4> QED BY <1>1, <1>2, <1>8, <2>4, <3>2, <4>1, UpdateAchieves
    <3>3. CASE i.id # 0 /\ act = "refresh"
      <4>1. o = StoryRepoUpdateProvenanceOnly(stories, i.id, Provenance(i.cfg, is, i.row))
        BY <1>4, <3>3
      <4>2. Locked(i.row)
        BY <1>3, <3>3 DEF StoryDecision
      <4>3. clean' => o.t[i.id].title = stories[i.id].title
        BY <1>2, <2>4, <3>3 DEF Retitled, Known, ViewFits
      <4> QED BY <1>1, <1>2, <1>8, <2>4, <3>3, <4>1, <4>2, <4>3, ProvenanceAchieves
    <3>4. CASE i.id # 0 /\ act = "backfill"
      <4>1. o = StoryRepoUpdateProvenanceOnly(stories, i.id, [i.row EXCEPT !.item = is.item])
        BY <1>4, <3>4
      <4>2. ~Locked(i.row) /\ i.row.hash = CanonicalHash(i.cfg, is) /\ is.item # Nil
        BY <1>3, <3>4 DEF StoryDecision
      <4>3. clean' => o.t[i.id].title = stories[i.id].title
        BY <1>2, <2>4, <3>4 DEF Retitled, Known, ViewFits
      <4>4. i.cfg.source = GitHub
        <5>1. /\ i.cfg.source \in {GitHub, Markdown} /\ Itemless(i.cfg.source, i.stories)
              /\ Listing(i.stories) /\ Len(i.stories) > 0
          BY <1>2 DEF Known, ImportFits
        <5>2. Head(i.stories) = i.stories[1] /\ Len(i.stories) \in Nat
          BY <5>1, TailListing
        <5>3. 1 \in DOMAIN i.stories
          BY <5>1, <5>2, ListingFacts DEF Listing
        <5> QED BY <1>1, <4>2, <5>1, <5>2, <5>3 DEF Itemless
      <4> QED BY <1>1, <1>2, <1>8, <2>4, <3>4, <4>1, <4>2, <4>3, <4>4, ProvenanceAchieves
    <3> QED BY <1>3, <1>6, <1>8, <3>1, <3>2, <3>3, <3>4
  <2>6. /\ StoriesFit(stories') /\ Kin(stories, stories')
        /\ clean' => \A k \in Live(stories') : Covers(stories'[k], board, text)
    BY <2>3, <2>5 DEF Achieved
  <2>7. ProjectFits(stories', epics', board, text, clean')
    BY <1>2, <2>3, <2>4, <2>6 DEF ProjectFits
  <2>8. Known(stories', board, text, clean', StoryDone(i, why))
    <3>1. why \notin {"fail", "SOURCE_ERROR"} => Ok(o)
      BY <2>1
    <3> QED BY <1>2, <2>3, <2>4, <2>5, <3>1, NextStoryKnown DEF Achieved
  <2>9. t[p] = StoryDone(i, why) /\ \A q \in Imports \ {p} : t[q] = imp[q]
    BY <1>2, <2>2 DEF NextStory, StoryDone, ImportInv
  <2> QED BY <2>3, <2>4, <2>6, <2>7, <2>8, <2>9, WriteKeeps
<1> QED BY <1>7, <1>8

LEMMA ItemFaultKeeps ==
  ASSUME ImportInv, NEW p \in Imports, ItemFault(p), UNCHANGED run
  PROVE  ImportInv'
<1>1. PICK i : i = imp[p]
  OBVIOUS
<1>2. Known(stories, board, text, clean, i) /\ p \in DOMAIN imp /\ DOMAIN imp = Imports
  BY <1>1 DEF ImportInv
<1>3. /\ stories' = stories /\ epics' = epics /\ board' = board /\ text' = text /\ run' = run
      /\ clean' = FALSE
  BY DEF ItemFault
<1>4. PICK j : imp' = [imp EXCEPT ![p] = j] /\ Known(stories, board, text, FALSE, j)
  <2>1. CASE i.pc \in EpicPhases
    <3>1. imp' = [imp EXCEPT ![p] = EpicDone(i, "fail")]
      BY <1>1, <2>1 DEF ItemFault, NextEpic, EpicDone, EpicPhases
    <3>2. Known(stories, board, text, FALSE, EpicDone(i, "fail"))
      BY <1>2, <2>1, NextEpicKnown
    <3> QED BY <3>1, <3>2
  <2>2. CASE i.pc \in StoryPhases
    <3>1. imp' = [imp EXCEPT ![p] = StoryDone(i, "fail")]
      BY <1>1, <2>2 DEF ItemFault, NextStory, StoryDone, StoryPhases
    <3>2. Known(stories, board, text, FALSE, StoryDone(i, "fail"))
      BY <1>2, <2>2, NextStoryKnown
    <3> QED BY <3>1, <3>2
  <2> QED BY <1>1, <2>1, <2>2 DEF ItemFault, EpicPhases, StoryPhases
<1>5. \A S, B, T, k : Known(S, B, T, clean, k) => Known(S, B, T, FALSE, k)
  BY DEF Known
<1>6. DOMAIN imp' = Imports /\ \A q \in Imports : Known(stories, board, text, FALSE, imp'[q])
  BY <1>2, <1>4, <1>5 DEF ImportInv
<1>7. ProjectFits(stories, epics, board, text, FALSE) /\ RunFits'
  BY <1>3 DEF ImportInv, ProjectFits, RunFits
<1> QED BY <1>3, <1>6, <1>7 DEF ImportInv

-----------------------------------------------------------------------------
(* The other writers.                                                       *)

LEMMA HandledAsAdmin ==
  ASSUME NEW S, NEW o, NEW n, n = 200 \/ n = 201 \/ n = 204, NEW r, r = Handle(S, "admin", o, n)
  PROVE  /\ r.t = IF Ok(o) THEN o.t ELSE S
         /\ n = 200 /\ r.status = 200 => Ok(o)
         /\ n = 200 /\ r.status # 200 => ~Ok(o)
<1>1. r = [t |-> IF Ok(o) THEN o.t ELSE S, status |-> Response(o, n)]
  BY DEF Handle, AsAdmin
<1>2. StatusOf(o.err) \in {404, 400, 409, 401, 403, 422, 500}
  BY DEF StatusOf
<1>3. r.t = (IF Ok(o) THEN o.t ELSE S) /\ r.status = Response(o, n)
  BY <1>1
<1> QED BY <1>2, <1>3 DEF Response

(* A row keeps what its hash covers.                                        *)
LEMMA ProjectUpdated ==
  ASSUME NEW S, NEW E, NEW B, NEW T, NEW c, ProjectFits(S, E, B, T, c), NEW o, NEW i, NEW row,
         Updates(o, S, i, row), NEW d \in BOOLEAN, d => c,
         i \in Live(S) => StoryRow(row) /\ row.live,
         i \in Live(S) => (row.source = GitHub <=> S[i].source = GitHub),
         d /\ i \in Live(S) => row.hash = S[i].hash /\ row.title = S[i].title /\ row.epic = S[i].epic
  PROVE  ProjectFits(o.t, E, B, T, d) /\ Kin(S, o.t)
<1>1. StoriesFit(S)
  BY DEF ProjectFits
<1>2. PICK R : R = o.t
  OBVIOUS
<1>3. /\ StoriesFit(R) /\ DOMAIN R = DOMAIN S /\ Live(R) = Live(S)
      /\ \A j \in DOMAIN S \ {i} : R[j] = S[j]
      /\ Ok(o) => i \in Live(S) /\ R[i] = row
      /\ ~Ok(o) => R = S
  <2>1. ~Ok(o) => R = S
    BY <1>2 DEF Updates
  <2> QED BY <1>1, <1>2, <2>1, RowUpdated
<1>4. Kin(S, R)
  BY <1>3 DEF Kin
<1>5. ASSUME d, NEW k \in Live(R) PROVE Covers(R[k], B, T)
  <2>1. k \in Live(S) /\ k \in DOMAIN S /\ Covers(S[k], B, T)
    BY <1>3, <1>5 DEF ProjectFits, Live
  <2>2. CASE R[k] = S[k]
    BY <2>1, <2>2
  <2>3. CASE R[k] # S[k]
    <3>1. k = i /\ Ok(o) /\ R[k] = row
      BY <1>3, <2>1, <2>3
    <3> QED BY <1>5, <2>1, <3>1, SidesCover
  <2> QED BY <2>2, <2>3
<1> QED BY <1>2, <1>3, <1>4, <1>5 DEF ProjectFits

LEMMA SavedRow ==
  ASSUME NEW row, StoryRow(row), NEW s
  PROVE  /\ StoryRow(Saved(row, s)) /\ Saved(row, s).live = row.live
         /\ Saved(row, s).source = row.source /\ Saved(row, s).hash = row.hash
         /\ Saved(row, s).title = Coalesce(s.title, row.title)
         /\ Saved(row, s).epic = IF s.epic = 0 THEN row.epic ELSE s.epic
<1>1. DOMAIN row = StoryColumns
  BY DEF StoryRow
<1>2. PICK new : new = Saved(row, s)
  OBVIOUS
<1>3. /\ DOMAIN new = StoryColumns /\ new.live = row.live /\ new.source = row.source
      /\ new.hash = row.hash /\ new.title = Coalesce(s.title, row.title)
      /\ new.epic = IF s.epic = 0 THEN row.epic ELSE s.epic
  BY <1>1, <1>2 DEF Saved, StoryColumns
<1> QED BY <1>2, <1>3 DEF StoryRow

LEMMA UpdateStoryStatusKeeps ==
  ASSUME ImportInv, UpdateStoryStatus
  PROVE  ImportInv'
<1>1. PICK i, s : i = run.story /\ s = [run.row EXCEPT !.status = run.target]
  OBVIOUS
<1>2. PICK o : o = StoryRepoUpdate(stories, epics, i, s)
  OBVIOUS
<1>3. /\ stories' = o.t /\ epics' = epics /\ board' = board /\ text' = text
      /\ IF Ok(o) THEN Foreign(TakesBack(run.row, i)) ELSE UNCHANGED <<imp, settled, clean>>
  BY <1>1, <1>2 DEF UpdateStoryStatus
<1>4. /\ DOMAIN run = {"pc", "story", "target", "row"} /\ DOMAIN run.row = StoryColumns
  BY DEF ImportInv, RunFits, UpdateStoryStatus
<1>5. RunFits'
  <2>1. PICK pc : pc = IF Ok(o) /\ run.target # "backlog" THEN "enqueue" ELSE AfterStatus(run.target)
    OBVIOUS
  <2>2. run' = [run EXCEPT !.row = NoRow, !.pc = pc]
    BY <1>1, <1>2, <2>1 DEF UpdateStoryStatus
  <2>3. pc # "save"
    BY <2>1 DEF AfterStatus
  <2>4. DOMAIN run' = {"pc", "story", "target", "row"} /\ run'.pc = pc
    BY <1>4, <2>2
  <2> QED BY <2>3, <2>4 DEF RunFits
<1>6. Updates(o, stories, i, Saved(stories[i], s))
  BY <1>2, StatementsUpdate
<1>7. ProjectFits(stories, epics, board, text, clean)
  BY DEF ImportInv
<1>8. CASE Ok(o)
  <2>1. imp' = Disturb(imp, 0) /\ clean' = (clean /\ ~TakesBack(run.row, i))
    BY <1>3, <1>8 DEF Foreign
  <2>2. clean' \in BOOLEAN /\ (clean' => clean /\ ~TakesBack(run.row, i))
    BY <2>1
  <2>3. s.title = run.row.title /\ s.epic = run.row.epic
    BY <1>1, <1>4 DEF StoryColumns
  <2>4. i \in Live(stories) => i \in DOMAIN stories /\ StoryRow(stories[i]) /\ stories[i].live
    BY <1>7 DEF ProjectFits, StoriesFit, Live
  <2>5. clean' /\ i \in Live(stories) => s.title = stories[i].title /\ s.epic = stories[i].epic
    BY <2>2, <2>3, <2>4 DEF TakesBack
  <2>6. PICK row : row = Saved(stories[i], s)
    OBVIOUS
  <2>7. /\ i \in Live(stories) => StoryRow(row) /\ row.live
        /\ i \in Live(stories) => (row.source = GitHub <=> stories[i].source = GitHub)
        /\ clean' /\ i \in Live(stories) =>
            row.hash = stories[i].hash /\ row.title = stories[i].title /\ row.epic = stories[i].epic
    BY <2>4, <2>5, <2>6, SavedRow DEF Coalesce
  <2>8. ProjectFits(stories', epics, board, text, clean') /\ Kin(stories, stories')
    BY <1>3, <1>6, <1>7, <2>2, <2>6, <2>7, ProjectUpdated
  <2> QED BY <1>3, <1>5, <2>1, <2>2, <2>8, ForeignKeeps
<1>9. CASE ~Ok(o)
  <2>1. stories' = stories
    BY <1>3, <1>6, <1>9 DEF Updates
  <2> QED BY <1>3, <1>5, <1>9, <2>1, MarkedKeeps
<1> QED BY <1>8, <1>9

LEMMA StoreStageKeeps ==
  ASSUME ImportInv, NEW stage, NEW pc, pc # "save", StoreStage(stage, pc)
  PROVE  ImportInv'
<1>1. PICK i, o : i = run.story /\ o = StoryRepoUpdateStage(stories, i, stage)
  OBVIOUS
<1>2. /\ stories' = o.t /\ epics' = epics /\ board' = board /\ text' = text
      /\ IF Ok(o) THEN Foreign(FALSE) ELSE UNCHANGED <<imp, settled, clean>>
  BY <1>1 DEF StoreStage
<1>3. RunFits'
  BY DEF StoreStage, ImportInv, RunFits
<1>4. PICK row : row = [stories[i] EXCEPT !.stage = stage]
  OBVIOUS
<1>5. Updates(o, stories, i, row)
  BY <1>1, <1>4, StatementsUpdate
<1>6. ProjectFits(stories, epics, board, text, clean)
  BY DEF ImportInv
<1>7. CASE Ok(o)
  <2>1. imp' = Disturb(imp, 0) /\ clean' = (clean /\ ~FALSE)
    BY <1>2, <1>7 DEF Foreign
  <2>2. clean' \in BOOLEAN /\ (clean' => clean)
    BY <2>1
  <2>3. i \in Live(stories) => i \in DOMAIN stories /\ StoryRow(stories[i]) /\ stories[i].live
    BY <1>6 DEF ProjectFits, StoriesFit, Live
  <2>4. i \in Live(stories) =>
            /\ DOMAIN row = StoryColumns /\ row.live = stories[i].live /\ row.hash = stories[i].hash
            /\ row.source = stories[i].source /\ row.title = stories[i].title
            /\ row.epic = stories[i].epic
    BY <1>4, <2>3 DEF StoryRow, StoryColumns
  <2>5. i \in Live(stories) => StoryRow(row) /\ row.live
    BY <2>3, <2>4 DEF StoryRow
  <2>6. ProjectFits(stories', epics, board, text, clean') /\ Kin(stories, stories')
    BY <1>2, <1>5, <1>6, <2>2, <2>4, <2>5, ProjectUpdated
  <2> QED BY <1>2, <1>3, <2>1, <2>2, <2>6, ForeignKeeps
<1>8. CASE ~Ok(o)
  <2>1. stories' = stories
    BY <1>2, <1>5, <1>8 DEF Updates
  <2> QED BY <1>2, <1>3, <1>8, <2>1, MarkedKeeps
<1> QED BY <1>7, <1>8

(* A user's write: nothing is clean any more.                               *)
LEMMA UserKeeps ==
  ASSUME ImportInv, UNCHANGED <<board, text, run>>, StoriesFit(stories'), Kin(stories, stories'),
         Listing(epics'), Foreign(TRUE)
  PROVE  ImportInv'
<1>1. imp' = Disturb(imp, 0) /\ clean' = (clean /\ ~TRUE)
  BY DEF Foreign
<1>2. clean' = FALSE
  BY <1>1
<1>3. board' = board /\ text' = text /\ run' = run
  OBVIOUS
<1>4. ProjectFits(stories', epics', board', text, clean')
  BY <1>2, <1>3 DEF ImportInv, ProjectFits
<1>5. RunFits'
  BY <1>3 DEF ImportInv, RunFits
<1> QED BY <1>1, <1>2, <1>3, <1>4, <1>5, ForeignKeeps

LEMMA TablesFitNow ==
  ASSUME ImportInv
  PROVE  /\ StoriesFit(stories) /\ Listing(epics) /\ Kin(stories, stories)
         /\ UNCHANGED run => RunFits'
BY KinSelf DEF ImportInv, ProjectFits, RunFits

(* A service that updates a story, or refuses.                              *)
LEMMA StorySaved ==
  ASSUME NEW S, StoriesFit(S), NEW E, NEW i, NEW row, NEW patch
  PROVE  LET o == StoryServiceSave(S, E, i, row, patch)
         IN StoriesFit(o.t) /\ Kin(S, o.t) /\ (~Ok(o) => o.t = S)
<1>1. PICK o : o = StoryServiceSave(S, E, i, row, patch)
  OBVIOUS
<1>2. PICK s : s = Patched(row, patch)
  OBVIOUS
<1>3. CASE o = Invalid(S)
  <2>1. o.t = S
    BY <1>3, OutcomeFields DEF Invalid, Refused
  <2> QED BY <1>1, <2>1, KinSelf
<1>4. CASE o # Invalid(S)
  <2>1. o = StoryRepoUpdate(S, E, i, s)
    BY <1>1, <1>2, <1>4 DEF StoryServiceSave
  <2>2. Updates(o, S, i, Saved(S[i], s))
    BY <2>1, StatementsUpdate
  <2>3. ~Ok(o) => o.t = S
    BY <2>2 DEF Updates
  <2>4. i \in Live(S) => StoryRow(S[i]) /\ S[i].live
    BY DEF StoriesFit, Live
  <2>5. PICK new : new = Saved(S[i], s)
    OBVIOUS
  <2>6. i \in Live(S) => StoryRow(new) /\ new.live /\ new.source = S[i].source
    BY <2>4, <2>5, SavedRow
  <2>7. /\ StoriesFit(o.t) /\ DOMAIN o.t = DOMAIN S
        /\ \A j \in DOMAIN S \ {i} : o.t[j] = S[j]
        /\ Ok(o) => i \in Live(S) /\ o.t[i] = new
    BY <2>2, <2>5, <2>6, RowUpdated
  <2>8. Kin(S, o.t)
    BY <2>3, <2>6, <2>7 DEF Kin
  <2> QED BY <1>1, <2>3, <2>7, <2>8
<1> QED BY <1>3, <1>4

LEMMA UserSavesKeeps ==
  ASSUME ImportInv, UserSaves
  PROVE  ImportInv'
<1>1. PICK o : o = StoryServiceSave(stories, epics, user.story, user.row, user.patch)
  OBVIOUS
<1>2. PICK r : r = Handle(stories, "admin", o, 200)
  OBVIOUS
<1>3. /\ stories' = r.t /\ epics' = epics /\ board' = board /\ text' = text /\ run' = run
      /\ IF r.status = 200 THEN Foreign(TRUE) ELSE UNCHANGED <<imp, settled, clean>>
  BY <1>1, <1>2 DEF UserSaves, UpdateStoryRequest, UserVars
<1>4. /\ r.t = (IF Ok(o) THEN o.t ELSE stories) /\ (r.status = 200 <=> Ok(o))
  BY <1>2, HandledAsAdmin
<1>5. /\ StoriesFit(stories) /\ Listing(epics) /\ Kin(stories, stories) /\ RunFits'
  BY <1>3, TablesFitNow
<1>6. StoriesFit(o.t) /\ Kin(stories, o.t)
  BY <1>1, <1>5, StorySaved
<1>7. CASE Ok(o)
  BY <1>3, <1>4, <1>5, <1>6, <1>7, UserKeeps
<1>8. CASE ~Ok(o)
  BY <1>3, <1>4, <1>5, <1>8, MarkedKeeps
<1> QED BY <1>7, <1>8

LEMMA ErasedRows ==
  ASSUME NEW S, StoriesFit(S), NEW i
  PROVE  StoriesFit(StoryRepoDelete(S, i).t) /\ Kin(S, StoryRepoDelete(S, i).t)
<1>1. PICK R : R = [j \in DOMAIN S |-> [S[j] EXCEPT !.live = S[j].live /\ j # i]]
  OBVIOUS
<1>2. StoryRepoDelete(S, i).t = R
  <2>1. PICK q : q = Outcome(R, i, "none")
    OBVIOUS
  <2>2. StoryRepoDelete(S, i) = RepoExec(q)
    BY <1>1, <2>1 DEF StoryRepoDelete, DeleteStory, Erase
  <2>3. q.t = R /\ DOMAIN q = {"t", "id", "err"}
    BY <2>1, OutcomeFields
  <2> QED BY <2>2, <2>3, RepoFields
<1>3. Fades(S, R)
  <2>1. DOMAIN R = DOMAIN S /\ R = [k \in DOMAIN S |-> R[k]]
    BY <1>1
  <2>2. ASSUME NEW k \in DOMAIN S, StoryRow(S[k])
        PROVE  /\ DOMAIN R[k] = StoryColumns /\ R[k].live = (S[k].live /\ k # i)
               /\ R[k].key = S[k].key /\ R[k].source = S[k].source /\ R[k].ext = S[k].ext
               /\ R[k].hash = S[k].hash
    <3>1. PICK b : b = (S[k].live /\ k # i)
      OBVIOUS
    <3>2. R[k] = [S[k] EXCEPT !.live = b] /\ DOMAIN S[k] = StoryColumns
      BY <1>1, <2>2, <3>1 DEF StoryRow
    <3> QED BY <3>1, <3>2 DEF StoryColumns
  <2>3. ASSUME NEW k \in DOMAIN S, StoryRow(S[k])
        PROVE  StoryRow(R[k]) /\ (R[k].live => S[k].live)
    BY <2>2, <2>3 DEF StoryRow
  <2> QED BY <2>1, <2>2, <2>3 DEF Fades
<1>4. Kin(S, R)
  BY <1>3 DEF Fades, Kin, StoriesFit
<1> QED BY <1>2, <1>3, <1>4, RowsFade

LEMMA UserDeletesKeeps ==
  ASSUME ImportInv, NEW i, UserDeletes(i)
  PROVE  ImportInv'
<1>1. PICK o : o = StoryServiceDelete(stories, i)
  OBVIOUS
<1>2. PICK r : r = Handle(stories, "admin", o, 204)
  OBVIOUS
<1>3. /\ stories' = r.t /\ epics' = epics /\ UNCHANGED <<board, text, run>> /\ Foreign(TRUE)
  BY <1>1, <1>2 DEF UserDeletes, DeleteStoryRequest, UserVars
<1>4. r.t = (IF Ok(o) THEN o.t ELSE stories)
  BY <1>2, HandledAsAdmin
<1>5. StoriesFit(stories) /\ Listing(epics) /\ Kin(stories, stories)
  BY TablesFitNow
<1>6. Ok(o) => o = StoryRepoDelete(stories, i)
  BY <1>1 DEF StoryServiceDelete
<1>7. StoriesFit(r.t) /\ Kin(stories, r.t)
  BY <1>4, <1>5, <1>6, ErasedRows
<1> QED BY <1>3, <1>5, <1>7, UserKeeps

LEMMA UserDeletesEpicKeeps ==
  ASSUME ImportInv, NEW e, UserDeletesEpic(e)
  PROVE  ImportInv'
<1>1. PICK o : o = EpicServiceDelete(epics, e)
  OBVIOUS
<1>2. PICK r : r = Handle(epics, "admin", o, 204)
  OBVIOUS
<1>3. /\ epics' = r.t /\ stories' = OrphanStories(stories, e)
      /\ UNCHANGED <<board, text, run>> /\ Foreign(TRUE)
  BY <1>1, <1>2 DEF UserDeletesEpic, DeleteEpicRequest, UserVars
<1>4. StoriesFit(stories) /\ Listing(epics) /\ Kin(stories, stories)
  BY TablesFitNow
<1>5. Listing(r.t)
  <2>1. r.t = (IF Ok(o) THEN o.t ELSE epics)
    BY <1>2, HandledAsAdmin
  <2>2. Ok(o) => o = EpicRepoDelete(epics, e)
    BY <1>1 DEF EpicServiceDelete
  <2>3. Listing(EpicRepoDelete(epics, e).t)
    <3>1. PICK R : R = [j \in DOMAIN epics |-> [epics[j] EXCEPT !.live = epics[j].live /\ j # e]]
      OBVIOUS
    <3>2. PICK q : q = Outcome(R, e, "none")
      OBVIOUS
    <3>3. EpicRepoDelete(epics, e) = RepoExec(q)
      BY <3>1, <3>2 DEF EpicRepoDelete, DeleteEpic, Erase
    <3>4. q.t = R /\ DOMAIN q = {"t", "id", "err"}
      BY <3>2, OutcomeFields
    <3>5. PICK n \in Nat : DOMAIN epics = 1..n
      BY <1>4, ListingFacts DEF Listing
    <3>6. DOMAIN R = 1..n /\ R = [k \in 1..n |-> R[k]]
      BY <3>1, <3>5
    <3>7. Listing(R)
      BY <3>6, MappedListing
    <3> QED BY <3>3, <3>4, <3>7, RepoFields
  <2> QED BY <1>4, <2>1, <2>2, <2>3
<1>6. PICK R : R = OrphanStories(stories, e)
  OBVIOUS
<1>7. Fades(stories, R)
  <2>1. DOMAIN R = DOMAIN stories /\ R = [k \in DOMAIN stories |-> R[k]]
    BY <1>6 DEF OrphanStories
  <2>2. \A k \in DOMAIN stories : R[k] = stories[k] \/ R[k] = [stories[k] EXCEPT !.epic = 0]
    BY <1>6 DEF OrphanStories
  <2>3. ASSUME NEW k \in DOMAIN stories, StoryRow(stories[k])
        PROVE  /\ DOMAIN R[k] = StoryColumns /\ R[k].live = stories[k].live
               /\ R[k].key = stories[k].key /\ R[k].source = stories[k].source
               /\ R[k].ext = stories[k].ext /\ R[k].hash = stories[k].hash
    BY <2>2, <2>3 DEF StoryRow, StoryColumns
  <2>4. ASSUME NEW k \in DOMAIN stories, StoryRow(stories[k]) PROVE StoryRow(R[k])
    BY <2>3, <2>4 DEF StoryRow
  <2> QED BY <2>1, <2>3, <2>4 DEF Fades
<1>8. StoriesFit(R) /\ Kin(stories, R)
  BY <1>4, <1>7, RowsFade DEF Fades, Kin, StoriesFit
<1> QED BY <1>3, <1>5, <1>6, <1>8, UserKeeps

LEMMA UserCreatesKeeps ==
  ASSUME ImportInv, NEW s, UserCreates(s)
  PROVE  ImportInv'
<1>1. PICK o : o = StoryServiceCreate(stories, epics, s)
  OBVIOUS
<1>2. PICK r : r = Handle(stories, "admin", o, 201)
  OBVIOUS
<1>3. /\ stories' = r.t /\ epics' = epics /\ UNCHANGED <<board, text, run>> /\ Foreign(TRUE)
  BY <1>1, <1>2 DEF UserCreates, CreateStoryRequest, UserVars
<1>4. r.t = (IF Ok(o) THEN o.t ELSE stories)
  BY <1>2, HandledAsAdmin
<1>5. StoriesFit(stories) /\ Listing(epics) /\ Kin(stories, stories)
  BY TablesFitNow
<1>6. PICK w : w = WithStatus(s)
  OBVIOUS
<1>7. o = Invalid(stories) \/ o = StoryRepoCreate(stories, epics, w)
  BY <1>1, <1>6 DEF StoryServiceCreate
<1>8. CASE o = Invalid(stories)
  <2>1. o.t = stories
    BY <1>8, OutcomeFields DEF Invalid, Refused
  <2> QED BY <1>3, <1>4, <1>5, <2>1, UserKeeps
<1>9. CASE o = StoryRepoCreate(stories, epics, w)
  <2>1. PICK row : row = Created(w, "manual", Nil, Nil, NoHash)
    OBVIOUS
  <2>2. Inserts(o, stories, row)
    BY <1>9, <2>1, StatementsUpdate
  <2>3. DOMAIN row = StoryColumns /\ row.live = TRUE /\ row.source = "manual" /\ row.hash = NoHash
    BY <2>1 DEF Created, StoryColumns
  <2>4. StoryRow(row) /\ row.live
    BY <2>3 DEF StoryRow
  <2>5. /\ StoriesFit(o.t) /\ DOMAIN stories \subseteq DOMAIN o.t
        /\ \A j \in DOMAIN stories : o.t[j] = stories[j]
    BY <1>5, <2>2, <2>4, RowInserted
  <2>6. StoriesFit(r.t) /\ Kin(stories, r.t)
    BY <1>4, <1>5, <2>5 DEF Kin
  <2> QED BY <1>3, <1>5, <2>6, UserKeeps
<1> QED BY <1>7, <1>8, <1>9

LEMMA UserSavesEpicKeeps ==
  ASSUME ImportInv, UserSavesEpic
  PROVE  ImportInv'
<1>1. PICK o : o = EpicServiceSave(epics, user.story, user.row, user.patch)
  OBVIOUS
<1>2. PICK r : r = Handle(epics, "admin", o, 200)
  OBVIOUS
<1>3. /\ epics' = r.t /\ stories' = stories /\ UNCHANGED <<board, text, run>>
      /\ IF r.status = 200 THEN Foreign(TRUE) ELSE UNCHANGED <<imp, settled, clean>>
  BY <1>1, <1>2 DEF UserSavesEpic, UpdateEpicRequest, UserVars
<1>4. /\ r.t = (IF Ok(o) THEN o.t ELSE epics) /\ (r.status = 200 <=> Ok(o))
  BY <1>2, HandledAsAdmin
<1>5. /\ StoriesFit(stories) /\ Listing(epics) /\ Kin(stories, stories) /\ RunFits'
  BY <1>3, TablesFitNow
<1>6. CASE Ok(o)
  <2>1. PICK row : row = [user.row EXCEPT !.name = Coalesce(user.patch.name, @),
                                          !.status = Coalesce(user.patch.status, @)]
    OBVIOUS
  <2>2. o = EpicRepoUpdate(epics, user.story, row)
    BY <1>1, <1>6, <2>1, OutcomeFields DEF EpicServiceSave, Invalid, Refused, Ok
  <2>3. Listing(o.t)
    BY <1>5, <2>2, EpicStatements
  <2> QED BY <1>3, <1>4, <1>5, <1>6, <2>3, UserKeeps
<1>7. CASE ~Ok(o)
  BY <1>3, <1>4, <1>5, <1>7, MarkedKeeps
<1> QED BY <1>6, <1>7

LEMMA UserCreatesEpicKeeps ==
  ASSUME ImportInv, NEW e, UserCreatesEpic(e)
  PROVE  ImportInv'
<1>1. PICK o : o = EpicServiceCreate(epics, e)
  OBVIOUS
<1>2. PICK r : r = Handle(epics, "admin", o, 201)
  OBVIOUS
<1>3. /\ epics' = r.t /\ stories' = stories /\ UNCHANGED <<board, text, run>> /\ Foreign(TRUE)
  BY <1>1, <1>2 DEF UserCreatesEpic, CreateEpicRequest, UserVars
<1>4. r.t = (IF Ok(o) THEN o.t ELSE epics)
  BY <1>2, HandledAsAdmin
<1>5. StoriesFit(stories) /\ Listing(epics) /\ Kin(stories, stories)
  BY TablesFitNow
<1>6. Ok(o) => o = EpicRepoCreate(epics, WithStatus(e))
  BY <1>1, OutcomeFields DEF EpicServiceCreate, Invalid, Refused, Ok
<1>7. Listing(r.t)
  BY <1>4, <1>5, <1>6, EpicStatements
<1> QED BY <1>3, <1>5, <1>7, UserKeeps

-----------------------------------------------------------------------------
(* The board and the write-back.                                            *)

LEMMA MarkedStories ==
  ASSUME NEW S, NEW i, NEW w
  PROVE  Marks(S, StoryRepoSetWritebackStatus(S, i, w).t)
<1>1. PICK R : R = [j \in DOMAIN S |-> IF j = i THEN [S[j] EXCEPT !.wb = w] ELSE S[j]]
  OBVIOUS
<1>2. PICK q : q = Outcome(R, i, "none")
  OBVIOUS
<1>3. StoryRepoSetWritebackStatus(S, i, w) = RepoExec(q)
  BY <1>1, <1>2 DEF StoryRepoSetWritebackStatus, SetStoryWritebackStatus
<1>4. StoryRepoSetWritebackStatus(S, i, w).t = R
  BY <1>2, <1>3, OutcomeFields, RepoFields
<1> QED BY <1>1, <1>4 DEF Marks

(* Items are moved or renamed, one by one.                                  *)
Touched(B, C) ==
    /\ DOMAIN C = DOMAIN B /\ C = [k \in DOMAIN B |-> C[k]]
    /\ \A k \in DOMAIN B : \/ C[k] = B[k]
                           \/ \E f : C[k] = [B[k] EXCEPT !.fields = f]
                           \/ \E name : C[k] = [B[k] EXCEPT !.title = name]

LEMMA TouchedFits ==
  ASSUME NEW B, BoardFits(B), NEW C, Touched(B, C)
  PROVE  BoardFits(C)
<1>1. \A k \in DOMAIN B : /\ DOMAIN C[k] = ItemFields /\ C[k].id = B[k].id /\ C[k].kind = B[k].kind
                          /\ C[k].node = B[k].node
  <2>1. TAKE k \in DOMAIN B
  <2>2. DOMAIN B[k] = ItemFields
    BY DEF BoardFits
  <2>3. CASE C[k] = B[k]
    BY <2>2, <2>3
  <2>4. CASE \E f : C[k] = [B[k] EXCEPT !.fields = f]
    BY <2>2, <2>4 DEF ItemFields
  <2>5. CASE \E name : C[k] = [B[k] EXCEPT !.title = name]
    BY <2>2, <2>5 DEF ItemFields
  <2> QED BY <2>3, <2>4, <2>5 DEF Touched
<1>2. \A k \in DOMAIN B : ItemRef(C[k]) = ItemRef(B[k])
  BY <1>1 DEF ItemRef
<1>3. PICK n \in Nat : DOMAIN B = 1..n
  BY ListingFacts DEF BoardFits, Listing
<1>4. Listing(C)
  BY <1>3, MappedListing DEF Touched
<1> QED BY <1>1, <1>2, <1>4 DEF BoardFits, Touched

LEMMA BoardKeeps ==
  ASSUME ImportInv, Foreign(EpicsOn(board') # EpicsOn(board)), Touched(board, board'),
         UNCHANGED <<epics, text, run>>, stories' = stories \/ Marks(stories, stories')
  PROVE  ImportInv'
<1>1. imp' = Disturb(imp, 0) /\ clean' = (clean /\ ~(EpicsOn(board') # EpicsOn(board)))
  BY DEF Foreign
<1>2. clean' \in BOOLEAN /\ (clean' => clean) /\ (clean' => EpicsOn(board') = EpicsOn(board))
  BY <1>1
<1>3. epics' = epics /\ text' = text /\ RunFits'
  BY DEF ImportInv, RunFits
<1>4. /\ StoriesFit(stories') /\ Kin(stories, stories') /\ Live(stories') = Live(stories)
      /\ \A k \in DOMAIN stories : Same(stories[k], stories'[k])
  <2>1. CASE stories' = stories
    BY <2>1, TablesFitNow DEF Same
  <2>2. CASE Marks(stories, stories')
    BY <2>2, MarksKeep, TablesFitNow
  <2> QED BY <2>1, <2>2
<1>5. ASSUME clean', NEW k \in Live(stories') PROVE Covers(stories'[k], board', text)
  <2>1. k \in Live(stories) /\ Same(stories[k], stories'[k]) /\ Covers(stories[k], board, text)
    BY <1>2, <1>4, <1>5 DEF ImportInv, ProjectFits, Live
  <2>2. \A src : EpicRefs(src, board', text) = EpicRefs(src, board, text)
    BY <1>2, <1>5 DEF EpicRefs
  <2>3. /\ stories[k].hash = stories'[k].hash /\ stories[k].title = stories'[k].title
        /\ stories[k].source = stories'[k].source /\ stories[k].epic = stories'[k].epic
    BY <2>1 DEF Same, StoryColumns
  <2> QED BY <2>1, <2>2, <2>3 DEF Covers
<1>6. BoardFits(board')
  BY TouchedFits DEF ImportInv, ProjectFits
<1>7. ProjectFits(stories', epics', board', text, clean')
  BY <1>2, <1>3, <1>4, <1>5, <1>6 DEF ImportInv, ProjectFits
<1> QED BY <1>1, <1>2, <1>3, <1>4, <1>7, ForeignKeeps

LEMMA BoardEditedKeeps ==
  ASSUME ImportInv, NEW k \in DOMAIN board, BoardEdited(Renamed(k))
  PROVE  ImportInv'
<1>1. PICK C : C = Renamed(k)
  OBVIOUS
<1>2. /\ board' = C /\ Foreign(EpicsOn(C) # EpicsOn(board)) /\ stories' = stories
      /\ UNCHANGED <<epics, text, run>>
  BY <1>1 DEF BoardEdited
<1>3. C = [board EXCEPT ![k] = [board[k] EXCEPT !.title = "retitled"]]
  BY <1>1 DEF Renamed
<1>4. Touched(board, C)
  <2>1. PICK it : it = [board[k] EXCEPT !.title = "retitled"]
    OBVIOUS
  <2>2. C = [board EXCEPT ![k] = it]
    BY <1>3, <2>1
  <2>3. PICK n \in Nat : DOMAIN board = 1..n /\ board \in [1..n -> Range(board)]
    BY ListingFacts DEF ImportInv, ProjectFits, BoardFits, Listing
  <2>4. DOMAIN C = DOMAIN board /\ C[k] = it /\ \A m \in DOMAIN board \ {k} : C[m] = board[m]
    BY <2>2, <2>3
  <2>5. C = [m \in DOMAIN board |-> C[m]]
    BY <2>2, <2>3
  <2> QED BY <2>1, <2>4, <2>5 DEF Touched
<1> QED BY <1>2, <1>4, BoardKeeps

LEMMA OutcomeMarks ==
  ASSUME NEW j, NEW mark, NEW answer, NEW err
  PROVE  /\ RecordOutcome(j, mark) => stories' = stories \/ Marks(stories, stories')
         /\ AttemptFailed(j, answer, err) => stories' = stories \/ Marks(stories, stories')
         /\ Advance(j, mark) => stories' = stories
<1>1. \A m : RecordOutcome(j, m) => stories' = stories \/ Marks(stories, stories')
  BY MarkedStories DEF RecordOutcome
<1>2. Advance(j, mark) => stories' = stories
  BY DEF Advance
<1>3. ASSUME AttemptFailed(j, answer, err) PROVE stories' = stories \/ Marks(stories, stories')
  <2>1. CASE RetryLater(j)
    BY <2>1 DEF RetryLater
  <2>2. CASE stories' = StoryRepoSetWritebackStatus(stories, jobs[j].story, "failed").t
    BY <2>2, MarkedStories
  <2>3. CASE RecordOutcome(j, "failed")
    BY <1>1, <2>3
  <2> QED BY <1>3, <2>1, <2>2, <2>3 DEF AttemptFailed
<1> QED BY <1>1, <1>2, <1>3

LEMMA PushStatusKeeps ==
  ASSUME ImportInv, NEW j, PushStatus(j)
  PROVE  ImportInv'
<1>1. PICK C : C = SetField(board, jobs[j].item, jobs[j].option)
  OBVIOUS
<1>2. PICK answer, err :
        /\ board' = IF err \in {"ok", "lost"} THEN C ELSE board
        /\ IF board' # board THEN Foreign(EpicsOn(C) # EpicsOn(board)) ELSE UNCHANGED <<imp, settled, clean>>
        /\ RecordOutcome(j, "synced") \/ AttemptFailed(j, answer, err)
  BY <1>1 DEF PushStatus
<1>3. epics' = epics /\ text' = text /\ run' = run
  BY DEF PushStatus, WorkVars
<1>4. stories' = stories \/ Marks(stories, stories')
  BY <1>2, OutcomeMarks
<1>5. CASE board' = board
  <2>1. RunFits'
    BY <1>3, TablesFitNow
  <2> QED BY <1>2, <1>3, <1>4, <1>5, <2>1, MarkedKeeps
<1>6. CASE board' # board
  <2>1. board' = C /\ Foreign(EpicsOn(C) # EpicsOn(board))
    BY <1>2, <1>6
  <2>2. Touched(board, C)
    <3>1. DOMAIN C = DOMAIN board /\ C = [k \in DOMAIN board |-> C[k]]
      BY <1>1 DEF SetField
    <3>2. ASSUME NEW k \in DOMAIN board
          PROVE  C[k] = board[k] \/ \E f : C[k] = [board[k] EXCEPT !.fields = f]
      BY <1>1 DEF SetField
    <3> QED BY <3>1, <3>2 DEF Touched
  <2> QED BY <1>3, <1>4, <2>1, <2>2, BoardKeeps
<1> QED BY <1>5, <1>6

LEMMA EnqueueWriteBackKeeps ==
  ASSUME ImportInv, EnqueueWriteBack
  PROVE  ImportInv'
<1>1. /\ epics' = epics /\ board' = board /\ text' = text /\ clean' = clean /\ imp' = imp
      /\ run' = [run EXCEPT !.pc = AfterStatus(run.target)]
  BY DEF EnqueueWriteBack
<1>2. stories' = stories \/ Marks(stories, stories')
  BY MarkedStories DEF EnqueueWriteBack
<1>3. RunFits'
  <2>1. PICK pc : pc = AfterStatus(run.target)
    OBVIOUS
  <2>2. pc # "save"
    BY <2>1 DEF AfterStatus
  <2>3. DOMAIN run' = {"pc", "story", "target", "row"} /\ run'.pc = pc
    BY <1>1, <2>1 DEF ImportInv, RunFits
  <2> QED BY <2>2, <2>3 DEF RunFits
<1> QED BY <1>1, <1>2, <1>3, MarkedKeeps

LEMMA WriteBackStepKeeps ==
  ASSUME ImportInv, NEW j, WriteBackStep(j)
  PROVE  ImportInv'
<1>1. CASE PushStatus(j)
  BY <1>1, PushStatusKeeps
<1>2. ASSUME /\ UNCHANGED <<epics, board, text, clean, imp, run>>
             /\ stories' = stories \/ Marks(stories, stories')
      PROVE  ImportInv'
  <2>1. RunFits'
    BY <1>2, TablesFitNow
  <2> QED BY <1>2, <2>1, MarkedKeeps
<1>3. CASE SyncStatus(j)
  <2>1. UNCHANGED <<epics, board, text, clean, imp, run>>
    BY <1>3 DEF SyncStatus, WorkVars
  <2>2. stories' = stories \/ RecordOutcome(j, "disabled") \/ RecordOutcome(j, "failed")
    BY <1>3 DEF SyncStatus
  <2> QED BY <1>2, <2>1, <2>2, OutcomeMarks
<1>4. CASE FindBoard(j)
  <2>1. UNCHANGED <<epics, board, text, clean, imp, run>>
    BY <1>4 DEF FindBoard, WorkVars
  <2>2. \E answer, err : Advance(j, "field") \/ AttemptFailed(j, answer, err)
    BY <1>4 DEF FindBoard
  <2> QED BY <1>2, <2>1, <2>2, OutcomeMarks
<1>5. CASE StatusOptions(j)
  <2>1. UNCHANGED <<epics, board, text, clean, imp, run>>
    BY <1>5 DEF StatusOptions, WorkVars
  <2>2. \E answer, err : Advance(j, "push") \/ AttemptFailed(j, answer, err)
    BY <1>5 DEF StatusOptions
  <2> QED BY <1>2, <2>1, <2>2, OutcomeMarks
<1> QED BY <1>1, <1>3, <1>4, <1>5 DEF WriteBackStep

-----------------------------------------------------------------------------
(* The specification.                                                       *)

LEMMA PlanStays ==
  ASSUME ImportInv, UNCHANGED planVars, RunFits'
  PROVE  ImportInv'
BY MarkedKeeps DEF planVars

LEMMA LoadStatusKeeps ==
  ASSUME ImportInv, LoadStatus
  PROVE  ImportInv'
<1>1. PICK q : q = StoryRepoGetByID(stories, run.story)
  OBVIOUS
<1>2. Ok(q) => q.id \in Live(stories)
  <2>1. PICK g : g = GetStory(stories, run.story)
    OBVIOUS
  <2>2. DOMAIN g = {"t", "id", "err"} /\ (g.err = "none" => g.id \in Live(stories))
    BY <2>1, OutcomeFields DEF GetStory, Refused
  <2>3. q = Repo(g)
    BY <1>1, <2>1 DEF StoryRepoGetByID
  <2> QED BY <2>2, <2>3, RepoFields
<1>3. Ok(q) => DOMAIN stories[q.id] = StoryColumns
  BY <1>2 DEF ImportInv, ProjectFits, StoriesFit, StoryRow, Live
<1>4. DOMAIN run = {"pc", "story", "target", "row"}
  BY DEF ImportInv, RunFits
<1>5. RunFits'
  <2>1. CASE Ok(q)
    <3>1. run' = [run EXCEPT !.pc = "save", !.row = stories[q.id]]
      BY <1>1, <2>1 DEF LoadStatus
    <3> QED BY <1>3, <1>4, <2>1, <3>1 DEF RunFits
  <2>2. CASE ~Ok(q)
    <3>1. PICK pc : pc = AfterStatus(run.target)
      OBVIOUS
    <3>2. run' = [run EXCEPT !.pc = pc] /\ pc # "save"
      BY <1>1, <2>2, <3>1 DEF LoadStatus, AfterStatus
    <3> QED BY <1>4, <3>2 DEF RunFits
  <2> QED BY <2>1, <2>2
<1>6. UNCHANGED planVars
  BY DEF LoadStatus
<1> QED BY <1>5, <1>6, PlanStays

LEMMA ImportingKeeps ==
  ASSUME ImportInv, Importing
  PROVE  ImportInv'
<1>1. UNCHANGED run
  BY DEF Importing, writeVars
<1>2. PICK p \in Imports : Import(p) \/ ImportStep(p) \/ ItemFault(p)
  BY DEF Importing
<1>3. CASE Import(p)
  BY <1>1, <1>3, StartKeeps DEF Import
<1>4. CASE ItemFault(p)
  BY <1>1, <1>4, ItemFaultKeeps
<1>5. CASE ImportStep(p)
  BY <1>1, <1>5, ForKeeps, ResolveKeeps, FetchKeeps, EpicByRefKeeps, EpicByNameKeeps,
     EpicWriteKeeps, StoryByIdentityKeeps, ResolveKeyKeeps, StoryWriteKeeps DEF ImportStep
<1> QED BY <1>2, <1>3, <1>4, <1>5

LEMMA RunStepKeeps ==
  ASSUME ImportInv, RunStep
  PROVE  ImportInv'
<1>1. CASE EnterStage
  BY <1>1, StoreStageKeeps DEF EnterStage
<1>2. CASE ClearStage
  BY <1>2, StoreStageKeeps DEF ClearStage
<1>3. CASE \E t : RunEnds(t)
  <2>1. UNCHANGED planVars /\ RunFits'
    BY <1>3 DEF RunEnds, ImportInv, RunFits
  <2> QED BY <2>1, PlanStays
<1> QED BY <1>1, <1>2, <1>3, LoadStatusKeeps, UpdateStoryStatusKeeps, EnqueueWriteBackKeeps DEF RunStep

LEMMA EditingKeeps ==
  ASSUME ImportInv, Editing
  PROVE  ImportInv'
<1>1. ASSUME NEW i, NEW patch, UserReads(i, patch) \/ UserReadsEpic(i, patch)
      PROVE  ImportInv'
  <2>1. /\ UNCHANGED <<epics, board, text, clean, imp, run>> /\ stories' = stories
    BY <1>1 DEF UserReads, UserReadsEpic, UserVars
  <2>2. RunFits'
    BY <2>1, TablesFitNow
  <2> QED BY <2>1, <2>2, MarkedKeeps
<1> QED BY <1>1, UserDeletesKeeps, UserSavesKeeps, UserDeletesEpicKeeps, UserCreatesKeeps,
           UserSavesEpicKeeps, UserCreatesEpicKeeps, BoardEditedKeeps DEF Editing

LEMMA WritingKeeps ==
  ASSUME ImportInv, Writing
  PROVE  ImportInv'
<1>1. ASSUME NEW c, SetConnector("owner", c) PROVE ImportInv'
  <2>1. /\ UNCHANGED <<epics, board, text, clean, imp, run>> /\ stories' = stories
    BY <1>1 DEF SetConnector
  <2>2. RunFits'
    BY <2>1, TablesFitNow
  <2> QED BY <2>1, <2>2, MarkedKeeps
<1>2. ASSUME NEW i, LaunchStory(i) PROVE ImportInv'
  <2>1. /\ UNCHANGED <<epics, board, text, clean, imp>> /\ stories' = stories
        /\ run' = [NoRun EXCEPT !.pc = "load", !.story = i, !.target = "running"]
    BY <1>2 DEF LaunchStory
  <2>2. RunFits'
    BY <2>1 DEF RunFits, NoRun
  <2> QED BY <2>1, <2>2, MarkedKeeps
<1> QED BY <1>1, <1>2, RunStepKeeps, EditingKeeps, WriteBackStepKeeps DEF Writing

LEMMA ImportInvKept == ImportInv /\ [Next]_vars => ImportInv'
<1> SUFFICES ASSUME ImportInv, [Next]_vars PROVE ImportInv'
  OBVIOUS
<1>1. ASSUME UNCHANGED <<planVars, run>> PROVE ImportInv'
  <2>1. RunFits'
    BY <1>1, TablesFitNow
  <2> QED BY <1>1, <2>1, PlanStays
<1>2. CASE Requests
  BY <1>1, <1>2 DEF Requests, writeVars
<1>3. CASE GitWork
  BY <1>1, <1>3 DEF GitWork, writeVars
<1>4. CASE UNCHANGED vars
  BY <1>1, <1>4 DEF vars, writeVars
<1> QED BY <1>2, <1>3, <1>4, ImportingKeeps, WritingKeeps DEF Next

LEMMA ImportInvHolds == Init => ImportInv
<1> SUFFICES ASSUME Init PROVE ImportInv
  OBVIOUS
<1>1. PICK s \in Scenarios :
        /\ stories = s.stories /\ epics = s.epics /\ board = s.board /\ text = s.text
        /\ imp = [p \in Imports |-> IdleImport] /\ clean = TRUE /\ run = NoRun
  BY DEF Init
<1>2. ProjectFits(stories, epics, board, text, clean)
  <2>1. /\ Listing(s.stories) /\ Listing(s.epics) /\ Listing(s.board) /\ Listing(s.text)
    BY ProjectAssumption DEF Listing
  <2>2. StoriesFit(s.stories)
    BY <2>1, ProjectAssumption DEF StoriesFit, Live
  <2>3. BoardFits(s.board) /\ TextFits(s.text)
    BY <2>1, ProjectAssumption DEF BoardFits, TextFits
  <2>4. \A i \in Live(s.stories) : Covers(s.stories[i], s.board, s.text)
    BY ProjectAssumption DEF Live
  <2> QED BY <1>1, <2>1, <2>2, <2>3, <2>4 DEF ProjectFits
<1>3. Known(stories, board, text, clean, IdleImport)
  <2>1. /\ DOMAIN IdleImport = ImportColumns /\ IdleImport.pc = "idle"
        /\ IdleImport.epics = <<>> /\ IdleImport.stories = <<>> /\ IdleImport.log = <<>>
    BY DEF IdleImport, ImportColumns
  <2>2. ImportFits(IdleImport)
    BY <2>1, NoListing DEF ImportFits, Phases, EpicPhases, StoryPhases
  <2> QED BY <2>1, <2>2 DEF Known, ViewFits, Progress, Linked, EpicPhases, StoryPhases
<1>4. RunFits
  BY <1>1 DEF RunFits, NoRun
<1> QED BY <1>1, <1>2, <1>3, <1>4 DEF ImportInv

(* Two rows of one item would break an index of the table.                  *)
LEMMA OneRow ==
  ASSUME NEW S, StoriesFit(S), NEW cfg, cfg.source \in {GitHub, Markdown},
         NEW is, cfg.source = GitHub => is.ext # Nil,
         NEW r \in Live(S), Identity(cfg, is, S[r])
  PROVE  {i \in Live(S) : Identity(cfg, is, S[i])} = {r}
<1>1. ASSUME NEW i \in Live(S), Identity(cfg, is, S[i]) PROVE StoryClash(S[i], S[r])
  <2>1. CASE cfg.source = Markdown
    BY <1>1, <2>1 DEF Identity, StoryClash
  <2>2. CASE cfg.source = GitHub
    <3>1. S[i].source = GitHub /\ S[r].source = GitHub /\ S[i].ext = is.ext /\ S[r].ext = is.ext
      BY <1>1, <2>2, Apostrophes DEF Identity
    <3> QED BY <2>2, <3>1 DEF StoryClash, SameRef
  <2> QED BY <2>1, <2>2
<1>2. \A i \in Live(S) : Identity(cfg, is, S[i]) => i = r
  BY <1>1 DEF StoriesFit
<1> QED BY <1>2

LEMMA ConvergesNow == ImportInv => Converges
<1> SUFFICES ASSUME ImportInv, NEW p \in Imports, Undisturbed(imp[p]),
                    NEW k \in DOMAIN Source(imp[p].cfg).stories
             PROVE  LET cfg == imp[p].cfg
                        src == Source(cfg)
                        is == src.stories[k]
                        rows == {i \in Live(stories) : Identity(cfg, is, stories[i])}
                    IN /\ Cardinality(rows) = 1
                       /\ \A i \in rows :
                            /\ Locked(stories[i]) \/ stories[i].hash = CanonicalHash(cfg, is)
                            /\ clean => /\ stories[i].title = is.title
                                        /\ \/ Locked(stories[i]) \/ stories[i].epic # 0
                                           \/ \A e \in DOMAIN src.epics : src.epics[e].ext # is.epic
  BY DEF Converges
<1>1. PICK i, cfg : i = imp[p] /\ cfg = i.cfg
  OBVIOUS
<1>2. Known(stories, board, text, clean, i) /\ i.pc = "over" /\ Alone(i)
  BY <1>1 DEF ImportInv, Undisturbed, Alone
<1>3. cfg.source \in {GitHub, Markdown}
  BY <1>1, <1>2 DEF Known, ImportFits
<1>4. /\ StoriesFit(stories) /\ BoardFits(board) /\ TextFits(text)
      /\ clean => \A r \in Live(stories) : Covers(stories[r], board, text)
  BY DEF ImportInv, ProjectFits
<1>5. PICK items, groups : items = Items(cfg.source, board, text) /\ groups = Groups(cfg.source, board, text)
  OBVIOUS
<1>6. Source(cfg).stories = items /\ Source(cfg).epics = groups
  BY <1>5 DEF Source, FetchMarkdown, Items, Groups
<1>7. /\ Listing(items) /\ k \in DOMAIN items /\ (cfg.source = GitHub => items[k].ext # Nil)
      /\ EpicRefs(cfg.source, board, text) = {groups[e].ext : e \in DOMAIN groups}
  <2>1. PICK source \in {GitHub, Markdown} : source = cfg.source
    BY <1>3
  <2>2. k \in DOMAIN items
    BY <1>1, <1>6
  <2>3. /\ Listing(items) /\ (source = GitHub => items[k].ext # Nil)
        /\ EpicRefs(source, board, text) = {groups[e].ext : e \in DOMAIN groups}
    BY <1>4, <1>5, <2>1, <2>2, Sources
  <2> QED BY <2>1, <2>2, <2>3
<1>8. Arrived(stories, cfg, items[k])
  <2>1. PICK n \in 0..Len(items) :
            Rest(items, i.stories, n) /\ \A m \in 1..n : Arrived(stories, cfg, items[m])
    BY <1>1, <1>2, <1>5 DEF Known, Progress
  <2>2. Len(i.stories) = 0
    BY <1>2 DEF Known, Progress
  <2>3. Len(items) \in Nat /\ DOMAIN items = 1..Len(items) /\ k \in DOMAIN items
    BY <1>1, <1>6, <1>7, ListingFacts DEF Listing
  <2>4. n = Len(items)
    BY <2>1, <2>2, <2>3 DEF Rest
  <2> QED BY <2>1, <2>3, <2>4
<1>9. PICK is : is = items[k]
  OBVIOUS
<1>10. PICK r \in Live(stories) : Imported(cfg, is, stories[r])
  BY <1>8, <1>9 DEF Arrived
<1>11. PICK row : row = stories[r]
  OBVIOUS
<1>12. {l \in Live(stories) : Identity(cfg, is, stories[l])} = {r}
  BY <1>3, <1>4, <1>7, <1>9, <1>10, OneRow DEF Imported
<1>13. Cardinality({r}) = 1
  BY FS_Singleton
<1>14. Locked(row) \/ row.hash = CanonicalHash(cfg, is)
  BY <1>10, <1>11 DEF Imported
<1>15. ASSUME clean
       PROVE  /\ row.title = is.title
              /\ Locked(row) \/ row.epic # 0 \/ \A e \in DOMAIN groups : groups[e].ext # is.epic
  <2>1. CASE Locked(row)
    BY <1>10, <1>11, <2>1 DEF Imported
  <2>2. CASE ~Locked(row)
    <3>1. row.hash = CanonicalHash(cfg, is) /\ row.source = cfg.source
      BY <1>10, <1>11, <2>2 DEF Imported
    <3>2. Covers(row, board, text)
      BY <1>4, <1>11, <1>15
    <3>3. row.hash # NoHash /\ row.hash[1] = is.title /\ row.hash[3] = is.epic
      BY <3>1, HashFields
    <3>4. row.title = is.title /\ (is.epic \in EpicRefs(cfg.source, board, text) => row.epic # 0)
      BY <3>1, <3>2, <3>3 DEF Covers
    <3> QED BY <1>7, <3>4
  <2> QED BY <2>1, <2>2
<1> QED BY <1>1, <1>6, <1>9, <1>11, <1>12, <1>13, <1>14, <1>15

(* ImportsConverge: an import that ran alone and counted no failure leaves  *)
(* every story item of its source in exactly one row, whose hash is the     *)
(* item's unless a run holds it; and while the project is clean, the title  *)
(* is the item's too and a story whose parent was imported has an epic.     *)
(* That is For, Fetch, resolveStoryIdentity, resolveRemoteCreateKey, the    *)
(* decision on the row that was read and the partial writes, for any board  *)
(* and document that name an item once, any number of concurrent imports,   *)
(* and whatever users, runs and write-back jobs store between two of their  *)
(* statements.                                                              *)
THEOREM ImportsConverge == Spec => []Converges
<1>1. Init => ImportInv
  BY ImportInvHolds
<1>2. ImportInv /\ [Next]_vars => ImportInv'
  BY ImportInvKept
<1>3. ImportInv => Converges
  BY ConvergesNow
<1> QED BY <1>1, <1>2, <1>3, PTL DEF Spec
-----------------------------------------------------------------------------
(* The rows.                                                                *)

EpicsFit(E) ==
    /\ Listing(E) /\ \A e \in DOMAIN E : EpicFits(E[e])
    /\ \A e, k \in Live(E) : e # k => ~EpicClash(E[e], E[k])
RowsTyped(S, E) == \A i \in DOMAIN S : StoryFits(S[i], E)

(* What is remembered of a row is what a row may hold.                      *)
ImportHolds(i) ==
    /\ i.pc = "storyWrite" /\ i.id # 0 => i.row.status \in StoryStatuses
    /\ i.pc = "epicWrite" /\ i.id # 0 => i.row.status \in EpicStatuses
UserHolds ==
    /\ user.pc = "save" => DOMAIN user.row = StoryColumns /\ user.row.status \in StoryStatuses
    /\ user.pc = "save epic" => DOMAIN user.row = EpicColumns /\ user.row.status \in EpicStatuses
RunHolds == run.target \in StoryStatuses \cup {Nil}

QueueFits(Q) == Listing(Q) /\ \A j \in DOMAIN Q : DOMAIN Q[j] = JobColumns /\ JobFits(Q[j])

TablesInv ==
    /\ EpicsFit(epics) /\ RowsTyped(stories, epics)
    /\ \A p \in Imports : ImportHolds(imp[p])
    /\ UserHolds /\ RunHolds
BudgetInv == QueueFits(jobs) /\ left \in [Budgets -> Nat]
RowInv == ImportInv /\ TablesInv /\ BudgetInv

-----------------------------------------------------------------------------
(* The statements on epics.                                                 *)

LEMMA EpicClashSymmetric == \A a, b : EpicClash(a, b) <=> EpicClash(b, a)
  BY DEF EpicClash, SameRef

(* The epics that lived live on.                                            *)
EpicsKept(E, F) == EpicsFit(F) /\ Live(E) \subseteq Live(F)

LEMMA EpicRowInserted ==
  ASSUME NEW E, EpicsFit(E), NEW row, EpicFits(row), row.live
  PROVE  EpicsKept(E, Repo(Insert(E, row, EpicClash)).t)
<1>1. PICK q : q = Insert(E, row, EpicClash)
  OBVIOUS
<1>2. CASE \E k \in Live(E) : EpicClash(E[k], row)
  <2>1. q = Refused(E, "unique")
    BY <1>1, <1>2 DEF Insert
  <2>2. q.t = E /\ DOMAIN q = {"t", "id", "err"}
    BY <2>1, OutcomeFields DEF Refused
  <2> QED BY <1>1, <2>2, RepoFields DEF EpicsKept
<1>3. CASE ~\E k \in Live(E) : EpicClash(E[k], row)
  <2>1. PICK R, n : R = Append(E, row) /\ n = Len(E) + 1
    OBVIOUS
  <2>2. q = Outcome(R, n, "none")
    BY <1>1, <1>3, <2>1 DEF Insert
  <2>3. q.t = R /\ DOMAIN q = {"t", "id", "err"}
    BY <2>2, OutcomeFields
  <2>4. /\ Listing(R) /\ Len(E) \in Nat /\ DOMAIN E = 1..Len(E)
        /\ DOMAIN R = 1..(Len(E) + 1) /\ R[Len(E) + 1] = row
        /\ \A k \in DOMAIN E : R[k] = E[k]
    BY <2>1, AppendedListing DEF EpicsFit
  <2>5. DOMAIN R = DOMAIN E \cup {n} /\ n \notin DOMAIN E /\ R[n] = row
    BY <2>1, <2>4
  <2>6. Live(R) = Live(E) \cup {n} /\ Live(E) \subseteq DOMAIN E
    BY <2>4, <2>5 DEF Live
  <2>7. \A k \in DOMAIN R : EpicFits(R[k])
    BY <2>4, <2>5 DEF EpicsFit
  <2>8. \A e, k \in Live(R) : e # k => ~EpicClash(R[e], R[k])
    BY <1>3, <2>4, <2>5, <2>6, EpicClashSymmetric DEF EpicsFit
  <2>9. EpicsKept(E, R)
    BY <2>4, <2>6, <2>7, <2>8 DEF EpicsKept, EpicsFit
  <2> QED BY <1>1, <2>3, <2>9, RepoFields
<1> QED BY <1>2, <1>3

LEMMA EpicRowChanged ==
  ASSUME NEW E, EpicsFit(E), NEW i, NEW row, i \in Live(E) => EpicFits(row) /\ row.live,
         NEW q, q \in {Refused(E, "no_rows"), Change(E, i, row, EpicClash)}
  PROVE  EpicsKept(E, Repo(q).t)
<1>1. CASE \E err : q = Refused(E, err)
  <2>1. q.t = E /\ DOMAIN q = {"t", "id", "err"}
    BY <1>1, OutcomeFields DEF Refused
  <2> QED BY <2>1, RepoFields DEF EpicsKept
<1>2. CASE ~\E err : q = Refused(E, err)
  <2>1. PICK R : R = [E EXCEPT ![i] = row]
    OBVIOUS
  <2>2. /\ q = Outcome(R, i, "none") /\ i \in Live(E)
        /\ \A k \in Live(E) \ {i} : ~EpicClash(E[k], row)
    BY <1>2, <2>1 DEF Change
  <2>3. q.t = R /\ DOMAIN q = {"t", "id", "err"}
    BY <2>2, OutcomeFields
  <2>4. PICK n \in Nat : DOMAIN E = 1..n /\ E \in [1..n -> Range(E)]
    BY ListingFacts DEF EpicsFit, Listing
  <2>5. /\ DOMAIN R = DOMAIN E /\ R = [k \in 1..n |-> R[k]]
        /\ i \in DOMAIN E => R[i] = row
        /\ \A k \in DOMAIN E \ {i} : R[k] = E[k]
    BY <2>1, <2>4
  <2>6. Listing(R)
    BY <2>4, <2>5, MappedListing
  <2>7. i \in DOMAIN E /\ Live(R) = Live(E) /\ Live(E) \subseteq DOMAIN E
    BY <2>2, <2>5 DEF Live
  <2>8. \A k \in DOMAIN R : EpicFits(R[k])
    BY <2>2, <2>5, <2>7 DEF EpicsFit
  <2>9. \A e, k \in Live(R) : e # k => ~EpicClash(R[e], R[k])
    BY <2>2, <2>5, <2>7, EpicClashSymmetric DEF EpicsFit
  <2>10. EpicsKept(E, R)
    BY <2>6, <2>7, <2>8, <2>9 DEF EpicsKept, EpicsFit
  <2> QED BY <2>3, <2>10, RepoFields
<1> QED BY <1>1, <1>2

LEMMA EpicsKeptBy ==
  ASSUME NEW E, EpicsFit(E), NEW i, NEW e, e.status \in EpicStatuses
  PROVE  /\ EpicsKept(E, EpicRepoCreate(E, e).t) /\ EpicsKept(E, EpicRepoCreateFromImport(E, e).t)
         /\ EpicsKept(E, EpicRepoUpdate(E, i, e).t)
         /\ EpicsKept(E, EpicRepoUpdateFromImport(E, i, e).t)
<1>1. \A source, ext : EpicsKept(E, Repo(Insert(E, [live |-> TRUE, name |-> e.name, status |-> e.status,
                                        source |-> source, ext |-> ext], EpicClash)).t)
  <2>1. TAKE source, ext
  <2>2. PICK row : row = [live |-> TRUE, name |-> e.name, status |-> e.status,
                          source |-> source, ext |-> ext]
    OBVIOUS
  <2>3. DOMAIN row = EpicColumns /\ row.live = TRUE /\ row.status = e.status
    BY <2>2 DEF EpicColumns
  <2>4. EpicFits(row) /\ row.live
    BY <2>3 DEF EpicFits
  <2> QED BY <2>2, <2>4, EpicRowInserted
<1>2. i \in Live(E) => DOMAIN E[i] = EpicColumns /\ E[i].live = TRUE /\ E[i].status \in EpicStatuses
  BY DEF EpicsFit, EpicFits, Live
<1>3. EpicsKept(E, EpicRepoUpdate(E, i, e).t)
  <2>1. PICK row : row = [E[i] EXCEPT !.name = Coalesce(e.name, @), !.status = Coalesce(e.status, @)]
    OBVIOUS
  <2>2. UpdateEpic(E, i, e) \in {Refused(E, "no_rows"), Change(E, i, row, EpicClash)}
    BY <2>1 DEF UpdateEpic
  <2>3. i \in Live(E) => /\ DOMAIN row = EpicColumns /\ row.live = TRUE
                         /\ row.status = Coalesce(e.status, E[i].status)
    BY <1>2, <2>1 DEF EpicColumns
  <2>4. i \in Live(E) => EpicFits(row) /\ row.live
    BY <1>2, <2>3 DEF EpicFits, Coalesce
  <2> QED BY <2>2, <2>4, EpicRowChanged DEF EpicRepoUpdate
<1>4. EpicsKept(E, EpicRepoUpdateFromImport(E, i, e).t)
  <2>1. PICK row : row = [E[i] EXCEPT !.name = e.name, !.status = e.status,
                                      !.source = e.source, !.ext = e.ext]
    OBVIOUS
  <2>2. UpdateEpicFromImport(E, i, e) \in {Refused(E, "no_rows"), Change(E, i, row, EpicClash)}
    BY <2>1 DEF UpdateEpicFromImport
  <2>3. i \in Live(E) => DOMAIN row = EpicColumns /\ row.live = TRUE /\ row.status = e.status
    BY <1>2, <2>1 DEF EpicColumns
  <2>4. i \in Live(E) => EpicFits(row) /\ row.live
    BY <2>3 DEF EpicFits
  <2> QED BY <2>2, <2>4, EpicRowChanged DEF EpicRepoUpdateFromImport
<1> QED BY <1>1, <1>3, <1>4 DEF EpicRepoCreate, CreateEpic, EpicRepoCreateFromImport, CreateEpicFromImport

LEMMA RowsTypedStill ==
  ASSUME NEW S, NEW E, RowsTyped(S, E), NEW F, Live(E) \subseteq Live(F)
  PROVE  RowsTyped(S, F)
BY DEF RowsTyped, StoryFits

-----------------------------------------------------------------------------
(* The statements on stories.                                               *)

(* The foreign key.                                                         *)
LEMMA EpicChecked ==
  ASSUME NEW S, NEW E, NEW i, NEW s
  PROVE  /\ Ok(StoryRepoUpdate(S, E, i, s)) => s.epic \in Live(E) \cup {0}
         /\ Ok(StoryRepoUpdateFromImport(S, E, i, s)) => s.epic \in Live(E) \cup {0}
         /\ Ok(StoryRepoCreate(S, E, s)) => s.epic \in Live(E) \cup {0}
         /\ Ok(StoryRepoCreateFromImport(S, E, s)) => s.epic \in Live(E) \cup {0}
<1>1. \A o : Ok(WithEpic(S, E, s, o)) => s.epic \in Live(E) \cup {0}
  <2>1. TAKE o
  <2>2. CASE s.epic # 0 /\ s.epic \notin Live(E)
    <3>1. WithEpic(S, E, s, o) = Outcome(S, 0, "internal")
      BY <2>2 DEF WithEpic, Refused
    <3> QED BY <3>1, OutcomeFields DEF Ok
  <2> QED BY <2>2
<1> QED BY <1>1 DEF StoryRepoUpdate, StoryRepoUpdateFromImport, StoryRepoCreate, StoryRepoCreateFromImport

LEMMA RowChanged ==
  ASSUME NEW S, NEW E, RowsTyped(S, E), NEW o, NEW i, NEW row, Updates(o, S, i, row),
         Ok(o) /\ i \in Live(S) => StoryFits(row, E)
  PROVE  RowsTyped(o.t, E)
<1>1. CASE ~Ok(o)
  BY <1>1 DEF Updates
<1>2. CASE Ok(o)
  <2>1. PICK R : R = o.t
    OBVIOUS
  <2>2. R = [S EXCEPT ![i] = row] /\ i \in Live(S)
    BY <1>2, <2>1 DEF Updates
  <2>3. DOMAIN R = DOMAIN S /\ \A k \in DOMAIN S : R[k] = IF k = i THEN row ELSE S[k]
    BY <2>2
  <2> QED BY <1>2, <2>1, <2>2, <2>3 DEF RowsTyped
<1> QED BY <1>1, <1>2

LEMMA RowAdded ==
  ASSUME NEW S, Listing(S), NEW E, RowsTyped(S, E), NEW o, NEW row, Inserts(o, S, row),
         Ok(o) => StoryFits(row, E)
  PROVE  RowsTyped(o.t, E)
<1>1. CASE ~Ok(o)
  BY <1>1 DEF Inserts
<1>2. CASE Ok(o)
  <2>1. PICK R : R = o.t
    OBVIOUS
  <2>2. R = Append(S, row)
    BY <1>2, <2>1 DEF Inserts
  <2>3. /\ Len(S) \in Nat /\ DOMAIN S = 1..Len(S) /\ DOMAIN R = 1..(Len(S) + 1)
        /\ R[Len(S) + 1] = row /\ \A k \in DOMAIN S : R[k] = S[k]
    BY <2>2, AppendedListing
  <2>4. \A k \in DOMAIN R : k \in DOMAIN S \/ k = Len(S) + 1
    BY <2>3
  <2> QED BY <1>2, <2>1, <2>3, <2>4 DEF RowsTyped
<1> QED BY <1>1, <1>2

(* A row that was read is saved whole, with a status and an epic that fit.  *)
LEMMA SavedTyped ==
  ASSUME NEW S, StoriesFit(S), NEW E, RowsTyped(S, E), NEW i, NEW s,
         s.status \in StoryStatuses \cup {Nil}
  PROVE  RowsTyped(StoryRepoUpdate(S, E, i, s).t, E)
<1>1. PICK o : o = StoryRepoUpdate(S, E, i, s)
  OBVIOUS
<1>2. PICK row : row = Saved(S[i], s)
  OBVIOUS
<1>3. Updates(o, S, i, row) /\ (Ok(o) => s.epic \in Live(E) \cup {0})
  BY <1>1, <1>2, StatementsUpdate, EpicChecked
<1>4. i \in Live(S) => DOMAIN S[i] = StoryColumns /\ StoryFits(S[i], E)
  BY DEF StoriesFit, StoryRow, RowsTyped, Live
<1>5. i \in Live(S) => /\ row.status = Coalesce(s.status, S[i].status) /\ row.wb = S[i].wb
                       /\ row.epic = IF s.epic = 0 THEN S[i].epic ELSE s.epic
  BY <1>2, <1>4 DEF Saved, StoryColumns
<1>6. Ok(o) /\ i \in Live(S) => StoryFits(row, E)
  BY <1>3, <1>4, <1>5 DEF StoryFits, Coalesce
<1> QED BY <1>1, <1>3, <1>6, RowChanged

LEMMA StagedTyped ==
  ASSUME NEW S, StoriesFit(S), NEW E, RowsTyped(S, E), NEW i, NEW stage
  PROVE  RowsTyped(StoryRepoUpdateStage(S, i, stage).t, E)
<1>1. PICK o : o = StoryRepoUpdateStage(S, i, stage)
  OBVIOUS
<1>2. PICK row : row = [S[i] EXCEPT !.stage = stage]
  OBVIOUS
<1>3. Updates(o, S, i, row)
  BY <1>1, <1>2, StatementsUpdate
<1>4. i \in Live(S) => DOMAIN S[i] = StoryColumns /\ StoryFits(S[i], E)
  BY DEF StoriesFit, StoryRow, RowsTyped, Live
<1>5. i \in Live(S) => row.status = S[i].status /\ row.wb = S[i].wb /\ row.epic = S[i].epic
  BY <1>2, <1>4 DEF StoryColumns
<1> QED BY <1>1, <1>3, <1>4, <1>5, RowChanged DEF StoryFits

LEMMA CreatedTyped ==
  ASSUME NEW S, StoriesFit(S), NEW E, RowsTyped(S, E), NEW s, s.status \in StoryStatuses
  PROVE  /\ RowsTyped(StoryRepoCreate(S, E, s).t, E)
         /\ RowsTyped(StoryRepoCreateFromImport(S, E, s).t, E)
<1>1. \A source, ext, item, hash :
        s.epic \in Live(E) \cup {0} => StoryFits(Created(s, source, ext, item, hash), E)
  <2>1. TAKE source, ext, item, hash
  <2>2. PICK row : row = Created(s, source, ext, item, hash)
    OBVIOUS
  <2>3. row.status = s.status /\ row.wb = Nil /\ row.epic = s.epic
    BY <2>2 DEF Created
  <2> QED BY <2>2, <2>3 DEF StoryFits
<1>2. Listing(S)
  BY DEF StoriesFit
<1>3. PICK o, row : /\ o = StoryRepoCreate(S, E, s)
                    /\ row = Created(s, "manual", Nil, Nil, NoHash)
  OBVIOUS
<1>4. Inserts(o, S, row) /\ (Ok(o) => StoryFits(row, E))
  BY <1>1, <1>3, StatementsUpdate, EpicChecked
<1>5. PICK oo, rr : /\ oo = StoryRepoCreateFromImport(S, E, s)
                    /\ rr = Created(s, s.source, s.ext, s.item, s.hash)
  OBVIOUS
<1>6. Inserts(oo, S, rr) /\ (Ok(oo) => StoryFits(rr, E))
  BY <1>1, <1>5, StatementsUpdate, EpicChecked
<1> QED BY <1>2, <1>3, <1>4, <1>5, <1>6, RowAdded

LEMMA ImportedTyped ==
  ASSUME NEW S, StoriesFit(S), NEW E, RowsTyped(S, E), NEW i, NEW s
  PROVE  /\ s.status \in StoryStatuses => RowsTyped(StoryRepoUpdateFromImport(S, E, i, s).t, E)
         /\ RowsTyped(StoryRepoUpdateProvenanceOnly(S, i, s).t, E)
<1>1. i \in Live(S) => DOMAIN S[i] = StoryColumns /\ StoryFits(S[i], E)
  BY DEF StoriesFit, StoryRow, RowsTyped, Live
<1>2. ASSUME s.status \in StoryStatuses
      PROVE  RowsTyped(StoryRepoUpdateFromImport(S, E, i, s).t, E)
  <2>1. PICK o, row : o = StoryRepoUpdateFromImport(S, E, i, s) /\ row = FromImport(S[i], s)
    OBVIOUS
  <2>2. Updates(o, S, i, row) /\ (Ok(o) => s.epic \in Live(E) \cup {0})
    BY <2>1, StatementsUpdate, EpicChecked
  <2>3. i \in Live(S) => row.status = s.status /\ row.wb = S[i].wb /\ row.epic = s.epic
    BY <1>1, <2>1 DEF FromImport, StoryColumns
  <2>4. Ok(o) /\ i \in Live(S) => StoryFits(row, E)
    BY <1>1, <1>2, <2>2, <2>3 DEF StoryFits
  <2> QED BY <2>1, <2>2, <2>4, RowChanged
<1>3. RowsTyped(StoryRepoUpdateProvenanceOnly(S, i, s).t, E)
  <2>1. PICK o, row : o = StoryRepoUpdateProvenanceOnly(S, i, s) /\ row = OfOrigin(S[i], s)
    OBVIOUS
  <2>2. Updates(o, S, i, row)
    BY <2>1, StatementsUpdate
  <2>3. i \in Live(S) => row.status = S[i].status /\ row.wb = S[i].wb /\ row.epic = S[i].epic
    BY <1>1, <2>1 DEF OfOrigin, StoryColumns
  <2>4. Ok(o) /\ i \in Live(S) => StoryFits(row, E)
    BY <1>1, <2>3 DEF StoryFits
  <2> QED BY <2>1, <2>2, <2>4, RowChanged
<1> QED BY <1>2, <1>3

LEMMA MarkedTyped ==
  ASSUME NEW S, StoriesFit(S), NEW E, RowsTyped(S, E), NEW i, NEW w \in WriteBackStatuses
  PROVE  RowsTyped(StoryRepoSetWritebackStatus(S, i, w).t, E)
<1>1. PICK R : R = [j \in DOMAIN S |-> IF j = i THEN [S[j] EXCEPT !.wb = w] ELSE S[j]]
  OBVIOUS
<1>2. PICK q : q = Outcome(R, i, "none")
  OBVIOUS
<1>3. StoryRepoSetWritebackStatus(S, i, w) = RepoExec(q)
  BY <1>1, <1>2 DEF StoryRepoSetWritebackStatus, SetStoryWritebackStatus
<1>4. StoryRepoSetWritebackStatus(S, i, w).t = R
  BY <1>2, <1>3, OutcomeFields, RepoFields
<1>5. ASSUME NEW k \in DOMAIN S PROVE StoryFits(R[k], E)
  <2>1. StoryFits(S[k], E) /\ DOMAIN S[k] = StoryColumns
    BY DEF RowsTyped, StoriesFit, StoryRow
  <2>2. CASE k = i
    <3>1. R[k] = [S[k] EXCEPT !.wb = w]
      BY <1>1, <2>2
    <3>2. R[k].wb = w /\ R[k].status = S[k].status /\ R[k].epic = S[k].epic
      BY <2>1, <3>1 DEF StoryColumns
    <3> QED BY <2>1, <3>2 DEF StoryFits
  <2>3. CASE k # i
    BY <1>1, <2>1, <2>3
  <2> QED BY <2>2, <2>3
<1>6. DOMAIN R = DOMAIN S
  BY <1>1
<1> QED BY <1>4, <1>5, <1>6 DEF RowsTyped

-----------------------------------------------------------------------------
(* Imports.                                                                 *)

LEMMA DecidedStatuses ==
  ASSUME NEW cfg, NEW item, NEW row, NEW name, NEW e
  PROVE  /\ NewEpic(cfg, item).status \in EpicStatuses
         /\ row.status \in EpicStatuses => EpicTarget(cfg, item, row).status \in EpicStatuses
         /\ NewStory(cfg, item, name, e).status \in StoryStatuses
         /\ DOMAIN row = StoryColumns /\ row.status \in StoryStatuses =>
                Merged(cfg, item, row, e).status \in StoryStatuses
<1>1. ProjectStatus(cfg, item.raw) \in {"done", "backlog"}
  BY DEF ProjectStatus
<1>2. NewEpic(cfg, item).status = ProjectStatus(cfg, item.raw) /\ "status" \in DOMAIN NewEpic(cfg, item)
  BY DEF NewEpic
<1>3. PICK s : s = ResolveEpicStatus(row, ProjectStatus(cfg, item.raw))
  OBVIOUS
<1>4. EpicTarget(cfg, item, row).status = s
  BY <1>2, <1>3 DEF EpicTarget
<1>5. row.status \in EpicStatuses => s \in EpicStatuses
  BY <1>1, <1>3 DEF ResolveEpicStatus, EpicStatuses
<1>6. NewStory(cfg, item, name, e).status = ProjectStatus(cfg, item.raw)
  BY DEF NewStory
<1>7. ASSUME DOMAIN row = StoryColumns, row.status \in StoryStatuses
      PROVE  Merged(cfg, item, row, e).status \in StoryStatuses
  <2>1. PICK r : r = ResolveStoryStatus(row, ProjectStatus(cfg, item.raw))
    OBVIOUS
  <2>2. r \in StoryStatuses
    BY <1>1, <1>7, <2>1 DEF ResolveStoryStatus, StoryStatuses
  <2>3. Merged(cfg, item, row, e).status = r
    BY <1>7, <2>1 DEF Merged, StoryColumns
  <2> QED BY <2>2, <2>3
<1> QED BY <1>1, <1>2, <1>4, <1>5, <1>6, <1>7 DEF EpicStatuses, StoryStatuses

(* An import that is done with an item holds no row.                        *)
LEMMA NothingHeld ==
  ASSUME NEW i, DOMAIN i = ImportColumns, NEW why, NEW log, NEW x, NEW e
  PROVE  /\ ImportHolds(Goto(i, log)) /\ ImportHolds(EpicDone(i, why)) /\ ImportHolds(StoryDone(i, why))
         /\ DOMAIN Link(i, x, e) = ImportColumns
         /\ \A es, ss : ImportHolds(Goto([i EXCEPT !.epics = es, !.stories = ss], log))
<1>1. \A j, l : DOMAIN j = ImportColumns => ImportHolds(Goto(j, l))
  <2>1. TAKE j, l
  <2>2. HAVE DOMAIN j = ImportColumns
  <2>3. PICK k : k = Goto(j, l)
    OBVIOUS
  <2>4. k.pc \in {"epic", "story", "over"}
    BY <2>2, <2>3, GotoFields
  <2> QED BY <2>3, <2>4 DEF ImportHolds
<1>2. \A q : DOMAIN [i EXCEPT !.epics = q] = ImportColumns /\ DOMAIN [i EXCEPT !.stories = q] = ImportColumns
  OBVIOUS
<1>3. \A es, ss : DOMAIN [i EXCEPT !.epics = es, !.stories = ss] = ImportColumns
  OBVIOUS
<1>4. DOMAIN Link(i, x, e) = ImportColumns
  BY DEF Link
<1> QED BY <1>1, <1>2, <1>3, <1>4 DEF EpicDone, StoryDone

LEMMA ImportMoves ==
  ASSUME ImportInv, TablesInv, UNCHANGED <<run, user>>, NEW p, NEW t,
         imp' = t \/ imp' = Disturb(t, p), \A q \in Imports \ {p} : t[q] = imp[q],
         p \in Imports => ImportHolds(t[p]), EpicsFit(epics'), RowsTyped(stories', epics')
  PROVE  TablesInv'
<1>1. UserHolds' /\ RunHolds'
  BY DEF TablesInv, UserHolds, RunHolds
<1>2. ASSUME NEW q \in Imports PROVE ImportHolds(imp'[q])
  <2>1. ImportHolds(t[q])
    BY DEF TablesInv
  <2>2. CASE imp' = t
    BY <2>1, <2>2
  <2>3. CASE imp' = Disturb(t, p)
    <3>1. q = p => imp'[q] = t[q]
      BY <2>3 DEF Disturb
    <3>2. q # p => imp'[q] = [t[q] EXCEPT !.quiet = FALSE] /\ t[q] = imp[q]
      BY <2>3 DEF Disturb
    <3>3. DOMAIN imp[q] = ImportColumns
      BY DEF ImportInv, Known, ImportFits
    <3>4. q # p => imp'[q].pc = t[q].pc /\ imp'[q].id = t[q].id /\ imp'[q].row = t[q].row
      BY <3>2, <3>3 DEF ImportColumns
    <3> QED BY <2>1, <3>1, <3>4 DEF ImportHolds
  <2> QED BY <2>2, <2>3
<1> QED BY <1>1, <1>2 DEF TablesInv

(* The tables stay, one import moves on.                                    *)
LEMMA ImportReads ==
  ASSUME ImportInv, TablesInv, UNCHANGED <<stories, epics, run, user>>, NEW p \in Imports, NEW j,
         imp' = [imp EXCEPT ![p] = j], ImportHolds(j)
  PROVE  TablesInv'
<1>1. imp'[p] = j /\ \A q \in Imports \ {p} : imp'[q] = imp[q]
  BY DEF ImportInv
<1>2. EpicsFit(epics') /\ RowsTyped(stories', epics')
  BY DEF TablesInv
<1>3. PICK t : imp' = t
  OBVIOUS
<1>4. /\ UNCHANGED <<run, user>> /\ ImportHolds(t[p])
      /\ \A q \in Imports \ {p} : t[q] = imp[q]
  BY <1>1, <1>3
<1> QED BY <1>2, <1>3, <1>4, ImportMoves

LEMMA FetchingHolds ==
  ASSUME ImportInv, TablesInv, NEW p \in Imports, UNCHANGED <<run, user>>,
         For(p) \/ Resolve(p) \/ Fetch(p) \/ \E role, cfg : ImportPlanning(p, role, cfg)
  PROVE  TablesInv'
<1>1. PICK i : i = imp[p]
  OBVIOUS
<1>2. DOMAIN i = ImportColumns /\ UNCHANGED <<stories, epics>>
  BY <1>1 DEF ImportInv, Known, ImportFits, For, Resolve, Fetch, ImportPlanning
<1>3. PICK j : imp' = [imp EXCEPT ![p] = j] /\ ImportHolds(j)
  <2>1. CASE Stop(p, "SOURCE_ERROR")
    <3>1. PICK j : j = [i EXCEPT !.pc = "over", !.log = Append(i.log, "SOURCE_ERROR")]
      OBVIOUS
    <3>2. imp' = [imp EXCEPT ![p] = j]
      BY <1>1, <2>1, <3>1 DEF Stop, ImportInv
    <3>3. j.pc = "over"
      BY <1>2, <3>1 DEF ImportColumns
    <3> QED BY <3>2, <3>3 DEF ImportHolds
  <2>2. CASE \E pc, token : imp' = [imp EXCEPT ![p].pc = pc, ![p].token = token] /\ pc \in {"resolve", "items"}
    <3>1. PICK pc, token : imp' = [imp EXCEPT ![p].pc = pc, ![p].token = token] /\ pc \in {"resolve", "items"}
      BY <2>2
    <3>2. PICK j : j = [i EXCEPT !.pc = pc, !.token = token]
      OBVIOUS
    <3>3. imp' = [imp EXCEPT ![p] = j]
      BY <1>1, <3>1, <3>2 DEF ImportInv
    <3>4. j.pc \in {"resolve", "items"}
      BY <1>2, <3>1, <3>2 DEF ImportColumns
    <3> QED BY <3>3, <3>4 DEF ImportHolds
  <2>3. CASE \E es, ss, log : imp' = [imp EXCEPT ![p] = Goto([i EXCEPT !.epics = es, !.stories = ss], log)]
    BY <1>2, <2>3, NothingHeld
  <2>4. CASE \E cfg, a, b : imp' = [imp EXCEPT ![p] = [IdleImport EXCEPT !.pc = "source", !.cfg = cfg,
                                                               !.quiet = a, !.re = b]]
    <3>1. PICK cfg, a, b : imp' = [imp EXCEPT ![p] = [IdleImport EXCEPT !.pc = "source", !.cfg = cfg,
                                                               !.quiet = a, !.re = b]]
      BY <2>4
    <3>2. PICK j : j = [IdleImport EXCEPT !.pc = "source", !.cfg = cfg, !.quiet = a, !.re = b]
      OBVIOUS
    <3>3. j.pc = "source"
      BY <3>2 DEF IdleImport
    <3> QED BY <3>1, <3>2, <3>3 DEF ImportHolds
  <2>5. CASE For(p)
    <3>1. i.cfg.source = Markdown =>
            imp' = [imp EXCEPT ![p] = Goto([i EXCEPT !.epics = MarkdownEpics(text),
                                                    !.stories = MarkdownStories(text)], <<>>)]
      BY <1>1, <2>5 DEF For
    <3>2. i.cfg.source # Markdown => \/ Stop(p, "SOURCE_ERROR")
                                     \/ \E token : imp' = [imp EXCEPT ![p].pc = "resolve", ![p].token = token]
      BY <1>1, <2>5 DEF For
    <3> QED BY <2>1, <2>2, <2>3, <3>1, <3>2
  <2>6. CASE Resolve(p)
    <3>1. Stop(p, "SOURCE_ERROR") \/ imp' = [imp EXCEPT ![p].pc = "items"]
      BY <2>6 DEF Resolve
    <3>2. CASE imp' = [imp EXCEPT ![p].pc = "items"]
      <4>1. PICK j : j = [i EXCEPT !.pc = "items"]
        OBVIOUS
      <4>2. imp' = [imp EXCEPT ![p] = j] /\ j.pc = "items"
        BY <1>1, <1>2, <3>2, <4>1 DEF ImportInv, ImportColumns
      <4> QED BY <4>2 DEF ImportHolds
    <3> QED BY <2>1, <3>1, <3>2
  <2>7. CASE Fetch(p)
    <3>1. PICK f : f = FetchBoard(board, "Status", "Epic")
      OBVIOUS
    <3>2. \/ Stop(p, "SOURCE_ERROR")
          \/ imp' = [imp EXCEPT ![p] = Goto([i EXCEPT !.epics = f.epics, !.stories = f.stories], <<>>)]
      BY <1>1, <2>7, <3>1 DEF Fetch
    <3> QED BY <2>1, <2>3, <3>2
  <2>8. CASE \E role, cfg : ImportPlanning(p, role, cfg)
    <3>1. PICK role, cfg : ImportPlanning(p, role, cfg)
      BY <2>8
    <3>2. PICK a, b : a = (Running(imp) = {}) /\ b = (cfg.source \in settled)
      OBVIOUS
    <3>3. imp' = [imp EXCEPT ![p] = [IdleImport EXCEPT !.pc = "source", !.cfg = cfg,
                                                       !.quiet = a, !.re = b]]
      BY <3>1, <3>2 DEF ImportPlanning
    <3> QED BY <2>4, <3>3
  <2> QED BY <2>5, <2>6, <2>7, <2>8
<1> QED BY <1>2, <1>3, ImportReads

LEMMA EpicStepsHold ==
  ASSUME ImportInv, TablesInv, NEW p \in Imports, UNCHANGED <<run, user>>,
         EpicByRef(p) \/ EpicByName(p)
  PROVE  TablesInv'
<1>1. PICK i, ie : i = imp[p] /\ ie = Head(i.epics)
  OBVIOUS
<1>2. DOMAIN i = ImportColumns
  BY <1>1 DEF ImportInv, Known, ImportFits
<1>3. \A source, ext, name :
        /\ Ok(EpicRepoGetBySourceRef(epics, source, ext)) =>
                EpicRepoGetBySourceRef(epics, source, ext).id \in Live(epics)
        /\ Ok(EpicRepoGetByName(epics, name)) => EpicRepoGetByName(epics, name).id \in Live(epics)
  BY LookupsFind
<1>4. \A e \in Live(epics) : epics[e].status \in EpicStatuses
  BY DEF TablesInv, EpicsFit, EpicFits, Live
<1>5. PICK t : /\ Reads(t)
               /\ \/ t = [imp EXCEPT ![p].pc = "epicName"]
                  \/ t = [imp EXCEPT ![p].pc = "epicWrite", ![p].id = 0]
                  \/ \E e \in Live(epics) : t = [imp EXCEPT ![p].pc = "epicWrite", ![p].id = e,
                                                           ![p].row = epics[e]]
                  \/ \E e, why : t = NextEpic(p, Link(i, ie.ext, e), why)
  <2>1. CASE EpicByRef(p)
    <3>1. PICK q : q = EpicRepoGetBySourceRef(epics, i.cfg.source, ie.ext)
      OBVIOUS
    <3>2. Ok(q) => q.id \in Live(epics)
      BY <1>3, <3>1
    <3> QED BY <1>1, <2>1, <3>1, <3>2 DEF EpicByRef
  <2>2. CASE EpicByName(p)
    <3>1. PICK q : q = EpicRepoGetByName(epics, ie.name)
      OBVIOUS
    <3>2. Ok(q) => q.id \in Live(epics)
      BY <1>3, <3>1
    <3> QED BY <1>1, <2>2, <3>1, <3>2 DEF EpicByName
  <2> QED BY <2>1, <2>2
<1>6. UNCHANGED <<stories, epics>> /\ imp' = t
  BY <1>5 DEF Reads
<1>7. PICK j : t = [imp EXCEPT ![p] = j] /\ ImportHolds(j)
  <2>1. CASE t = [imp EXCEPT ![p].pc = "epicName"]
    <3>1. PICK j : j = [i EXCEPT !.pc = "epicName"]
      OBVIOUS
    <3>2. t = [imp EXCEPT ![p] = j] /\ j.pc = "epicName"
      BY <1>1, <1>2, <2>1, <3>1 DEF ImportInv, ImportColumns
    <3> QED BY <3>2 DEF ImportHolds
  <2>2. CASE t = [imp EXCEPT ![p].pc = "epicWrite", ![p].id = 0]
    <3>1. PICK j : j = [i EXCEPT !.pc = "epicWrite", !.id = 0]
      OBVIOUS
    <3>2. t = [imp EXCEPT ![p] = j] /\ j.pc = "epicWrite" /\ j.id = 0
      BY <1>1, <1>2, <2>2, <3>1 DEF ImportInv, ImportColumns
    <3> QED BY <3>2 DEF ImportHolds
  <2>3. CASE \E e \in Live(epics) : t = [imp EXCEPT ![p].pc = "epicWrite", ![p].id = e, ![p].row = epics[e]]
    <3>1. PICK e \in Live(epics) : t = [imp EXCEPT ![p].pc = "epicWrite", ![p].id = e, ![p].row = epics[e]]
      BY <2>3
    <3>2. PICK row : row = epics[e]
      OBVIOUS
    <3>3. PICK j : j = [i EXCEPT !.pc = "epicWrite", !.id = e, !.row = row]
      OBVIOUS
    <3>4. t = [imp EXCEPT ![p] = j]
      BY <1>1, <3>1, <3>2, <3>3 DEF ImportInv
    <3>5. j.pc = "epicWrite" /\ j.row = row
      BY <1>2, <3>3 DEF ImportColumns
    <3> QED BY <1>4, <3>2, <3>4, <3>5 DEF ImportHolds
  <2>4. CASE \E e, why : t = NextEpic(p, Link(i, ie.ext, e), why)
    <3>1. PICK e, why : t = NextEpic(p, Link(i, ie.ext, e), why)
      BY <2>4
    <3>2. PICK k : k = Link(i, ie.ext, e)
      OBVIOUS
    <3>3. DOMAIN k = ImportColumns
      BY <1>2, <3>2, NothingHeld
    <3>4. ImportHolds(EpicDone(k, why))
      BY <3>3, NothingHeld
    <3> QED BY <3>1, <3>2, <3>4 DEF NextEpic, EpicDone
  <2> QED BY <1>5, <2>1, <2>2, <2>3, <2>4
<1> QED BY <1>6, <1>7, ImportReads

LEMMA EpicWriteHolds ==
  ASSUME ImportInv, TablesInv, NEW p \in Imports, UNCHANGED <<run, user>>, EpicWrite(p)
  PROVE  TablesInv'
<1>1. PICK i, ie : i = imp[p] /\ ie = Head(i.epics)
  OBVIOUS
<1>2. /\ DOMAIN i = ImportColumns /\ p \in DOMAIN imp /\ ImportHolds(i) /\ i.pc = "epicWrite"
      /\ EpicsFit(epics) /\ RowsTyped(stories, epics)
  BY <1>1 DEF ImportInv, Known, ImportFits, TablesInv, EpicWrite
<1>3. PICK o : o = IF i.id = 0 THEN EpicRepoCreateFromImport(epics, NewEpic(i.cfg, ie))
                   ELSE EpicRepoUpdateFromImport(epics, i.id, EpicTarget(i.cfg, ie, i.row))
  OBVIOUS
<1>4. PICK e, k : /\ e = (IF i.id # 0 THEN i.id ELSE o.id)
                  /\ k = (IF e = 0 THEN i ELSE Link(i, ie.ext, e))
  OBVIOUS
<1>5. DOMAIN k = ImportColumns
  BY <1>2, <1>4, NothingHeld
<1>6. \A why : ImportHolds(EpicDone(i, why)) /\ ImportHolds(EpicDone(k, why))
  BY <1>2, <1>5, NothingHeld
<1>7. CASE i.cfg.dry
  <2>1. PICK l, why : imp' = NextEpic(p, l, why) /\ (l = i \/ l = k)
    BY <1>1, <1>3, <1>4, <1>7 DEF EpicWrite
  <2>2. UNCHANGED <<stories, epics, run, user>>
    BY <1>1, <1>7 DEF EpicWrite
  <2>3. imp' = [imp EXCEPT ![p] = EpicDone(l, why)]
    BY <2>1 DEF NextEpic, EpicDone
  <2>4. ImportHolds(EpicDone(l, why))
    BY <1>6, <2>1
  <2> QED BY <2>2, <2>3, <2>4, ImportReads
<1>8. CASE ~i.cfg.dry
  <2>1. PICK why : /\ epics' = o.t /\ stories' = stories
                   /\ Writes(p, o, NextEpic(p, k, why), FALSE)
    BY <1>1, <1>3, <1>4, <1>8 DEF EpicWrite
  <2>2. PICK t : t = NextEpic(p, k, why)
    OBVIOUS
  <2>3. imp' = Disturb(t, p)
    BY <2>1, <2>2 DEF Writes
  <2>4. t[p] = EpicDone(k, why) /\ \A q \in Imports \ {p} : t[q] = imp[q]
    BY <1>2, <2>2 DEF NextEpic, EpicDone, ImportInv
  <2>5. EpicsKept(epics, o.t)
    <3>1. CASE i.id = 0
      BY <1>2, <1>3, <3>1, EpicsKeptBy, DecidedStatuses
    <3>2. CASE i.id # 0
      <4>1. EpicTarget(i.cfg, ie, i.row).status \in EpicStatuses
        BY <1>2, <3>2, DecidedStatuses DEF ImportHolds
      <4> QED BY <1>2, <1>3, <3>2, <4>1, EpicsKeptBy
    <3> QED BY <3>1, <3>2
  <2>6. EpicsFit(epics') /\ Live(epics) \subseteq Live(epics')
    BY <2>1, <2>5 DEF EpicsKept
  <2>7. RowsTyped(stories', epics')
    BY <1>2, <2>1, <2>6, RowsTypedStill
  <2>8. ImportHolds(t[p])
    BY <1>6, <2>4
  <2> QED BY <2>3, <2>4, <2>6, <2>7, <2>8, ImportMoves
<1> QED BY <1>7, <1>8

LEMMA StoryStepsHold ==
  ASSUME ImportInv, TablesInv, NEW p \in Imports, UNCHANGED <<run, user>>,
         StoryByIdentity(p) \/ ResolveKey(p)
  PROVE  TablesInv'
<1>1. PICK i, is : i = imp[p] /\ is = Head(i.stories)
  OBVIOUS
<1>2. DOMAIN i = ImportColumns /\ DOMAIN imp = Imports
      /\ (i.pc \in {"story", "storyKey"} => i.id = 0)
  BY <1>1 DEF ImportInv, Known, ImportFits
<1>3. PICK q : q = IF i.cfg.source = Markdown THEN StoryRepoGetByKey(stories, is.key)
                   ELSE StoryRepoGetBySourceRef(stories, i.cfg.source, is.ext)
  OBVIOUS
<1>4. Ok(q) => q.id \in Live(stories)
  BY <1>3, LookupsFind
<1>5. \A r \in Live(stories) : stories[r].status \in StoryStatuses
  BY DEF TablesInv, RowsTyped, StoryFits, Live
<1>6. PICK t :
        /\ Reads(t)
        /\ \/ t = NextStory(p, i, "fail")
           \/ \E r \in Live(stories) :
                t = [imp EXCEPT ![p].pc = "storyWrite", ![p].id = r, ![p].row = stories[r]]
           \/ \E k : t = [imp EXCEPT ![p].pc = "storyWrite", ![p].key = k] /\ i.id = 0
           \/ \E k : t = [imp EXCEPT ![p].pc = "storyKey", ![p].key = k]
           \/ t = [imp EXCEPT ![p].pc = "storyWrite"] /\ i.id = 0
           \/ \E k, n : t = [imp EXCEPT ![p].key = k, ![p].n = n] /\ i.pc = "storyKey"
  <2>1. CASE StoryByIdentity(p)
    <3>1. i.pc = "story"
      BY <1>1, <2>1 DEF StoryByIdentity
    <3>2. PICK t :
            /\ Reads(t)
            /\ \/ t = NextStory(p, i, "fail")
               \/ Ok(q) /\ t = [imp EXCEPT ![p].pc = "storyWrite", ![p].id = q.id, ![p].row = stories[q.id]]
               \/ t = [imp EXCEPT ![p].pc = "storyWrite", ![p].key = is.key]
               \/ t = [imp EXCEPT ![p].pc = "storyKey", ![p].key = is.key]
      BY <1>1, <1>3, <2>1 DEF StoryByIdentity
    <3>3. i.id = 0
      BY <1>2, <3>1
    <3> QED BY <1>4, <3>2, <3>3
  <2>2. CASE ResolveKey(p)
    <3>1. i.pc = "storyKey"
      BY <1>1, <2>2 DEF ResolveKey
    <3>2. PICK t, k : /\ Reads(t)
                      /\ \/ t = [imp EXCEPT ![p].pc = "storyWrite"]
                         \/ t = [imp EXCEPT ![p].key = k, ![p].n = imp[p].n + 1]
      BY <2>2 DEF ResolveKey
    <3>3. i.id = 0
      BY <1>2, <3>1
    <3> QED BY <3>1, <3>2, <3>3
  <2> QED BY <2>1, <2>2
<1>7. UNCHANGED <<stories, epics>> /\ imp' = t
  BY <1>6 DEF Reads
<1>8. PICK j : t = [imp EXCEPT ![p] = j] /\ ImportHolds(j)
  <2>1. CASE t = NextStory(p, i, "fail")
    <3>1. t = [imp EXCEPT ![p] = StoryDone(i, "fail")]
      BY <2>1 DEF NextStory, StoryDone
    <3> QED BY <1>2, <3>1, NothingHeld
  <2>2. CASE \E r \in Live(stories) :
               t = [imp EXCEPT ![p].pc = "storyWrite", ![p].id = r, ![p].row = stories[r]]
    <3>1. PICK r \in Live(stories) :
               t = [imp EXCEPT ![p].pc = "storyWrite", ![p].id = r, ![p].row = stories[r]]
      BY <2>2
    <3>2. PICK row : row = stories[r]
      OBVIOUS
    <3>3. PICK j : j = [i EXCEPT !.pc = "storyWrite", !.id = r, !.row = row]
      OBVIOUS
    <3>4. t = [imp EXCEPT ![p] = j]
      BY <1>1, <1>2, <3>1, <3>2, <3>3
    <3>5. j.pc = "storyWrite" /\ j.row = row
      BY <1>2, <3>3 DEF ImportColumns
    <3> QED BY <1>5, <3>2, <3>4, <3>5 DEF ImportHolds
  <2>3. CASE \E k : t = [imp EXCEPT ![p].pc = "storyWrite", ![p].key = k] /\ i.id = 0
    <3>1. PICK k : t = [imp EXCEPT ![p].pc = "storyWrite", ![p].key = k] /\ i.id = 0
      BY <2>3
    <3>2. PICK j : j = [i EXCEPT !.pc = "storyWrite", !.key = k]
      OBVIOUS
    <3>3. t = [imp EXCEPT ![p] = j] /\ j.id = 0 /\ j.pc = "storyWrite"
      BY <1>1, <1>2, <3>1, <3>2 DEF ImportColumns
    <3> QED BY <3>3 DEF ImportHolds
  <2>4. CASE \E k : t = [imp EXCEPT ![p].pc = "storyKey", ![p].key = k]
    <3>1. PICK k : t = [imp EXCEPT ![p].pc = "storyKey", ![p].key = k]
      BY <2>4
    <3>2. PICK j : j = [i EXCEPT !.pc = "storyKey", !.key = k]
      OBVIOUS
    <3>3. t = [imp EXCEPT ![p] = j] /\ j.pc = "storyKey"
      BY <1>1, <1>2, <3>1, <3>2 DEF ImportColumns
    <3> QED BY <3>3 DEF ImportHolds
  <2>5. CASE t = [imp EXCEPT ![p].pc = "storyWrite"] /\ i.id = 0
    <3>1. PICK j : j = [i EXCEPT !.pc = "storyWrite"]
      OBVIOUS
    <3>2. t = [imp EXCEPT ![p] = j] /\ j.id = 0 /\ j.pc = "storyWrite"
      BY <1>1, <1>2, <2>5, <3>1 DEF ImportColumns
    <3> QED BY <3>2 DEF ImportHolds
  <2>6. CASE \E k, n : t = [imp EXCEPT ![p].key = k, ![p].n = n] /\ i.pc = "storyKey"
    <3>1. PICK k, n : t = [imp EXCEPT ![p].key = k, ![p].n = n] /\ i.pc = "storyKey"
      BY <2>6
    <3>2. PICK j : j = [i EXCEPT !.key = k, !.n = n]
      OBVIOUS
    <3>3. t = [imp EXCEPT ![p] = j] /\ j.pc = "storyKey"
      BY <1>1, <1>2, <3>1, <3>2 DEF ImportColumns
    <3> QED BY <3>3 DEF ImportHolds
  <2> QED BY <1>6, <2>1, <2>2, <2>3, <2>4, <2>5, <2>6
<1> QED BY <1>7, <1>8, ImportReads

LEMMA StoryWriteHolds ==
  ASSUME ImportInv, TablesInv, NEW p \in Imports, UNCHANGED <<run, user>>, StoryWrite(p)
  PROVE  TablesInv'
<1>1. PICK i, is : i = imp[p] /\ is = Head(i.stories)
  OBVIOUS
<1>2. /\ DOMAIN i = ImportColumns /\ p \in DOMAIN imp /\ ImportHolds(i) /\ i.pc = "storyWrite"
      /\ EpicsFit(epics) /\ RowsTyped(stories, epics) /\ StoriesFit(stories)
  BY <1>1 DEF ImportInv, ProjectFits, Known, ImportFits, TablesInv, StoryWrite
<1>3. i.id # 0 => DOMAIN i.row = StoryColumns /\ i.row.status \in StoryStatuses
  <2>1. Known(stories, board, text, clean, i)
    BY <1>1 DEF ImportInv
  <2> QED BY <1>2, <2>1 DEF Known, ViewFits, StoryRow, ImportHolds
<1>4. PICK act : act = IF i.id = 0 THEN "create" ELSE StoryDecision(i.cfg, is, i.row)
  OBVIOUS
<1>5. PICK o : o = CASE act = "create" ->
                            StoryRepoCreateFromImport(stories, epics, NewStory(i.cfg, is, i.key, Parent(i, is)))
                     [] act = "update" ->
                            StoryRepoUpdateFromImport(stories, epics, i.id, Merged(i.cfg, is, i.row, Parent(i, is)))
                     [] act = "refresh" ->
                            StoryRepoUpdateProvenanceOnly(stories, i.id, Provenance(i.cfg, is, i.row))
                     [] act = "backfill" ->
                            StoryRepoUpdateProvenanceOnly(stories, i.id, [i.row EXCEPT !.item = is.item])
                     [] OTHER -> Outcome(stories, i.id, "ok")
  OBVIOUS
<1>6. IF i.cfg.dry \/ act \in {"skip", "lock"}
      THEN Reads(NextStory(p, i, act))
      ELSE /\ stories' = o.t
           /\ Writes(p, o, NextStory(p, i, IF Ok(o) THEN act ELSE "fail"),
                     act \in {"refresh", "backfill"} /\ Retitled(o.t, i.id))
           /\ epics' = epics
  BY <1>1, <1>4, <1>5 DEF StoryWrite, Parent
<1>7. StoryDecision(i.cfg, is, i.row) \in {"skip", "lock", "refresh", "update", "backfill"}
  BY DEF StoryDecision
<1>8. CASE i.cfg.dry \/ act \in {"skip", "lock"}
  <2>1. PICK t : t = NextStory(p, i, act)
    OBVIOUS
  <2>2. Reads(t)
    BY <1>6, <1>8, <2>1
  <2>3. imp' = t /\ UNCHANGED <<stories, epics>>
    BY <2>2 DEF Reads
  <2>4. imp' = [imp EXCEPT ![p] = StoryDone(i, act)]
    BY <2>1, <2>3 DEF NextStory, StoryDone
  <2> QED BY <1>2, <2>3, <2>4, NothingHeld, ImportReads
<1>9. CASE ~i.cfg.dry /\ act \notin {"skip", "lock"}
  <2>1. PICK why : why = IF Ok(o) THEN act ELSE "fail"
    OBVIOUS
  <2>2. PICK t : t = NextStory(p, i, why)
    OBVIOUS
  <2>3. stories' = o.t /\ epics' = epics /\ imp' = Disturb(t, p)
    BY <1>6, <1>9, <2>1, <2>2 DEF Writes
  <2>4. t[p] = StoryDone(i, why) /\ \A q \in Imports \ {p} : t[q] = imp[q]
    BY <1>2, <2>2 DEF NextStory, StoryDone, ImportInv
  <2>5. RowsTyped(o.t, epics)
    <3>1. CASE i.id = 0
      <4>1. o = StoryRepoCreateFromImport(stories, epics, NewStory(i.cfg, is, i.key, Parent(i, is)))
        BY <1>4, <1>5, <3>1
      <4>2. NewStory(i.cfg, is, i.key, Parent(i, is)).status \in StoryStatuses
        BY DecidedStatuses
      <4> QED BY <1>2, <4>1, <4>2, CreatedTyped
    <3>2. CASE i.id # 0 /\ act = "update"
      <4>1. o = StoryRepoUpdateFromImport(stories, epics, i.id, Merged(i.cfg, is, i.row, Parent(i, is)))
        BY <1>5, <3>2
      <4>2. Merged(i.cfg, is, i.row, Parent(i, is)).status \in StoryStatuses
        BY <1>3, <3>2, DecidedStatuses
      <4> QED BY <1>2, <4>1, <4>2, ImportedTyped
    <3>3. CASE i.id # 0 /\ act = "refresh"
      <4>1. o = StoryRepoUpdateProvenanceOnly(stories, i.id, Provenance(i.cfg, is, i.row))
        BY <1>5, <3>3
      <4> QED BY <1>2, <4>1, ImportedTyped
    <3>4. CASE i.id # 0 /\ act = "backfill"
      <4>1. o = StoryRepoUpdateProvenanceOnly(stories, i.id, [i.row EXCEPT !.item = is.item])
        BY <1>5, <3>4
      <4> QED BY <1>2, <4>1, ImportedTyped
    <3> QED BY <1>4, <1>7, <1>9, <3>1, <3>2, <3>3, <3>4
  <2>6. EpicsFit(epics') /\ RowsTyped(stories', epics')
    BY <1>2, <2>3, <2>5
  <2>7. ImportHolds(t[p])
    BY <1>2, <2>4, NothingHeld
  <2> QED BY <2>3, <2>4, <2>6, <2>7, ImportMoves
<1> QED BY <1>8, <1>9

LEMMA ImportingHolds ==
  ASSUME ImportInv, TablesInv, Importing
  PROVE  TablesInv'
<1>1. UNCHANGED <<run, user>>
  BY DEF Importing, writeVars
<1>2. PICK p \in Imports : Import(p) \/ ImportStep(p) \/ ItemFault(p)
  BY DEF Importing
<1>3. CASE Import(p)
  BY <1>1, <1>3, FetchingHolds DEF Import
<1>4. CASE ItemFault(p)
  <2>1. PICK i : i = imp[p]
    OBVIOUS
  <2>2. DOMAIN i = ImportColumns
    BY <2>1 DEF ImportInv, Known, ImportFits
  <2>3. UNCHANGED <<stories, epics>>
    BY <1>4 DEF ItemFault
  <2>4. \/ imp' = [imp EXCEPT ![p] = EpicDone(i, "fail")]
        \/ imp' = [imp EXCEPT ![p] = StoryDone(i, "fail")]
    BY <1>4, <2>1 DEF ItemFault, NextEpic, NextStory, EpicDone, StoryDone
  <2> QED BY <1>1, <2>2, <2>3, <2>4, NothingHeld, ImportReads
<1>5. CASE ImportStep(p)
  BY <1>1, <1>5, FetchingHolds, EpicStepsHold, EpicWriteHolds, StoryStepsHold, StoryWriteHolds
     DEF ImportStep
<1> QED BY <1>2, <1>3, <1>4, <1>5

-----------------------------------------------------------------------------
(* The other writers.                                                       *)

LEMMA OthersMove ==
  ASSUME ImportInv, TablesInv, imp' = imp \/ imp' = Disturb(imp, 0),
         EpicsFit(epics'), RowsTyped(stories', epics'), UserHolds', RunHolds'
  PROVE  TablesInv'
<1>1. ASSUME NEW q \in Imports PROVE ImportHolds(imp'[q])
  <2>1. ImportHolds(imp[q]) /\ DOMAIN imp[q] = ImportColumns
    BY DEF TablesInv, ImportInv, Known, ImportFits
  <2>2. CASE imp' = imp
    BY <2>1, <2>2
  <2>3. CASE imp' = Disturb(imp, 0)
    <3>1. imp'[q] = [imp[q] EXCEPT !.quiet = FALSE]
      BY <2>3, ImportsAssumption DEF Disturb
    <3>2. imp'[q].pc = imp[q].pc /\ imp'[q].id = imp[q].id /\ imp'[q].row = imp[q].row
      BY <2>1, <3>1 DEF ImportColumns
    <3> QED BY <2>1, <3>2 DEF ImportHolds
  <2> QED BY <2>2, <2>3
<1> QED BY <1>1 DEF TablesInv

LEMMA ForeignMoves ==
  ASSUME NEW b, NEW dirty, IF b THEN Foreign(dirty) ELSE UNCHANGED <<imp, settled, clean>>
  PROVE  imp' = imp \/ imp' = Disturb(imp, 0)
BY DEF Foreign

LEMMA TablesNow ==
  ASSUME ImportInv, TablesInv
  PROVE  /\ EpicsFit(epics) /\ RowsTyped(stories, epics) /\ StoriesFit(stories) /\ UserHolds /\ RunHolds
         /\ UNCHANGED user => UserHolds'
         /\ UNCHANGED run => RunHolds'
BY DEF TablesInv, ImportInv, ProjectFits, UserHolds, RunHolds

(* The run goes on towards the same status.                                 *)
LEMMA RunKeepsTarget ==
  ASSUME ImportInv, TablesInv, NEW pc, NEW row,
         \/ run' = [run EXCEPT !.pc = pc]
         \/ run' = [run EXCEPT !.pc = pc, !.row = row]
         \/ run' = [run EXCEPT !.row = row, !.pc = pc]
  PROVE  RunHolds'
<1>1. DOMAIN run = {"pc", "story", "target", "row"} /\ RunHolds
  BY DEF ImportInv, RunFits, TablesInv
<1>2. run'.target = run.target
  BY <1>1
<1> QED BY <1>1, <1>2 DEF RunHolds

LEMMA UpdateStoryStatusHolds ==
  ASSUME ImportInv, TablesInv, UpdateStoryStatus
  PROVE  TablesInv'
<1>1. PICK i, s : i = run.story /\ s = [run.row EXCEPT !.status = run.target]
  OBVIOUS
<1>2. PICK o : o = StoryRepoUpdate(stories, epics, i, s)
  OBVIOUS
<1>3. /\ stories' = o.t /\ epics' = epics /\ user' = user
      /\ IF Ok(o) THEN Foreign(TakesBack(run.row, i)) ELSE UNCHANGED <<imp, settled, clean>>
  BY <1>1, <1>2 DEF UpdateStoryStatus
<1>4. DOMAIN run.row = StoryColumns
  BY DEF ImportInv, RunFits, UpdateStoryStatus
<1>5. PICK pc : pc = IF Ok(o) /\ run.target # "backlog" THEN "enqueue" ELSE AfterStatus(run.target)
  OBVIOUS
<1>6. run' = [run EXCEPT !.row = NoRow, !.pc = pc]
  BY <1>1, <1>2, <1>5 DEF UpdateStoryStatus
<1>7. RunHolds'
  BY <1>6, RunKeepsTarget
<1>8. s.status = run.target
  BY <1>1, <1>4 DEF StoryColumns
<1>9. s.status \in StoryStatuses \cup {Nil}
  BY <1>8, TablesNow DEF RunHolds
<1>10. RowsTyped(o.t, epics)
  BY <1>2, <1>9, TablesNow, SavedTyped
<1>11. imp' = imp \/ imp' = Disturb(imp, 0)
  BY <1>3, ForeignMoves
<1>12. EpicsFit(epics') /\ UserHolds' /\ RowsTyped(stories', epics')
  BY <1>3, <1>10, TablesNow
<1> QED BY <1>7, <1>11, <1>12, OthersMove

LEMMA StoreStageHolds ==
  ASSUME ImportInv, TablesInv, NEW stage, NEW pc, StoreStage(stage, pc)
  PROVE  TablesInv'
<1>1. PICK o : o = StoryRepoUpdateStage(stories, run.story, stage)
  OBVIOUS
<1>2. /\ stories' = o.t /\ epics' = epics /\ user' = user
      /\ IF Ok(o) THEN Foreign(FALSE) ELSE UNCHANGED <<imp, settled, clean>>
      /\ run' = [run EXCEPT !.pc = pc]
  BY <1>1 DEF StoreStage
<1>3. RunHolds'
  BY <1>2, RunKeepsTarget
<1>4. RowsTyped(o.t, epics)
  BY <1>1, TablesNow, StagedTyped
<1>5. imp' = imp \/ imp' = Disturb(imp, 0)
  BY <1>2, ForeignMoves
<1>6. EpicsFit(epics') /\ UserHolds' /\ RowsTyped(stories', epics')
  BY <1>2, <1>4, TablesNow
<1> QED BY <1>3, <1>5, <1>6, OthersMove

(* A mark, or nothing.                                                      *)
Marked == \/ stories' = stories
          \/ \E i : \E w \in WriteBackStatuses :
                stories' = StoryRepoSetWritebackStatus(stories, i, w).t

LEMMA MarksHold ==
  ASSUME ImportInv, TablesInv, Marked, UNCHANGED <<epics, user>>, RunHolds',
         imp' = imp \/ imp' = Disturb(imp, 0)
  PROVE  TablesInv'
<1>1. epics' = epics /\ user' = user
  OBVIOUS
<1>2. RowsTyped(stories', epics)
  BY MarkedTyped, TablesNow DEF Marked
<1>3. EpicsFit(epics') /\ UserHolds' /\ RowsTyped(stories', epics')
  BY <1>1, <1>2, TablesNow
<1> QED BY <1>3, OthersMove

LEMMA RunStepHolds ==
  ASSUME ImportInv, TablesInv, RunStep
  PROVE  TablesInv'
<1>1. CASE EnterStage \/ ClearStage
  BY <1>1, StoreStageHolds DEF EnterStage, ClearStage
<1>2. CASE \E t \in {"done", "failed", "backlog"} : RunEnds(t)
  <2>1. PICK t \in {"done", "failed", "backlog"} : RunEnds(t)
    BY <1>2
  <2>2. UNCHANGED <<stories, epics, imp, user>>
    BY <2>1 DEF RunEnds, planVars
  <2>3. PICK pc : pc = IF t = "done" THEN "clear" ELSE "load"
    OBVIOUS
  <2>4. run' = [run EXCEPT !.target = t, !.pc = pc]
    BY <2>1, <2>3 DEF RunEnds
  <2>5. run'.target = t
    BY <2>4 DEF ImportInv, RunFits
  <2>6. RunHolds'
    BY <2>1, <2>5 DEF RunHolds, StoryStatuses
  <2>7. Marked /\ epics' = epics /\ user' = user /\ imp' = imp
    BY <2>2 DEF Marked
  <2> QED BY <2>6, <2>7, MarksHold
<1>3. CASE LoadStatus
  <2>1. UNCHANGED <<stories, epics, imp, user>>
    BY <1>3 DEF LoadStatus, planVars
  <2>2. PICK row, pc : run' = [run EXCEPT !.pc = "save", !.row = row] \/ run' = [run EXCEPT !.pc = pc]
    BY <1>3 DEF LoadStatus
  <2>3. RunHolds'
    BY <2>2, RunKeepsTarget
  <2>4. Marked /\ epics' = epics /\ user' = user /\ imp' = imp
    BY <2>1 DEF Marked
  <2> QED BY <2>3, <2>4, MarksHold
<1>4. CASE EnqueueWriteBack
  <2>1. UNCHANGED <<epics, imp, user>>
    BY <1>4 DEF EnqueueWriteBack
  <2>2. PICK pc : pc = AfterStatus(run.target)
    OBVIOUS
  <2>3. run' = [run EXCEPT !.pc = pc]
    BY <1>4, <2>2 DEF EnqueueWriteBack
  <2>4. RunHolds'
    BY <2>3, RunKeepsTarget
  <2>5. Marked
    BY <1>4 DEF EnqueueWriteBack, Marked, WriteBackStatuses
  <2>6. epics' = epics /\ user' = user /\ imp' = imp
    BY <2>1
  <2> QED BY <2>4, <2>5, <2>6, MarksHold
<1> QED BY <1>1, <1>2, <1>3, <1>4, UpdateStoryStatusHolds DEF RunStep

-----------------------------------------------------------------------------
(* The users.                                                               *)

LEMMA UserReadsHolds ==
  ASSUME ImportInv, TablesInv, NEW i, NEW patch,
         \/ i \in Live(stories) /\ UserReads(i, patch)
         \/ i \in Live(epics) /\ UserReadsEpic(i, patch)
  PROVE  TablesInv'
<1>1. /\ stories' = stories /\ epics' = epics /\ imp' = imp /\ run' = run
  BY DEF UserReads, UserReadsEpic, UserVars
<1>2. UserHolds'
  <2>1. CASE i \in Live(stories) /\ UserReads(i, patch)
    <3>1. PICK row : row = stories[i]
      OBVIOUS
    <3>2. DOMAIN row = StoryColumns /\ row.status \in StoryStatuses
      BY <2>1, <3>1, TablesNow DEF StoriesFit, StoryRow, RowsTyped, StoryFits, Live
    <3>3. user' = [pc |-> "save", story |-> i, row |-> row, patch |-> patch]
      BY <2>1, <3>1 DEF UserReads
    <3>4. user'.pc = "save" /\ user'.row = row
      BY <3>3
    <3> QED BY <3>2, <3>4 DEF UserHolds
  <2>2. CASE i \in Live(epics) /\ UserReadsEpic(i, patch)
    <3>1. PICK row : row = epics[i]
      OBVIOUS
    <3>2. DOMAIN row = EpicColumns /\ row.status \in EpicStatuses
      BY <2>2, <3>1, TablesNow DEF EpicsFit, EpicFits, Live
    <3>3. user' = [pc |-> "save epic", story |-> i, row |-> row, patch |-> patch]
      BY <2>2, <3>1 DEF UserReadsEpic
    <3>4. user'.pc = "save epic" /\ user'.row = row
      BY <3>3
    <3> QED BY <3>2, <3>4 DEF UserHolds
  <2> QED BY <2>1, <2>2
<1>3. EpicsFit(epics') /\ RowsTyped(stories', epics') /\ RunHolds'
  BY <1>1, TablesNow
<1> QED BY <1>1, <1>2, <1>3, OthersMove

LEMMA NoEditHolds ==
  ASSUME user' = NoEdit
  PROVE  UserHolds'
<1>1. user'.pc = "idle"
  BY DEF NoEdit
<1> QED BY <1>1 DEF UserHolds

LEMMA UserSavesHolds ==
  ASSUME ImportInv, TablesInv, UserSaves
  PROVE  TablesInv'
<1>1. PICK o : o = StoryServiceSave(stories, epics, user.story, user.row, user.patch)
  OBVIOUS
<1>2. PICK r : r = Handle(stories, "admin", o, 200)
  OBVIOUS
<1>3. /\ stories' = r.t /\ epics' = epics /\ run' = run /\ user' = NoEdit
      /\ IF r.status = 200 THEN Foreign(TRUE) ELSE UNCHANGED <<imp, settled, clean>>
  BY <1>1, <1>2 DEF UserSaves, UpdateStoryRequest, UserVars
<1>4. r.t = (IF Ok(o) THEN o.t ELSE stories)
  BY <1>2, HandledAsAdmin
<1>5. RowsTyped(o.t, epics)
  <2>1. CASE o = Invalid(stories)
    <3>1. o.t = stories
      BY <2>1, OutcomeFields DEF Invalid, Refused
    <3> QED BY <3>1, TablesNow
  <2>2. CASE o # Invalid(stories)
    <3>1. PICK s : s = Patched(user.row, user.patch)
      OBVIOUS
    <3>2. o = StoryRepoUpdate(stories, epics, user.story, s) /\ user.patch.status \in StoryStatuses \cup {Nil}
      BY <1>1, <2>2, <3>1 DEF StoryServiceSave
    <3>3. DOMAIN user.row = StoryColumns /\ user.row.status \in StoryStatuses
      BY TablesNow DEF UserHolds, UserSaves
    <3>4. s.status = Coalesce(user.patch.status, user.row.status)
      BY <3>1, <3>3 DEF Patched, StoryColumns
    <3>5. s.status \in StoryStatuses \cup {Nil}
      BY <3>2, <3>3, <3>4 DEF Coalesce
    <3> QED BY <3>2, <3>5, TablesNow, SavedTyped
  <2> QED BY <2>1, <2>2
<1>6. imp' = imp \/ imp' = Disturb(imp, 0)
  BY <1>3, ForeignMoves
<1>7. EpicsFit(epics') /\ RowsTyped(stories', epics') /\ RunHolds'
  BY <1>3, <1>4, <1>5, TablesNow
<1> QED BY <1>3, <1>6, <1>7, NoEditHolds, OthersMove

LEMMA UserDeletesHolds ==
  ASSUME ImportInv, TablesInv, NEW i, UserDeletes(i)
  PROVE  TablesInv'
<1>1. PICK o : o = StoryServiceDelete(stories, i)
  OBVIOUS
<1>2. PICK r : r = Handle(stories, "admin", o, 204)
  OBVIOUS
<1>3. stories' = r.t /\ epics' = epics /\ run' = run /\ user' = user /\ Foreign(TRUE)
  BY <1>1, <1>2 DEF UserDeletes, DeleteStoryRequest, UserVars
<1>4. r.t = (IF Ok(o) THEN o.t ELSE stories)
  BY <1>2, HandledAsAdmin
<1>5. Ok(o) => o = StoryRepoDelete(stories, i)
  BY <1>1 DEF StoryServiceDelete
<1>6. PICK R : R = [j \in DOMAIN stories |-> [stories[j] EXCEPT !.live = stories[j].live /\ j # i]]
  OBVIOUS
<1>7. StoryRepoDelete(stories, i).t = R
  <2>1. PICK q : q = Outcome(R, i, "none")
    OBVIOUS
  <2>2. StoryRepoDelete(stories, i) = RepoExec(q)
    BY <1>6, <2>1 DEF StoryRepoDelete, DeleteStory, Erase
  <2>3. q.t = R /\ DOMAIN q = {"t", "id", "err"}
    BY <2>1, OutcomeFields
  <2> QED BY <2>2, <2>3, RepoFields
<1>8. RowsTyped(R, epics)
  <2>1. ASSUME NEW k \in DOMAIN stories PROVE StoryFits(R[k], epics)
    <3>1. PICK b : b = (stories[k].live /\ k # i)
      OBVIOUS
    <3>2. R[k] = [stories[k] EXCEPT !.live = b] /\ DOMAIN stories[k] = StoryColumns
      BY <1>6, <3>1, TablesNow DEF StoriesFit, StoryRow
    <3>3. R[k].status = stories[k].status /\ R[k].wb = stories[k].wb /\ R[k].epic = stories[k].epic
      BY <3>2 DEF StoryColumns
    <3> QED BY <3>3, TablesNow DEF RowsTyped, StoryFits
  <2>2. DOMAIN R = DOMAIN stories
    BY <1>6
  <2> QED BY <2>1, <2>2 DEF RowsTyped
<1>9. imp' = Disturb(imp, 0)
  BY <1>3 DEF Foreign
<1>10. RowsTyped(r.t, epics)
  BY <1>4, <1>5, <1>7, <1>8, TablesNow
<1>11. EpicsFit(epics') /\ RowsTyped(stories', epics') /\ RunHolds' /\ UserHolds'
  BY <1>3, <1>10, TablesNow
<1> QED BY <1>9, <1>11, OthersMove

LEMMA UserDeletesEpicHolds ==
  ASSUME ImportInv, TablesInv, NEW e, UserDeletesEpic(e)
  PROVE  TablesInv'
<1>1. PICK o : o = EpicServiceDelete(epics, e)
  OBVIOUS
<1>2. PICK r : r = Handle(epics, "admin", o, 204)
  OBVIOUS
<1>3. /\ epics' = r.t /\ stories' = OrphanStories(stories, e)
      /\ run' = run /\ user' = user /\ Foreign(TRUE)
  BY <1>1, <1>2 DEF UserDeletesEpic, DeleteEpicRequest, UserVars
<1>4. r.t = (IF Ok(o) THEN o.t ELSE epics)
  BY <1>2, HandledAsAdmin
<1>5. Ok(o) => o = EpicRepoDelete(epics, e)
  BY <1>1 DEF EpicServiceDelete
<1>6. PICK F : F = [j \in DOMAIN epics |-> [epics[j] EXCEPT !.live = epics[j].live /\ j # e]]
  OBVIOUS
<1>7. EpicRepoDelete(epics, e).t = F
  <2>1. PICK q : q = Outcome(F, e, "none")
    OBVIOUS
  <2>2. EpicRepoDelete(epics, e) = RepoExec(q)
    BY <1>6, <2>1 DEF EpicRepoDelete, DeleteEpic, Erase
  <2>3. q.t = F /\ DOMAIN q = {"t", "id", "err"}
    BY <2>1, OutcomeFields
  <2> QED BY <2>2, <2>3, RepoFields
<1>8. EpicsFit(F) /\ Live(F) = Live(epics) \ {e}
  <2>1. EpicsFit(epics)
    BY TablesNow
  <2>2. ASSUME NEW k \in DOMAIN epics
        PROVE  /\ EpicFits(F[k]) /\ (F[k].live <=> epics[k].live /\ k # e)
               /\ F[k].name = epics[k].name /\ F[k].source = epics[k].source /\ F[k].ext = epics[k].ext
    <3>1. PICK b : b = (epics[k].live /\ k # e)
      OBVIOUS
    <3>2. /\ F[k] = [epics[k] EXCEPT !.live = b] /\ DOMAIN epics[k] = EpicColumns
          /\ epics[k].live \in BOOLEAN /\ epics[k].status \in EpicStatuses
      BY <1>6, <2>1, <3>1 DEF EpicsFit, EpicFits
    <3>3. /\ DOMAIN F[k] = EpicColumns /\ F[k].live = b /\ F[k].status = epics[k].status
          /\ F[k].name = epics[k].name /\ F[k].source = epics[k].source /\ F[k].ext = epics[k].ext
      BY <3>2 DEF EpicColumns
    <3>4. b \in BOOLEAN
      BY <3>1, <3>2
    <3> QED BY <3>1, <3>2, <3>3, <3>4 DEF EpicFits
  <2>3. PICK n \in Nat : DOMAIN epics = 1..n
    BY <2>1, ListingFacts DEF EpicsFit, Listing
  <2>4. DOMAIN F = 1..n /\ F = [k \in 1..n |-> F[k]]
    BY <1>6, <2>3
  <2>5. Listing(F)
    BY <2>4, MappedListing
  <2>6. Live(F) = Live(epics) \ {e}
    BY <2>2, <2>3, <2>4 DEF Live
  <2>7. \A a, k \in Live(F) : a # k => ~EpicClash(F[a], F[k])
    <3>1. TAKE a, k \in Live(F)
    <3>2. a \in Live(epics) /\ k \in Live(epics) /\ a \in DOMAIN epics /\ k \in DOMAIN epics
      BY <2>6 DEF Live
    <3>3. EpicClash(F[a], F[k]) <=> EpicClash(epics[a], epics[k])
      BY <2>2, <3>2 DEF EpicClash, SameRef
    <3> QED BY <2>1, <3>2, <3>3 DEF EpicsFit
  <2> QED BY <2>2, <2>3, <2>4, <2>5, <2>6, <2>7 DEF EpicsFit
<1>9. EpicsFit(r.t) /\ Live(epics) \ {e} \subseteq Live(r.t)
  BY <1>4, <1>5, <1>7, <1>8, TablesNow
<1>10. PICK R : R = OrphanStories(stories, e)
  OBVIOUS
<1>11. RowsTyped(R, r.t)
  <2>1. ASSUME NEW k \in DOMAIN stories PROVE StoryFits(R[k], r.t)
    <3>1. DOMAIN stories[k] = StoryColumns /\ StoryFits(stories[k], epics)
      BY TablesNow DEF StoriesFit, StoryRow, RowsTyped
    <3>2. CASE stories[k].epic = e
      <4>1. R[k] = [stories[k] EXCEPT !.epic = 0]
        BY <1>10, <3>2 DEF OrphanStories
      <4>2. R[k].epic = 0 /\ R[k].status = stories[k].status /\ R[k].wb = stories[k].wb
        BY <3>1, <4>1 DEF StoryColumns
      <4> QED BY <3>1, <4>2 DEF StoryFits
    <3>3. CASE stories[k].epic # e
      <4>1. R[k] = stories[k]
        BY <1>10, <3>3 DEF OrphanStories
      <4> QED BY <1>9, <3>1, <3>3, <4>1 DEF StoryFits
    <3> QED BY <3>2, <3>3
  <2>2. DOMAIN R = DOMAIN stories
    BY <1>10 DEF OrphanStories
  <2> QED BY <2>1, <2>2 DEF RowsTyped
<1>12. imp' = Disturb(imp, 0)
  BY <1>3 DEF Foreign
<1>13. EpicsFit(epics') /\ RowsTyped(stories', epics') /\ RunHolds' /\ UserHolds'
  BY <1>3, <1>9, <1>10, <1>11, TablesNow
<1> QED BY <1>12, <1>13, OthersMove

LEMMA UserCreatesHolds ==
  ASSUME ImportInv, TablesInv, NEW s, UserCreates(s)
  PROVE  TablesInv'
<1>1. PICK o : o = StoryServiceCreate(stories, epics, s)
  OBVIOUS
<1>2. PICK r : r = Handle(stories, "admin", o, 201)
  OBVIOUS
<1>3. stories' = r.t /\ epics' = epics /\ run' = run /\ user' = user /\ Foreign(TRUE)
  BY <1>1, <1>2 DEF UserCreates, CreateStoryRequest, UserVars
<1>4. r.t = (IF Ok(o) THEN o.t ELSE stories)
  BY <1>2, HandledAsAdmin
<1>5. RowsTyped(o.t, epics)
  <2>1. CASE o = Invalid(stories)
    <3>1. o.t = stories
      BY <2>1, OutcomeFields DEF Invalid, Refused
    <3> QED BY <3>1, TablesNow
  <2>2. CASE o # Invalid(stories)
    <3>1. PICK w : w = WithStatus(s)
      OBVIOUS
    <3>2. o = StoryRepoCreate(stories, epics, w) /\ w.status \in StoryStatuses
      BY <1>1, <2>2, <3>1 DEF StoryServiceCreate
    <3> QED BY <3>2, TablesNow, CreatedTyped
  <2> QED BY <2>1, <2>2
<1>6. imp' = Disturb(imp, 0)
  BY <1>3 DEF Foreign
<1>7. EpicsFit(epics') /\ RowsTyped(stories', epics') /\ RunHolds' /\ UserHolds'
  BY <1>3, <1>4, <1>5, TablesNow
<1> QED BY <1>6, <1>7, OthersMove

LEMMA UserWritesEpicHolds ==
  ASSUME ImportInv, TablesInv, UserSavesEpic \/ \E e : UserCreatesEpic(e)
  PROVE  TablesInv'
<1>1. PICK o : /\ EpicsKept(epics, o.t) /\ stories' = stories /\ run' = run
               /\ imp' = imp \/ imp' = Disturb(imp, 0)
               /\ UserHolds' /\ (epics' = epics \/ epics' = o.t)
  <2>1. CASE UserSavesEpic
    <3>1. PICK o : o = EpicServiceSave(epics, user.story, user.row, user.patch)
      OBVIOUS
    <3>2. PICK r : r = Handle(epics, "admin", o, 200)
      OBVIOUS
    <3>3. /\ epics' = r.t /\ stories' = stories /\ run' = run /\ user' = NoEdit
          /\ IF r.status = 200 THEN Foreign(TRUE) ELSE UNCHANGED <<imp, settled, clean>>
      BY <2>1, <3>1, <3>2 DEF UserSavesEpic, UpdateEpicRequest, UserVars
    <3>4. r.t = epics \/ r.t = o.t
      BY <3>2, HandledAsAdmin
    <3>5. EpicsKept(epics, o.t)
      <4>1. CASE o = Invalid(epics)
        <5>1. o.t = epics
          BY <4>1, OutcomeFields DEF Invalid, Refused
        <5> QED BY <5>1, TablesNow DEF EpicsKept
      <4>2. CASE o # Invalid(epics)
        <5>1. PICK row : row = [user.row EXCEPT !.name = Coalesce(user.patch.name, @),
                                                !.status = Coalesce(user.patch.status, @)]
          OBVIOUS
        <5>2. o = EpicRepoUpdate(epics, user.story, row) /\ user.patch.status \in EpicStatuses \cup {Nil}
          BY <3>1, <4>2, <5>1 DEF EpicServiceSave
        <5>3. DOMAIN user.row = EpicColumns /\ user.row.status \in EpicStatuses
          BY <2>1, TablesNow DEF UserHolds, UserSavesEpic
        <5>4. row.status = Coalesce(user.patch.status, user.row.status)
          BY <5>1, <5>3 DEF EpicColumns
        <5>5. row.status \in EpicStatuses
          BY <5>2, <5>3, <5>4 DEF Coalesce
        <5> QED BY <5>2, <5>5, TablesNow, EpicsKeptBy
      <4> QED BY <4>1, <4>2
    <3>6. imp' = imp \/ imp' = Disturb(imp, 0)
      BY <3>3, ForeignMoves
    <3>7. UserHolds'
      BY <3>3, NoEditHolds
    <3> QED BY <3>3, <3>4, <3>5, <3>6, <3>7
  <2>2. CASE \E e : UserCreatesEpic(e)
    <3>1. PICK e : UserCreatesEpic(e)
      BY <2>2
    <3>2. PICK o : o = EpicServiceCreate(epics, e)
      OBVIOUS
    <3>3. PICK r : r = Handle(epics, "admin", o, 201)
      OBVIOUS
    <3>4. epics' = r.t /\ stories' = stories /\ run' = run /\ user' = user /\ Foreign(TRUE)
      BY <3>1, <3>2, <3>3 DEF UserCreatesEpic, CreateEpicRequest, UserVars
    <3>5. r.t = epics \/ r.t = o.t
      BY <3>3, HandledAsAdmin
    <3>6. EpicsKept(epics, o.t)
      <4>1. CASE o = Invalid(epics)
        <5>1. o.t = epics
          BY <4>1, OutcomeFields DEF Invalid, Refused
        <5> QED BY <5>1, TablesNow DEF EpicsKept
      <4>2. CASE o # Invalid(epics)
        <5>1. PICK w : w = WithStatus(e)
          OBVIOUS
        <5>2. o = EpicRepoCreate(epics, w) /\ w.status \in EpicStatuses
          BY <3>2, <4>2, <5>1 DEF EpicServiceCreate
        <5> QED BY <5>2, TablesNow, EpicsKeptBy
      <4> QED BY <4>1, <4>2
    <3>7. imp' = Disturb(imp, 0)
      BY <3>4 DEF Foreign
    <3>8. UserHolds'
      BY <3>4, TablesNow
    <3> QED BY <3>4, <3>5, <3>6, <3>7, <3>8
  <2> QED BY <2>1, <2>2
<1>2. EpicsFit(epics') /\ Live(epics) \subseteq Live(epics')
  BY <1>1, TablesNow DEF EpicsKept
<1>3. RowsTyped(stories', epics')
  BY <1>1, <1>2, TablesNow, RowsTypedStill
<1>4. RunHolds'
  BY <1>1, TablesNow
<1> QED BY <1>1, <1>2, <1>3, <1>4, OthersMove

LEMMA EditingHolds ==
  ASSUME ImportInv, TablesInv, Editing
  PROVE  TablesInv'
<1>1. CASE \E k \in DOMAIN board : BoardEdited(Renamed(k))
  <2>1. stories' = stories /\ epics' = epics /\ user' = user /\ run' = run /\ imp' = Disturb(imp, 0)
    BY <1>1 DEF BoardEdited, Foreign
  <2>2. Marked /\ RunHolds'
    BY <2>1, TablesNow DEF Marked
  <2> QED BY <2>1, <2>2, MarksHold
<1> QED BY <1>1, UserReadsHolds, UserSavesHolds, UserDeletesHolds, UserDeletesEpicHolds,
           UserCreatesHolds, UserWritesEpicHolds DEF Editing

-----------------------------------------------------------------------------
(* The worker, and the whole.                                               *)

LEMMA OutcomesMark ==
  ASSUME NEW j, NEW answer, NEW err
  PROVE  /\ \A mark \in WriteBackStatuses : RecordOutcome(j, mark) => Marked
         /\ AttemptFailed(j, answer, err) => Marked
         /\ \A pc : Advance(j, pc) => Marked
<1>1. ASSUME NEW mark \in WriteBackStatuses, RecordOutcome(j, mark) PROVE Marked
  BY <1>1 DEF RecordOutcome, Marked
<1>2. "failed" \in WriteBackStatuses
  BY DEF WriteBackStatuses
<1>3. ASSUME AttemptFailed(j, answer, err) PROVE Marked
  <2>1. CASE RetryLater(j)
    BY <2>1 DEF RetryLater, Marked
  <2>2. CASE stories' = StoryRepoSetWritebackStatus(stories, jobs[j].story, "failed").t
    BY <1>2, <2>2 DEF Marked
  <2>3. CASE RecordOutcome(j, "failed")
    BY <1>1, <1>2, <2>3
  <2> QED BY <1>3, <2>1, <2>2, <2>3 DEF AttemptFailed
<1>4. ASSUME NEW pc, Advance(j, pc) PROVE Marked
  BY <1>4 DEF Advance, Marked
<1> QED BY <1>1, <1>3, <1>4

LEMMA WriteBackHolds ==
  ASSUME ImportInv, TablesInv, NEW j, WriteBackStep(j)
  PROVE  TablesInv'
<1>1. epics' = epics /\ user' = user /\ run' = run
  BY DEF WriteBackStep, SyncStatus, FindBoard, StatusOptions, PushStatus, WorkVars
<1>2. imp' = imp \/ imp' = Disturb(imp, 0)
  BY DEF WriteBackStep, SyncStatus, FindBoard, StatusOptions, PushStatus, Foreign
<1>3. {"disabled", "failed", "synced"} \subseteq WriteBackStatuses
  BY DEF WriteBackStatuses
<1>4. Marked
  <2>1. CASE SyncStatus(j)
    <3>1. stories' = stories \/ RecordOutcome(j, "disabled") \/ RecordOutcome(j, "failed")
      BY <2>1 DEF SyncStatus
    <3> QED BY <1>3, <3>1, OutcomesMark DEF Marked
  <2>2. CASE FindBoard(j)
    <3>1. \E answer, err : Advance(j, "field") \/ AttemptFailed(j, answer, err)
      BY <2>2 DEF FindBoard
    <3> QED BY <3>1, OutcomesMark
  <2>3. CASE StatusOptions(j)
    <3>1. \E answer, err : Advance(j, "push") \/ AttemptFailed(j, answer, err)
      BY <2>3 DEF StatusOptions
    <3> QED BY <3>1, OutcomesMark
  <2>4. CASE PushStatus(j)
    <3>1. \E answer, err : RecordOutcome(j, "synced") \/ AttemptFailed(j, answer, err)
      BY <2>4 DEF PushStatus
    <3> QED BY <1>3, <3>1, OutcomesMark
  <2> QED BY <2>1, <2>2, <2>3, <2>4 DEF WriteBackStep
<1>5. RunHolds'
  BY <1>1, TablesNow
<1> QED BY <1>1, <1>2, <1>4, <1>5, MarksHold

LEMMA WritingHolds ==
  ASSUME ImportInv, TablesInv, Writing
  PROVE  TablesInv'
<1>1. ASSUME NEW c, SetConnector("owner", c) PROVE TablesInv'
  <2>1. /\ epics' = epics /\ stories' = stories /\ imp' = imp /\ run' = run /\ user' = user
    BY <1>1 DEF SetConnector
  <2>2. Marked /\ RunHolds'
    BY <2>1, TablesNow DEF Marked
  <2> QED BY <2>1, <2>2, MarksHold
<1>2. ASSUME NEW i, LaunchStory(i) PROVE TablesInv'
  <2>1. /\ epics' = epics /\ stories' = stories /\ imp' = imp /\ user' = user
        /\ run' = [NoRun EXCEPT !.pc = "load", !.story = i, !.target = "running"]
    BY <1>2 DEF LaunchStory
  <2>2. run'.target = "running"
    BY <2>1 DEF NoRun
  <2>3. Marked /\ RunHolds'
    BY <2>1, <2>2 DEF Marked, RunHolds, StoryStatuses
  <2> QED BY <2>1, <2>3, MarksHold
<1> QED BY <1>1, <1>2, RunStepHolds, EditingHolds, WriteBackHolds DEF Writing

LEMMA TablesInvKept ==
  ASSUME ImportInv, TablesInv, [Next]_vars
  PROVE  TablesInv'
<1>1. ASSUME UNCHANGED <<planVars, run, user>> PROVE TablesInv'
  <2>1. epics' = epics /\ stories' = stories /\ imp' = imp /\ run' = run /\ user' = user
    BY <1>1 DEF planVars
  <2>2. Marked /\ RunHolds'
    BY <2>1, TablesNow DEF Marked
  <2> QED BY <2>1, <2>2, MarksHold
<1>2. CASE Requests
  BY <1>1, <1>2 DEF Requests, writeVars
<1>3. CASE GitWork
  BY <1>1, <1>3 DEF GitWork, writeVars
<1>4. CASE UNCHANGED vars
  BY <1>1, <1>4 DEF vars, writeVars
<1> QED BY <1>2, <1>3, <1>4, ImportingHolds, WritingHolds DEF Next

-----------------------------------------------------------------------------
(* The budgets and the jobs.                                                *)

Budgeted == left \in [Budgets -> Nat]

LEMMA Spent ==
  ASSUME Budgeted, NEW b \in Budgets, NEW n \in 0..left[b],
         left' = [left EXCEPT ![b] = left[b] - n]
  PROVE  Budgeted'
<1>1. left[b] - n \in Nat
  BY DEF Budgeted
<1> QED BY <1>1 DEF Budgeted

LEMMA OneSpent ==
  ASSUME Budgeted, NEW b \in Budgets, left[b] > 0,
         left' = [left EXCEPT ![b] = left[b] - 1]
  PROVE  Budgeted'
<1>1. 1 \in 0..left[b]
  BY DEF Budgeted
<1> QED BY <1>1, Spent

(* What is lost is paid for.                                                *)
LEMMA LossesSpent ==
  ASSUME Budgeted, NEW a, NEW b, NEW lost \in SUBSET {a, b}, Cardinality(lost) <= left.faults,
         left' = [left EXCEPT !.faults = left.faults - Cardinality(lost)]
  PROVE  Budgeted'
<1>1. IsFiniteSet({a, b})
  <2>1. IsFiniteSet({a})
    BY FS_Singleton
  <2>2. IsFiniteSet({a} \cup {b})
    BY <2>1, FS_AddElement
  <2>3. {a, b} = {a} \cup {b}
    OBVIOUS
  <2> QED BY <2>2, <2>3
<1>2. IsFiniteSet(lost)
  BY <1>1, FS_Subset
<1>3. Cardinality(lost) \in Nat
  BY <1>2, FS_CardinalityType
<1>4. "faults" \in Budgets /\ left.faults \in Nat
  BY DEF Budgeted, Budgets
<1>5. Cardinality(lost) \in 0..left["faults"]
  BY <1>3, <1>4
<1> QED BY <1>4, <1>5, Spent

(* An answer that is a fault is there to be spent.                          *)
LEMMA FaultSpent ==
  ASSUME Budgeted, NEW token, NEW answer \in QueryAnswers(token), SpendFault(answer)
  PROVE  Budgeted'
<1>1. OperationError(token) \notin Passing
  BY DEF OperationError, Passing
<1>2. answer \in Passing => left.faults > 0
  BY <1>1 DEF QueryAnswers
<1>3. "faults" \in Budgets
  BY DEF Budgets
<1>4. CASE answer \in Passing
  <2>1. left' = [left EXCEPT !["faults"] = left["faults"] - 1]
    BY <1>4 DEF SpendFault
  <2> QED BY <1>2, <1>3, <1>4, <2>1, OneSpent
<1>5. CASE answer \notin Passing
  <2>1. left' = [left EXCEPT !.faults = left.faults]
    BY <1>5 DEF SpendFault
  <2>2. left' = left
    BY <1>3, <2>1 DEF Budgeted
  <2> QED BY <2>2 DEF Budgeted
<1> QED BY <1>4, <1>5

LEMMA JobMoves ==
  ASSUME QueueFits(jobs), NEW j \in DOMAIN jobs, NEW w, jobs' = [jobs EXCEPT ![j] = w],
         DOMAIN w = JobColumns, JobFits(w)
  PROVE  QueueFits(jobs')
<1>1. PICK n \in Nat : DOMAIN jobs = 1..n /\ jobs \in [1..n -> Range(jobs)]
  BY ListingFacts DEF QueueFits, Listing
<1>2. PICK Q : Q = [jobs EXCEPT ![j] = w]
  OBVIOUS
<1>3. DOMAIN Q = 1..n /\ Q = [k \in 1..n |-> Q[k]]
  BY <1>1, <1>2
<1>4. Listing(Q)
  BY <1>3, MappedListing
<1>5. Q[j] = w /\ \A k \in DOMAIN jobs \ {j} : Q[k] = jobs[k]
  BY <1>1, <1>2
<1> QED BY <1>1, <1>2, <1>3, <1>4, <1>5 DEF QueueFits

(* A job that is worked on may go on, end, or be tried again.               *)
Acts(j) == j \in DOMAIN jobs /\ jobs[j].pc \in {"queued", "resolve", "field", "push"}

LEMMA JobGoesOn ==
  ASSUME QueueFits(jobs), NEW j, Acts(j), NEW pc \in {"resolve", "field", "push", "done"},
         NEW token, NEW item, NEW option,
         \/ jobs' = [jobs EXCEPT ![j].pc = pc]
         \/ jobs' = [jobs EXCEPT ![j].pc = pc, ![j].token = token]
         \/ jobs' = [jobs EXCEPT ![j].pc = pc, ![j].token = token, ![j].item = item,
                                 ![j].option = option]
  PROVE  QueueFits(jobs')
<1>1. PICK v : v = jobs[j]
  OBVIOUS
<1>2. DOMAIN v = JobColumns /\ JobFits(v) /\ v.pc \in {"queued", "resolve", "field", "push"}
  BY <1>1 DEF QueueFits, Acts
<1>3. PICK w : /\ jobs' = [jobs EXCEPT ![j] = w]
               /\ \/ w = [v EXCEPT !.pc = pc]
                  \/ w = [v EXCEPT !.pc = pc, !.token = token]
                  \/ w = [v EXCEPT !.pc = pc, !.token = token, !.item = item, !.option = option]
  BY <1>1 DEF Acts
<1>4. DOMAIN w = JobColumns /\ w.pc = pc /\ w.tries = v.tries
  BY <1>2, <1>3 DEF JobColumns
<1>5. JobFits(w)
  BY <1>2, <1>4 DEF JobFits
<1> QED BY <1>3, <1>4, <1>5, JobMoves DEF Acts

LEMMA JobRetried ==
  ASSUME QueueFits(jobs), NEW j, Acts(j), RetryLater(j)
  PROVE  QueueFits(jobs')
<1>1. PICK v : v = jobs[j]
  OBVIOUS
<1>2. DOMAIN v = JobColumns /\ JobFits(v) /\ v.pc \in {"queued", "resolve", "field", "push"}
  BY <1>1 DEF QueueFits, Acts
<1>3. PICK tried, pc : tried = v.tries + 1 /\ pc = (IF tried >= Attempts THEN "discarded" ELSE "queued")
  OBVIOUS
<1>4. jobs' = [jobs EXCEPT ![j].tries = tried, ![j].token = Nil, ![j].pc = pc]
  BY <1>1, <1>3 DEF RetryLater
<1>5. PICK w : w = [v EXCEPT !.tries = tried, !.token = Nil, !.pc = pc]
  OBVIOUS
<1>6. jobs' = [jobs EXCEPT ![j] = w]
  BY <1>1, <1>4, <1>5 DEF Acts
<1>7. DOMAIN w = JobColumns /\ w.pc = pc /\ w.tries = tried
  BY <1>2, <1>5 DEF JobColumns
<1>8. v.tries \in 0..Attempts /\ v.tries # Attempts /\ Attempts \in Nat
  BY <1>2, AttemptsAssumption DEF JobFits
<1>9. tried \in 0..Attempts /\ (tried = Attempts <=> pc = "discarded") /\ pc \in {"queued", "discarded"}
  BY <1>3, <1>8
<1>10. JobFits(w)
  BY <1>7, <1>9 DEF JobFits
<1> QED BY <1>6, <1>7, <1>10, JobMoves DEF Acts

LEMMA OutcomeFits ==
  ASSUME BudgetInv, NEW j, Acts(j), NEW mark, RecordOutcome(j, mark)
  PROVE  BudgetInv'
<1>1. QueueFits(jobs) /\ Budgeted
  BY DEF BudgetInv, Budgeted
<1>2. jobs' = [jobs EXCEPT ![j].pc = "done", ![j].token = Nil]
  BY DEF RecordOutcome
<1>3. QueueFits(jobs')
  BY <1>1, <1>2, JobGoesOn
<1>4. PICK lost \in SUBSET {"mark", "row"} :
        /\ Cardinality(lost) <= left.faults
        /\ left' = [left EXCEPT !.faults = left.faults - Cardinality(lost)]
  BY DEF RecordOutcome
<1>5. Budgeted'
  BY <1>1, <1>4, LossesSpent
<1> QED BY <1>3, <1>5 DEF BudgetInv, Budgeted

LEMMA AttemptFits ==
  ASSUME BudgetInv, NEW j, Acts(j), NEW token, NEW answer, NEW err, AttemptFailed(j, answer, err),
         answer \in QueryAnswers(token) \cup (IF left.faults > 0 THEN {"lost"} ELSE {})
  PROVE  BudgetInv'
<1>1. QueueFits(jobs) /\ Budgeted
  BY DEF BudgetInv, Budgeted
<1>2. CASE RetryLater(j) /\ SpendFault(answer)
  <2>1. QueueFits(jobs')
    BY <1>1, <1>2, JobRetried
  <2>2. Budgeted'
    <3>1. CASE answer \in QueryAnswers(token)
      BY <1>1, <1>2, <3>1, FaultSpent
    <3>2. CASE answer = "lost"
      <4>1. answer \notin Passing /\ "faults" \in Budgets
        BY <3>2 DEF Passing, Budgets
      <4>2. left' = [left EXCEPT !.faults = left.faults]
        BY <1>2, <4>1 DEF SpendFault
      <4>3. left' = left
        BY <1>1, <4>1, <4>2 DEF Budgeted
      <4> QED BY <1>1, <4>3 DEF Budgeted
    <3> QED BY <3>1, <3>2
  <2> QED BY <2>1, <2>2 DEF BudgetInv, Budgeted
<1>3. CASE /\ answer \in Passing \cup {"lost"}
           /\ jobs' = [jobs EXCEPT ![j].pc = "done"]
           /\ left' = [left EXCEPT !.faults = left.faults - 1]
  <2>1. QueueFits(jobs')
    BY <1>1, <1>3, JobGoesOn
  <2>2. left.faults > 0
    <3>1. \A t : OperationError(t) \notin Passing \cup {"lost"}
      BY DEF OperationError, Passing
    <3> QED BY <1>3, <3>1 DEF QueryAnswers
  <2>3. "faults" \in Budgets
    BY DEF Budgets
  <2>4. Budgeted'
    BY <1>1, <1>3, <2>2, <2>3, OneSpent
  <2> QED BY <2>1, <2>4 DEF BudgetInv, Budgeted
<1>4. CASE RecordOutcome(j, "failed")
  BY <1>4, OutcomeFits
<1> QED BY <1>2, <1>3, <1>4 DEF AttemptFailed

LEMMA AdvanceFits ==
  ASSUME BudgetInv, NEW j, Acts(j), NEW pc \in {"field", "push"}, Advance(j, pc)
  PROVE  BudgetInv'
<1>1. jobs' = [jobs EXCEPT ![j].pc = pc] /\ left' = left
  BY DEF Advance
<1>2. QueueFits(jobs')
  BY <1>1, JobGoesOn DEF BudgetInv
<1> QED BY <1>1, <1>2 DEF BudgetInv

LEMMA WriteBackFits ==
  ASSUME BudgetInv, NEW j \in DOMAIN jobs, WriteBackStep(j)
  PROVE  BudgetInv'
<1>1. Acts(j)
  BY DEF Acts, WriteBackStep, SyncStatus, FindBoard, StatusOptions, PushStatus
<1>2. CASE SyncStatus(j)
  <2>1. CASE jobs' = [jobs EXCEPT ![j].pc = "done"] /\ left' = left
    <3>1. QueueFits(jobs')
      BY <1>1, <2>1, JobGoesOn DEF BudgetInv
    <3> QED BY <2>1, <3>1 DEF BudgetInv
  <2>2. ASSUME NEW token, NEW item, NEW option, left' = left,
               jobs' = [jobs EXCEPT ![j].pc = "resolve", ![j].token = token,
                                    ![j].item = item, ![j].option = option]
        PROVE  BudgetInv'
    <3>1. QueueFits(jobs')
      <4>1. "resolve" \in {"resolve", "field", "push", "done"}
        OBVIOUS
      <4> QED BY <1>1, <2>2, <4>1, JobGoesOn DEF BudgetInv
    <3> QED BY <2>2, <3>1 DEF BudgetInv
  <2>3. CASE RecordOutcome(j, "disabled") \/ RecordOutcome(j, "failed")
    BY <1>1, <2>3, OutcomeFits
  <2>4. PICK t, it, op : /\ t = TokenForProject(conn).token /\ it = stories[jobs[j].story].item
                         /\ op = OptionFor(connector.mapping, jobs[j].status)
    OBVIOUS
  <2>5. \/ jobs' = [jobs EXCEPT ![j].pc = "done"] /\ left' = left
        \/ RecordOutcome(j, "disabled") \/ RecordOutcome(j, "failed")
        \/ /\ jobs' = [jobs EXCEPT ![j].pc = "resolve", ![j].token = t, ![j].item = it, ![j].option = op]
           /\ left' = left
    BY <1>2, <2>4 DEF SyncStatus
  <2>6. CASE /\ jobs' = [jobs EXCEPT ![j].pc = "resolve", ![j].token = t, ![j].item = it, ![j].option = op]
             /\ left' = left
    BY <2>2, <2>6
  <2> QED BY <2>1, <2>3, <2>5, <2>6
<1>3. CASE FindBoard(j)
  <2>1. \E token, err : \E answer \in QueryAnswers(token) : Advance(j, "field") \/ AttemptFailed(j, answer, err)
    BY <1>3 DEF FindBoard
  <2> QED BY <1>1, <2>1, AdvanceFits, AttemptFits
<1>4. CASE StatusOptions(j)
  <2>1. \E token, err : \E answer \in QueryAnswers(token) : Advance(j, "push") \/ AttemptFailed(j, answer, err)
    BY <1>4 DEF StatusOptions
  <2> QED BY <1>1, <2>1, AdvanceFits, AttemptFits
<1>5. CASE PushStatus(j)
  <2>1. \E token, err : \E answer \in QueryAnswers(token) \cup (IF left.faults > 0 THEN {"lost"} ELSE {}) :
            RecordOutcome(j, "synced") \/ AttemptFailed(j, answer, err)
    BY <1>5 DEF PushStatus
  <2> QED BY <1>1, <2>1, OutcomeFits, AttemptFits
<1> QED BY <1>2, <1>3, <1>4, <1>5 DEF WriteBackStep

LEMMA ImportingFits ==
  ASSUME BudgetInv, Importing
  PROVE  BudgetInv'
<1>1. jobs' = jobs /\ QueueFits(jobs) /\ Budgeted /\ {"imports", "faults"} \subseteq Budgets
  BY DEF Importing, writeVars, BudgetInv, Budgeted, Budgets
<1>2. PICK p \in Imports : Import(p) \/ ImportStep(p) \/ ItemFault(p)
  BY DEF Importing
<1>3. CASE Import(p)
  <2>1. left.imports > 0 /\ left' = [left EXCEPT !["imports"] = left["imports"] - 1]
    BY <1>3 DEF Import, ImportPlanning
  <2> QED BY <1>1, <2>1, OneSpent DEF BudgetInv, Budgeted
<1>4. CASE ItemFault(p)
  <2>1. left.faults > 0 /\ left' = [left EXCEPT !["faults"] = left["faults"] - 1]
    BY <1>4 DEF ItemFault
  <2> QED BY <1>1, <2>1, OneSpent DEF BudgetInv, Budgeted
<1>5. CASE Resolve(p) \/ Fetch(p)
  <2>1. \E token : \E answer \in QueryAnswers(token) : SpendFault(answer)
    BY <1>5 DEF Resolve, Fetch
  <2>2. Budgeted'
    BY <1>1, <2>1, FaultSpent
  <2> QED BY <1>1, <2>2 DEF BudgetInv, Budgeted
<1>6. CASE left' = left
  BY <1>1, <1>6 DEF BudgetInv, Budgeted
<1>7. For(p) \/ EpicByRef(p) \/ EpicByName(p) \/ StoryByIdentity(p) \/ ResolveKey(p) => left' = left
  BY DEF For, EpicByRef, EpicByName, StoryByIdentity, ResolveKey, Reads
<1>8. EpicWrite(p) => left' = left
  BY DEF EpicWrite, Writes
<1>9. StoryWrite(p) => left' = left
  BY DEF StoryWrite, Reads, Writes
<1> QED BY <1>2, <1>3, <1>4, <1>5, <1>6, <1>7, <1>8, <1>9 DEF ImportStep

LEMMA WritingFits ==
  ASSUME BudgetInv, Writing
  PROVE  BudgetInv'
<1>1. QueueFits(jobs) /\ Budgeted /\ {"edits", "runs", "connects", "faults"} \subseteq Budgets
  BY DEF BudgetInv, Budgeted, Budgets
<1>2. ASSUME jobs' = jobs,
             \/ left' = left
             \/ \E b \in {"edits", "runs", "connects"} :
                  left[b] > 0 /\ left' = [left EXCEPT ![b] = left[b] - 1]
      PROVE  BudgetInv'
  <2>1. Budgeted'
    BY <1>1, <1>2, OneSpent DEF Budgeted
  <2> QED BY <1>1, <1>2, <2>1 DEF BudgetInv, Budgeted
<1>3. ASSUME NEW c, SetConnector("owner", c) PROVE BudgetInv'
  BY <1>2, <1>3 DEF SetConnector
<1>4. ASSUME NEW i, LaunchStory(i) PROVE BudgetInv'
  BY <1>2, <1>4 DEF LaunchStory
<1>5. CASE Editing
  <2>1. jobs' = jobs
    BY <1>5 DEF Editing, UserReads, UserDeletes, UserSaves, UserDeletesEpic, UserCreates,
       UserReadsEpic, UserSavesEpic, UserCreatesEpic, BoardEdited, UserVars
  <2>2. left' = left \/ (left.edits > 0 /\ left' = [left EXCEPT !.edits = left.edits - 1])
    BY <1>5 DEF Editing, UserReads, UserDeletes, UserSaves, UserDeletesEpic, UserCreates,
       UserReadsEpic, UserSavesEpic, UserCreatesEpic, BoardEdited
  <2> QED BY <1>2, <2>1, <2>2
<1>6. CASE LoadStatus \/ UpdateStoryStatus \/ EnterStage \/ ClearStage \/ \E t : RunEnds(t)
  <2>1. jobs' = jobs /\ left' = left
    BY <1>6 DEF LoadStatus, UpdateStoryStatus, EnterStage, ClearStage, StoreStage, RunEnds, planVars
  <2> QED BY <1>2, <2>1
<1>7. CASE EnqueueWriteBack
  <2>1. PICK lost \in SUBSET {"mark", "job"} :
          /\ Cardinality(lost) <= left.faults
          /\ left' = [left EXCEPT !.faults = left.faults - Cardinality(lost)]
          /\ jobs' = IF "job" \in lost THEN jobs ELSE Append(jobs, NewJob(run.story, run.target))
    BY <1>7 DEF EnqueueWriteBack
  <2>2. Budgeted'
    BY <1>1, <2>1, LossesSpent
  <2>3. PICK w : w = NewJob(run.story, run.target)
    OBVIOUS
  <2>4. DOMAIN w = JobColumns /\ w.pc = "queued" /\ w.tries = 0
    BY <2>3 DEF NewJob, JobColumns
  <2>5. JobFits(w)
    BY <2>4, AttemptsAssumption DEF JobFits
  <2>6. QueueFits(Append(jobs, w))
    <3>1. PICK Q : Q = Append(jobs, w)
      OBVIOUS
    <3>2. /\ Listing(Q) /\ Len(jobs) \in Nat /\ DOMAIN jobs = 1..Len(jobs)
          /\ DOMAIN Q = 1..(Len(jobs) + 1) /\ Q[Len(jobs) + 1] = w
          /\ \A k \in DOMAIN jobs : Q[k] = jobs[k]
      BY <1>1, <3>1, AppendedListing DEF QueueFits
    <3>3. \A k \in DOMAIN Q : k \in DOMAIN jobs \/ k = Len(jobs) + 1
      BY <3>2
    <3> QED BY <1>1, <2>4, <2>5, <3>1, <3>2, <3>3 DEF QueueFits
  <2>7. QueueFits(jobs')
    BY <1>1, <2>1, <2>3, <2>6
  <2> QED BY <2>2, <2>7 DEF BudgetInv, Budgeted
<1> QED BY <1>3, <1>4, <1>5, <1>6, <1>7, WriteBackFits DEF Writing, RunStep

LEMMA BudgetInvKept ==
  ASSUME BudgetInv, [Next]_vars
  PROVE  BudgetInv'
<1>1. ASSUME UNCHANGED <<left, jobs>> PROVE BudgetInv'
  BY <1>1 DEF BudgetInv
<1>2. CASE Requests \/ GitWork \/ UNCHANGED vars
  <2>1. UNCHANGED <<left, jobs>>
    BY <1>2 DEF Requests, GitWork, vars, planVars, writeVars
  <2> QED BY <1>1, <2>1
<1> QED BY <1>2, ImportingFits, WritingFits DEF Next

LEMMA RowInvHolds == Init => RowInv
<1> SUFFICES ASSUME Init PROVE RowInv
  OBVIOUS
<1>1. PICK s \in Scenarios :
        /\ stories = s.stories /\ epics = s.epics /\ left = s.left /\ jobs = s.jobs
        /\ imp = [p \in Imports |-> IdleImport] /\ run = NoRun /\ user = NoEdit
  BY DEF Init
<1>2. EpicsFit(s.epics)
  BY ProjectAssumption DEF EpicsFit, Listing, Live
<1>3. RowsTyped(s.stories, s.epics)
  BY ProjectAssumption DEF RowsTyped
<1>4. QueueFits(s.jobs) /\ s.left \in [Budgets -> Nat]
  BY ProjectAssumption DEF QueueFits, Listing
<1>5. \A p \in Imports : ImportHolds(imp[p])
  BY <1>1 DEF ImportHolds, IdleImport
<1>6. UserHolds /\ RunHolds
  BY <1>1 DEF UserHolds, RunHolds, NoEdit, NoRun
<1>7. TablesInv
  BY <1>1, <1>2, <1>3, <1>5, <1>6 DEF TablesInv
<1>8. BudgetInv
  BY <1>1, <1>4 DEF BudgetInv
<1> QED BY <1>7, <1>8, ImportInvHolds DEF RowInv

(* RowsStayFit: no two stories share a key or a source reference, no two    *)
(* epics a name or a reference, no story points to an epic that is gone or  *)
(* holds a status the schema does not know, no write-back job is attempted  *)
(* more often than its MaxAttempts, and no budget is overdrawn.  That is    *)
(* the unique indexes and the foreign key behind every statement, the       *)
(* statuses an import decides on the row it read long before, the whole     *)
(* rows that users and the executor store, DeleteEpic's ON DELETE SET NULL, *)
(* and River's discard.                                                     *)
THEOREM RowsStayFit == Spec => []RowsFit
<1>1. Init => RowInv
  BY RowInvHolds
<1>2. RowInv /\ [Next]_vars => RowInv'
  BY ImportInvKept, TablesInvKept, BudgetInvKept DEF RowInv
<1>3. RowInv => RowsFit
  <2> SUFFICES ASSUME RowInv PROVE RowsFit
    OBVIOUS
  <2>1. /\ EpicsFit(epics) /\ RowsTyped(stories, epics) /\ StoriesFit(stories)
        /\ QueueFits(jobs) /\ left \in [Budgets -> Nat]
    BY TablesNow DEF RowInv, BudgetInv
  <2>2. ASSUME NEW i \in Live(stories)
        PROVE  /\ StoryFits(stories[i], epics)
               /\ \A k \in Live(stories) \ {i} : ~StoryClash(stories[i], stories[k])
    BY <2>1 DEF RowsTyped, StoriesFit, Live
  <2>3. ASSUME NEW e \in Live(epics)
        PROVE  /\ EpicFits(epics[e])
               /\ \A k \in Live(epics) \ {e} : ~EpicClash(epics[e], epics[k])
    BY <2>1 DEF EpicsFit, Live
  <2>4. \A j \in DOMAIN jobs : JobFits(jobs[j])
    BY <2>1 DEF QueueFits
  <2>5. \A b \in DOMAIN left : left[b] \in Nat
    BY <2>1
  <2> QED BY <2>2, <2>3, <2>4, <2>5 DEF RowsFit
<1> QED BY <1>1, <1>2, <1>3, PTL DEF Spec
==============================================================================
