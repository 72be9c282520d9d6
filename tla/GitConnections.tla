---------------------------- MODULE GitConnections ----------------------------
(***************************************************************************)
(* The git connection of a project: the stored personal access token, its  *)
(* advisory status, the probe that validates it, and the resolution seam   *)
(* that hands a token to the import, the write-back and the git actions.   *)
(*                                                                         *)
(* A request that probes the provider is in flight between two steps; the  *)
(* row it then writes is found by project, whatever happened meanwhile.    *)
(***************************************************************************)
EXTENDS Tables

CONSTANTS Tokens,       \* the tokens users paste in
          EnvToken,     \* the token of the environment, or Nil
          Callers       \* concurrent requests on the connection

ASSUME TokensAssumption == Nil \notin Tokens

VARIABLES conn,         \* the git_connections row of the project
          provider,     \* the project's git provider, "github" or "gitea"
          key,          \* the master key of this server process
          remote,       \* token -> what the provider thinks of it
          ops,          \* caller -> its request in flight
          accepted,     \* history: tokens a probe accepted
          refused,      \* history: tokens a provider refused with 401 or 403
          raced,        \* history: a status was written for another token than
                        \* the stored one
          connLeft      \* budgets of requests, provider changes and key rotations

connVars == <<conn, key, provider, remote, ops, accepted, refused, raced, connLeft>>

NoConn == [live |-> FALSE, token |-> Nil, key |-> 0, status |-> "unconfigured",
           expired |-> FALSE, validated |-> FALSE]
IdleOp == [pc |-> "idle", token |-> Nil, stored |-> FALSE]

-----------------------------------------------------------------------------
(* Statements and repository.  The three updates say nothing of a missing  *)
(* row.                                                                    *)

GetByProject(c) == IF c.live THEN "ok" ELSE "not_found"

Upsert(token, k, status, expired, validated) ==
    [live |-> TRUE, token |-> token, key |-> k, status |-> status,
     expired |-> expired, validated |-> validated]

SetValidation(c, status, expired) ==
    IF c.live THEN [c EXCEPT !.status = status, !.expired = expired, !.validated = TRUE]
    ELSE c

MarkStatus(c, status) == IF c.live THEN [c EXCEPT !.status = status] ELSE c

-----------------------------------------------------------------------------
(* The probe.  A reply is the state of the token, or a fault on the way.   *)

Faults == {"429", "5xx", "dns", "tls", "refused"}

ClassifyHTTPStatus(reply) ==
    CASE reply \in {"ok", "narrow", "expired"} -> Nil
      [] reply = "401" -> "unauthorized"
      [] reply = "403" -> "forbidden"
      [] reply = "429" -> "rate_limited"
      [] reply = "5xx" -> "server_error"
      [] OTHER -> "network_error"

ClassifyTransportError(reply) ==
    CASE reply = "dns" -> "dns_error" [] reply = "tls" -> "tls_error"
      [] OTHER -> "network_error"

Do(reply) == IF reply \in {"dns", "tls", "refused"} THEN ClassifyTransportError(reply)
             ELSE ClassifyHTTPStatus(reply)

ProbeGitHub(reply) == Do(reply)
ProbeGitea(host, reply) == IF host = Nil THEN "network_error" ELSE Do(reply)

Probe(prov, host, reply) ==
    CASE prov = "github" -> ProbeGitHub(reply)
      [] prov = "gitea" -> ProbeGitea(host, reply)
      [] OTHER -> "network_error"

Transient(kind) ==
    kind \in {"server_error", "rate_limited", "dns_error", "tls_error", "network_error"}

MissingClassicScopes(reply) == reply = "narrow"

(* Mutant of StatusFromProbe: the scopes are not looked at. *)
StatusWithoutScopes(reply) == IF reply = "expired" THEN "expired" ELSE "connected"

StatusFromProbe(reply) ==
    IF reply = "expired" THEN "expired"
    ELSE IF MissingClassicScopes(reply) THEN "insufficient_scope" ELSE "connected"

(* A transient failure is 503, everything else 422. *)

-----------------------------------------------------------------------------
(* Resolution.                                                             *)

LegacyEnvFallback == EnvToken

Decrypts(c) == c.key = key

(* TokenForProject: the token, and the row it leaves. *)
TokenForProject(c) ==
    CASE GetByProject(c) = "not_found" -> [token |-> LegacyEnvFallback, conn |-> c]
      [] GetByProject(c) = "ok" /\ ~Decrypts(c) ->
            [token |-> LegacyEnvFallback, conn |-> MarkStatus(c, "invalid")]
      [] OTHER -> [token |-> c.token, conn |-> c]

(* What the text of a failed operation says of the credential. *)
ClassifyOperationError(text) ==
    CASE text \in {"429", "5xx", "403 rate limit"} -> Nil
      [] text = "401" -> "invalid"
      [] text = "403" -> "insufficient_scope"
      [] OTHER -> Nil

ReconcileFromOperationError(c, text) ==
    LET status == ClassifyOperationError(text)
    IN IF status = Nil THEN c ELSE MarkStatus(c, status)

(* What an operation with this token meets: no token is no authentication. *)
OperationError(token) ==
    IF token = Nil THEN "401"
    ELSE CASE remote[token] = "ok" -> "ok"
           [] remote[token] = "narrow" -> "403"
           [] OTHER -> "401"

(* History of an operation that met text with this token. *)
NoteRefusal(token, text) ==
    refused' = IF token # Nil /\ text \in {"401", "403"} THEN refused \cup {token} ELSE refused

(* The view: a known expiry shows at once, except on an unprobed token. *)
UnconfiguredView == [source |-> IF LegacyEnvFallback = Nil THEN "none" ELSE "env",
                     status |-> "unconfigured"]
ViewFromConn(c) ==
    [source |-> "connection",
     status |-> IF c.expired /\ c.status # "unconfigured" THEN "expired" ELSE c.status]
StatusView(c) == IF GetByProject(c) = "ok" THEN ViewFromConn(c) ELSE UnconfiguredView

-----------------------------------------------------------------------------
(* Requests.                                                               *)

(* The project's owner or an admin. *)
Authorized(role) == role \in {"owner", "admin"}

(* A status is about to be written on the strength of this token. *)
NoteRace(token) == raced' = (raced \/ (conn.live /\ conn.token # token))

Ask(c, role) == ops[c].pc = "idle" /\ connLeft.asks > 0 /\ Authorized(role)

SetGitConnection(c, role, token, validate) ==
    /\ Ask(c, role)
    /\ connLeft' = [connLeft EXCEPT !.asks = @ - 1]
    /\ IF validate
       THEN /\ ops' = [ops EXCEPT ![c] = [pc |-> "set", token |-> token, stored |-> FALSE]]
            /\ UNCHANGED conn
       ELSE /\ conn' = Upsert(token, key, "unconfigured", FALSE, FALSE)
            /\ UNCHANGED ops
    /\ UNCHANGED <<key, provider, remote, accepted, refused, raced>>

(* The stored token, unless the request brings one. *)
TestGitConnection(c, role, token) ==
    /\ Ask(c, role)
    /\ connLeft' = [connLeft EXCEPT !.asks = @ - 1]
    /\ LET stored == token = Nil
       IN IF stored /\ (~conn.live \/ ~Decrypts(conn))
          THEN conn' = MarkStatus(conn, "invalid") /\ UNCHANGED ops
          ELSE /\ ops' = [ops EXCEPT ![c] =
                    [pc |-> "test", stored |-> stored,
                     token |-> IF stored THEN conn.token ELSE token]]
               /\ UNCHANGED conn
    /\ UNCHANGED <<key, provider, remote, accepted, refused, raced>>

ClearGitConnection(c, role) ==
    /\ Ask(c, role)
    /\ connLeft' = [connLeft EXCEPT !.asks = @ - 1]
    /\ conn' = NoConn
    /\ UNCHANGED <<key, provider, remote, ops, accepted, refused, raced>>

(* The answer to GET /user: what the token is worth, or a fault. *)
Answers(token) ==
    {IF remote[token] = "revoked" THEN "401" ELSE remote[token]}
        \cup (IF connLeft.faults > 0 THEN Faults ELSE {})

(* Set: a failed probe or a token that lacks a scope stores nothing. *)
SetProbed(c, kind, reply) ==
    /\ ops[c].pc = "set"
    /\ IF kind = Nil /\ StatusFromProbe(reply) # "insufficient_scope"
       THEN conn' = Upsert(ops[c].token, key, StatusFromProbe(reply),
                           reply = "expired", TRUE)
       ELSE UNCHANGED conn
    /\ UNCHANGED raced

(* A definitive failure of the stored token flips its status. *)
ReconcileStoredFromProbe(row, kind) ==
    CASE kind = "unauthorized" -> MarkStatus(row, "invalid")
      [] kind = "forbidden" -> MarkStatus(row, "insufficient_scope")
      [] OTHER -> row

(* Test: only a test of the stored token writes. *)
TestProbed(c, kind, reply) ==
    /\ ops[c].pc = "test"
    /\ conn' = CASE ~ops[c].stored -> conn
                 [] ops[c].stored /\ kind # Nil -> ReconcileStoredFromProbe(conn, kind)
                 [] ops[c].stored /\ kind = Nil /\ StatusFromProbe(reply) = "connected" ->
                        SetValidation(conn, "connected", FALSE)
                 [] OTHER -> MarkStatus(conn, StatusFromProbe(reply))
    /\ IF ops[c].stored THEN NoteRace(ops[c].token) ELSE UNCHANGED raced

ProbeAnswers(c, host) ==
    /\ ops[c].pc # "idle"
    /\ \E reply \in Answers(ops[c].token) :
        LET kind == Probe(provider, host, reply)
        IN /\ SetProbed(c, kind, reply) \/ TestProbed(c, kind, reply)
           /\ connLeft' = [connLeft EXCEPT !.faults = IF reply \in Faults THEN @ - 1 ELSE @]
           /\ accepted' = IF reply \in {"ok", "expired"} THEN accepted \cup {ops[c].token}
                          ELSE accepted
           /\ refused' = IF reply \in {"401", "403", "narrow"} THEN refused \cup {ops[c].token}
                         ELSE refused
    /\ ops' = [ops EXCEPT ![c] = IdleOp]
    /\ UNCHANGED <<key, provider, remote>>

-----------------------------------------------------------------------------
(* The world.                                                              *)

(* The provider revokes a token, or its user narrows it. *)
ProviderRefuses(token, state) ==
    /\ connLeft.changes > 0
    /\ remote[token] = "ok"
    /\ remote' = [remote EXCEPT ![token] = state]
    /\ connLeft' = [connLeft EXCEPT !.changes = @ - 1]
    /\ UNCHANGED <<conn, key, provider, ops, accepted, refused, raced>>

(* A restart with another ENCRYPTION_KEY; requests in flight are lost. *)
RotateKey ==
    /\ connLeft.rotations > 0
    /\ key' = key + 1
    /\ ops' = [c \in Callers |-> IdleOp]
    /\ connLeft' = [connLeft EXCEPT !.rotations = @ - 1]
    /\ UNCHANGED <<conn, provider, remote, accepted, refused, raced>>

ConnInit(row, p, budget) ==
    /\ conn = row
    /\ key = 1 /\ provider = p
    /\ remote = [t \in Tokens |-> "ok"]
    /\ ops = [c \in Callers |-> IdleOp]
    /\ accepted = IF row.status = "connected" THEN {row.token} ELSE {}
    /\ refused = {} /\ raced = FALSE
    /\ connLeft = budget

ConnNext ==
    \/ \E c \in Callers, t \in Tokens, v \in BOOLEAN : SetGitConnection(c, "owner", t, v)
    \/ \E c \in Callers, t \in Tokens \cup {Nil} : TestGitConnection(c, "admin", t)
    \/ \E c \in Callers : ClearGitConnection(c, "owner")
    \/ \E c \in Callers : ProbeAnswers(c, "host")
    \/ \E t \in Tokens, s \in {"revoked", "narrow", "expired"} : ProviderRefuses(t, s)
    \/ RotateKey

ConnTypeOK ==
    /\ conn \in [live : BOOLEAN, token : Tokens \cup {Nil}, key : Nat,
                 status : {"connected", "unconfigured", "invalid", "insufficient_scope", "expired"},
                 expired : BOOLEAN, validated : BOOLEAN]
    /\ remote \in [Tokens -> {"ok", "revoked", "narrow", "expired"}]
    /\ ops \in [Callers -> [pc : {"idle", "set", "test"}, token : Tokens \cup {Nil},
                            stored : BOOLEAN]]
    /\ accepted \subseteq Tokens /\ refused \subseteq Tokens /\ raced \in BOOLEAN
===============================================================================
