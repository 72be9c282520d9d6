------------------------------ MODULE GitActions ------------------------------
(***************************************************************************)
(* The git steps of one run: git_branch, git_pr and ci_poll, over the two  *)
(* API adapters and the wrapper that heals the connection's status.        *)
(*                                                                         *)
(* An API call has an effect at the forge and an answer; the answer may be *)
(* lost after the effect.  The error is its HTTP status, which is all that *)
(* the callers read from the text.                                         *)
(***************************************************************************)
EXTENDS GitConnections

CONSTANTS Checks,       \* provider -> the check runs or commit statuses
          ChecksPage    \* how many of them one page of the answer holds

VARIABLES forge,        \* branches and pull request of the remote repository
          job,          \* the git step that is executed
          meta,         \* run metadata: branch_name and pr_url
          gitLeft       \* budgets of faults, retries and check updates

gitVars == <<forge, job, meta, gitLeft>>

Steps == <<"git_branch", "git_pr", "ci_poll">>
Base == "main"
Branch == "feat"

-----------------------------------------------------------------------------
(* Adapters: the forge after the call, and the error.                      *)

Call(f, err) == [forge |-> f, err |-> err]

(* GitHub resolves the base first; Gitea does both in one request. *)
GitHubCreateRemoteBranch(f, name, base) ==
    CASE base \notin f.branches -> Call(f, "404")
      [] base \in f.branches /\ name \in f.branches -> Call(f, "422 already exists")
      [] OTHER -> Call([f EXCEPT !.branches = @ \cup {name}], "ok")

GiteaCreateRemoteBranch(f, name, base) ==
    CASE name \in f.branches -> Call(f, "409")
      [] name \notin f.branches /\ base \notin f.branches -> Call(f, "404")
      [] OTHER -> Call([f EXCEPT !.branches = @ \cup {name}], "ok")

GitHubCreateRemotePR(f, head, base) ==
    CASE {head, base} \subseteq f.branches /\ ~f.pr -> Call([f EXCEPT !.pr = TRUE], "ok")
      [] f.pr -> Call(f, "422 already exists")
      [] OTHER -> Call(f, "422")

GiteaCreateRemotePR(f, head, base) ==
    CASE {head, base} \subseteq f.branches /\ ~f.pr -> Call([f EXCEPT !.pr = TRUE], "ok")
      [] f.pr -> Call(f, "409")
      [] OTHER -> Call(f, "404")

FirstPage(s) == Page(s, ChecksPage, 0)
Some(s, P(_)) == \E i \in DOMAIN s : P(s[i])

(* ciStatusForSHA: a failed check wins over a pending one. *)
CIStatusForSHA(checks) ==
    LET s == FirstPage(checks)
    IN CASE s = <<>> -> "no_checks"
         [] s # <<>> /\ Some(s, LAMBDA k : k \in {"failure", "timed_out", "action_required"}) -> "fail"
         [] s # <<>> /\ ~Some(s, LAMBDA k : k \in {"failure", "timed_out", "action_required"})
               /\ Some(s, LAMBDA k : k \in {"queued", "in_progress"}) -> "pending"
         [] OTHER -> "pass"

(* Gitea keeps every status a commit ever had. *)
GiteaGetRemoteCIStatus(checks) ==
    LET s == FirstPage(checks)
    IN CASE s = <<>> -> "no_checks"
         [] s # <<>> /\ Some(s, LAMBDA k : k \in {"failure", "error"}) -> "fail"
         [] s # <<>> /\ ~Some(s, LAMBDA k : k \in {"failure", "error"})
               /\ Some(s, LAMBDA k : k \in {"pending", "running"}) -> "pending"
         [] OTHER -> "pass"

GitHubGetRemoteCIStatus(f) == CIStatusForSHA(f.checks)

(* ForProjectID: the adapter of the project, with the project's token. *)
CreateRemoteBranch(f, name, base) ==
    IF provider = "gitea" THEN GiteaCreateRemoteBranch(f, name, base)
    ELSE GitHubCreateRemoteBranch(f, name, base)
CreateRemotePR(f, head, base) ==
    IF provider = "gitea" THEN GiteaCreateRemotePR(f, head, base)
    ELSE GitHubCreateRemotePR(f, head, base)
GetRemoteCIStatus(f) ==
    IF provider = "gitea" THEN GiteaGetRemoteCIStatus(f.checks)
    ELSE GitHubGetRemoteCIStatus(f)

(* What an API call with this token may answer; "lost" is an effect whose  *)
(* answer did not arrive, and no status is in its text.                    *)
Outcomes(token, call) ==
    {IF OperationError(token) = "ok" THEN call ELSE Call(forge, OperationError(token))}
        \cup (IF gitLeft.faults = 0 THEN {}
              ELSE {Call(call.forge, "lost"), Call(forge, "429"), Call(forge, "5xx")})

(* reconcilingProvider.note. *)
Note(token, err) ==
    /\ conn' = ReconcileFromOperationError(conn, err)
    /\ IF ClassifyOperationError(err) = Nil THEN UNCHANGED raced ELSE NoteRace(token)
    /\ NoteRefusal(token, err)
    /\ UNCHANGED <<key, provider, remote, ops, accepted, connLeft>>

Spend(err) == gitLeft' = [gitLeft EXCEPT !.faults = IF err \in {"lost", "429", "5xx"} THEN @ - 1 ELSE @]

-----------------------------------------------------------------------------
(* The steps.  The executor starts the next one when the last completed.   *)

Finish(err) ==
    job' = IF err # "ok" THEN [job EXCEPT !.pc = "failed"]
           ELSE IF job.step < Len(Steps) THEN [job EXCEPT !.pc = "ready", !.step = @ + 1]
           ELSE [job EXCEPT !.pc = "over"]

(* Guards of the actions that need an earlier step's metadata. *)
MetadataMissing(step) ==
    \/ step = "git_pr" /\ ~meta.branch_name
    \/ step = "ci_poll" /\ ~meta.pr_url

StartGitStep ==
    /\ job.pc = "ready"
    /\ LET t == TokenForProject(conn)
       IN /\ conn' = t.conn
          /\ job' = IF MetadataMissing(Steps[job.step]) THEN [job EXCEPT !.pc = "failed"]
                    ELSE [job EXCEPT !.pc = Steps[job.step], !.token = t.token]
    /\ UNCHANGED <<key, provider, remote, ops, accepted, refused, raced, connLeft, forge, meta, gitLeft>>

(* A branch that exists already is a success. *)
BranchExists(err) == err \in {"409", "422 already exists"}

GitBranch ==
    /\ job.pc = "git_branch"
    /\ \E o \in Outcomes(job.token, CreateRemoteBranch(forge, Branch, Base)) :
        /\ forge' = o.forge
        /\ Note(job.token, o.err)
        /\ Spend(o.err)
        /\ LET ok == o.err = "ok" \/ BranchExists(o.err)
           IN /\ meta' = [meta EXCEPT !.branch_name = @ \/ ok]
              /\ Finish(IF ok THEN "ok" ELSE o.err)

GitPR ==
    /\ job.pc = "git_pr"
    /\ \E o \in Outcomes(job.token, CreateRemotePR(forge, Branch, Base)) :
        /\ forge' = o.forge
        /\ Note(job.token, o.err)
        /\ Spend(o.err)
        /\ meta' = [meta EXCEPT !.pr_url = @ \/ o.err = "ok"]
        /\ Finish(o.err)

(* One tick: an error, a pending or a missing check keeps polling. *)
CIPollTick ==
    /\ job.pc = "ci_poll"
    /\ \E o \in Outcomes(job.token, Call(forge, "ok")) :
        /\ Note(job.token, o.err)
        /\ Spend(o.err)
        /\ LET status == IF o.err = "ok" THEN GetRemoteCIStatus(forge) ELSE "error"
           IN CASE status = "pass" -> Finish("ok")
                [] status = "fail" -> Finish("CI_POLL_FAILED")
                [] OTHER -> UNCHANGED job
    /\ UNCHANGED <<forge, meta>>

CIPollTimeout ==
    /\ job.pc = "ci_poll"
    /\ Finish("CI_POLL_TIMEOUT")
    /\ UNCHANGED <<connVars, forge, meta, gitLeft>>

(* A user retries the failed step. *)
RetryGitStep ==
    /\ job.pc = "failed"
    /\ gitLeft.retries > 0
    /\ job' = [job EXCEPT !.pc = "ready"]
    /\ gitLeft' = [gitLeft EXCEPT !.retries = @ - 1]
    /\ UNCHANGED <<connVars, forge, meta>>

(* The CI of the forge reports. *)
ForgeReports ==
    /\ gitLeft.reports > 0
    /\ forge.pr
    /\ \E s \in Checks[provider] : forge' = [forge EXCEPT !.checks = s]
    /\ gitLeft' = [gitLeft EXCEPT !.reports = @ - 1]
    /\ UNCHANGED <<connVars, job, meta>>

GitInit(budget, pc) ==
    /\ forge = [branches |-> {Base}, pr |-> FALSE, checks |-> <<>>]
    /\ job = [step |-> 1, pc |-> pc, token |-> Nil]
    /\ meta = [branch_name |-> FALSE, pr_url |-> FALSE]
    /\ gitLeft = budget

GitStep == StartGitStep \/ GitBranch \/ GitPR \/ CIPollTick \/ CIPollTimeout
GitNext == GitStep \/ RetryGitStep \/ ForgeReports
===============================================================================
