----------------------------- MODULE TurnProofs ------------------------------
(* Who may go on with a run.  Nothing in the code makes an execution        *)
(* exclusive: a worker takes a job without a lock, and nobody looks at the  *)
(* run before a job is enqueued.  What keeps the executions apart, where    *)
(* they are, is that each thing that can bring one about is used up by it:  *)
(* a job by the worker that takes it, a pending request by the decision, a  *)
(* parked stage by its Go, a failed step by its one retry.  Such a thing is *)
(* a turn, and a run in an orderly environment has at most one.             *)
EXTENDS RunSystemProofs

(* What the environment may not do: overlap its calls, launch the run       *)
(* twice, resume a run, halt it on a probe, retry more than once.  A step   *)
(* that fails under the watchdog while its worker goes on must not be       *)
(* retried.  Gate steps let an early approval start an execution beside     *)
(* the one that is still in the step.                                       *)
Orderly ==
    /\ \A c, d \in Clients : c = d
    /\ InitialJobs <= 1
    /\ GateSteps = {}
    /\ Ops \cap {"resume", "halt", "resolve"} = {}
    /\ "retry" \in Ops => MaxRetries <= 1 /\ "breach" \notin Ops

(* Phases from which a worker only returns, with nothing left behind that   *)
(* brings about another execution, or with the failed row already written.  *)
Leaving == {"idle", "gate_step", "gate_run", "park_run", "park_story"}
              \cup (IF "retry" \in Ops THEN {"fail_run", "story_failed"} ELSE {})
Going == {"set_running", "enqueue", "retry_create", "complete_step",
          "resume_read", "hitl_running", "reject_step"}

Working == {e \in Workers : pc[e] \notin Leaving}
Queued == 1..jobs
Asked == {q \in Reqs : Pending(q)}
Called == {c \in Clients : op[c] \in Going}
Parked == {s \in Stages : meta.parked = s}
AwaitsRetry(k) == /\ \E r \in Rows : stepOrder[r] = k /\ stepStatus[r] = "failed"
                  /\ RetriesOf(k) = {}
Unretried ==
    {k \in Orders : /\ "retry" \in Ops /\ AwaitsRetry(k)
                    /\ ~\E c \in Clients : op[c] = "retry_create" /\ stepOrder[arg[c]] = k}

Turns == ({"worker"} \X Working) \cup ({"job"} \X Queued) \cup ({"request"} \X Asked)
           \cup ({"call"} \X Called) \cup ({"parked"} \X Parked) \cup ({"failed"} \X Unretried)

OneTurn == \A x, y \in Turns : x = y

(* What the workers and the call in progress rely on.                       *)
Unparked == \A e \in Workers :
    pc[e] \notin Leaving \cup {"load", "start"} => local[e].parked = 0
CallFits(c) ==
    /\ op[c] \notin {"halt_check", "halt_read", "halt_create", "resolve_resume",
                     "resolve_complete", "resolve_send_back", "resolve_abort", "send_back_step"}
    /\ op[c] \in {"fail_step", "fail_run"} => "breach" \in Ops
    /\ op[c] \in {"retry_check", "retry_create"} => "retry" \in Ops
    /\ op[c] \in {"approve", "reject"} => arg[c] \in Reqs /\ Pending(arg[c])
    /\ op[c] = "start_meta" => meta.parked # 0 /\ snap[c].parked = 0

InTurn == OneTurn /\ Unparked /\ \A c \in Clients : CallFits(c)

-----------------------------------------------------------------------------
(* The gates.                                                               *)
StagesInOrder ==
    /\ \A j, k \in Orders : j <= k => StageOf[j] <= StageOf[k]
    /\ \A s \in Stages : \E k \in Orders : StageOf[k] = s

Gates == {s \in Stages : Transition[s] = "gate"}
RowStage(r) == StageOf[stepOrder[r]]
Gated(s) == \E q \in Reqs : hitl[q].status = "approved" /\ RowStage(hitl[q].row) = s
Open(s) == \E r \in Rows : Exists(r) /\ stepStatus[r] # "completed" /\ RowStage(r) = s

(* A gate that has not been passed has work or a request before it.         *)
Guarded(s) ==
    \/ Gated(s) \/ Open(s)
    \/ \E q \in Reqs : Pending(q) /\ RowStage(hitl[q].row) = s
    \/ \E c \in Clients : op[c] = "reject_step" /\ RowStage(arg[c]) = s

Visiting == {"start", "story_running", "loop", "exit", "gate_create", "enter"} \cup InStep
AheadOf(e, s) ==
    \/ Gated(s) \/ stage[e] = s
    \/ \E r \in todo[e] : RowStage(r) = s
    \/ cur[e] # 0 /\ CurStage(e) = s

Ahead(e) ==
    /\ \A s \in Gates : AheadOf(e, s)
    /\ \A r \in todo[e] : stepStatus[r] # "completed"
    /\ cur[e] # 0 => /\ stepStatus[cur[e]] # "completed" /\ cur[e] \notin todo[e]
                     /\ \A r \in todo[e] : stepOrder[cur[e]] <= stepOrder[r]

WorkerGuarded(e) ==
    /\ pc[e] \in {"idle", "load", "start", "story_running"} => stage[e] = 0
    /\ pc[e] \in Visiting \ Leaving => Ahead(e)
    /\ pc[e] \in {"loop", "exit", "gate_create"} /\ stage[e] # 0 =>
         prev[e] # 0 /\ RowStage(prev[e]) = stage[e]
    /\ pc[e] = "enter" => stage[e] \notin Gates \/ Gated(stage[e])

GatesKept ==
    /\ (Turns # {} /\ \A e \in Working : pc[e] = "load") => \A s \in Gates : Guarded(s)
    /\ \A e \in Workers : WorkerGuarded(e)
    /\ \A c \in Clients : op[c] = "complete_step" => Gated(RowStage(arg[c]))

-----------------------------------------------------------------------------
(* The story.                                                               *)
Gentle == Ops \subseteq {"approve", "reject", "start", "fail", "pause"}

StoryTold ==
    /\ \A e \in Workers : ~expired[e] /\ pc[e] \notin Cancelling
    /\ \A c \in Clients : op[c] \notin {"cancel_list", "cancel_steps", "cancel_story",
                                       "fail_step", "fail_run"}
    /\ status # "cancelled"
    /\ status = "failed" => \/ \E e \in Workers : pc[e] = "story_failed"
                            \/ storyStatus = "failed" /\ Turns = {}
    /\ status = "completed" => \/ \E e \in Workers : pc[e] = "story_done"
                               \/ storyStatus = "done" /\ Turns = {}
-----------------------------------------------------------------------------
(* A step keeps the turn if it adds none, or hands on the one there is.     *)

KeepsTurn == Turns' \subseteq Turns \/ (Turns # {} /\ \E y : Turns' \subseteq {y})

LEMMA OneTurnStays ==
  ASSUME OneTurn, KeepsTurn
  PROVE  OneTurn' /\ (Turns = {} => Turns' = {})
BY DEF OneTurn, KeepsTurn

(* Who has the turn is alone with it.                                       *)
LEMMA Alone ==
  ASSUME OneTurn
  PROVE  /\ \A e \in Workers : pc[e] \notin Leaving =>
              /\ \A f \in Workers : f # e => pc[f] \in Leaving
              /\ Queued = {} /\ Asked = {} /\ Called = {} /\ Parked = {} /\ Unretried = {}
         /\ Queued # {} => /\ Working = {} /\ Asked = {} /\ Called = {} /\ Parked = {}
                           /\ Unretried = {}
         /\ \A q \in Asked :
              /\ Asked \subseteq {q}
              /\ Working = {} /\ Queued = {} /\ Called = {} /\ Parked = {} /\ Unretried = {}
         /\ Called # {} => /\ Working = {} /\ Queued = {} /\ Asked = {} /\ Parked = {}
                           /\ Unretried = {}
         /\ Parked # {} => /\ Working = {} /\ Queued = {} /\ Asked = {} /\ Called = {}
                           /\ Unretried = {}
         /\ \A k \in Unretried :
              /\ Unretried \subseteq {k}
              /\ Working = {} /\ Queued = {} /\ Asked = {} /\ Called = {} /\ Parked = {}
<1>1. /\ \A e \in Working : <<"worker", e>> \in Turns
      /\ \A i \in Queued : <<"job", i>> \in Turns
      /\ \A q \in Asked : <<"request", q>> \in Turns
      /\ \A c \in Called : <<"call", c>> \in Turns
      /\ \A s \in Parked : <<"parked", s>> \in Turns
      /\ \A k \in Unretried : <<"failed", k>> \in Turns
  BY DEF Turns
<1>2. \A k, l, i, j : <<k, i>> \in Turns /\ <<l, j>> \in Turns => k = l /\ i = j
  BY DEF OneTurn
<1>3. \A e \in Workers : pc[e] \notin Leaving => e \in Working
  BY DEF Working
<1>4. \A e \in Working : /\ \A f \in Working : f = e
                         /\ Queued = {} /\ Asked = {} /\ Called = {} /\ Parked = {} /\ Unretried = {}
  BY <1>1, <1>2
<1>5. \A i \in Queued : Asked = {} /\ Called = {} /\ Parked = {} /\ Unretried = {}
  BY <1>1, <1>2
<1>6. \A q \in Asked : /\ \A p \in Asked : p = q
                        /\ Called = {} /\ Parked = {} /\ Unretried = {}
  BY <1>1, <1>2
<1>7. \A c \in Called : Parked = {} /\ Unretried = {}
  BY <1>1, <1>2
<1>8. \A s \in Parked : Unretried = {}
  BY <1>1, <1>2
<1>9. \A k \in Unretried : \A l \in Unretried : l = k
  BY <1>1, <1>2
<1>10. \A e \in Workers : pc[e] \notin Leaving =>
         /\ \A f \in Workers : f # e => pc[f] \in Leaving
         /\ Queued = {} /\ Asked = {} /\ Called = {} /\ Parked = {} /\ Unretried = {}
  BY <1>3, <1>4
<1>11. Queued # {} => /\ Working = {} /\ Asked = {} /\ Called = {} /\ Parked = {}
                      /\ Unretried = {}
  BY <1>4, <1>5
<1>12. \A q \in Asked :
         /\ Asked \subseteq {q}
         /\ Working = {} /\ Queued = {} /\ Called = {} /\ Parked = {} /\ Unretried = {}
  BY <1>4, <1>5, <1>6
<1>13. Called # {} => /\ Working = {} /\ Queued = {} /\ Asked = {} /\ Parked = {}
                      /\ Unretried = {}
  BY <1>4, <1>5, <1>6, <1>7
<1>14. Parked # {} => /\ Working = {} /\ Queued = {} /\ Asked = {} /\ Called = {}
                      /\ Unretried = {}
  BY <1>4, <1>5, <1>6, <1>7, <1>8
<1>15. \A k \in Unretried :
         /\ Unretried \subseteq {k}
         /\ Working = {} /\ Queued = {} /\ Asked = {} /\ Called = {} /\ Parked = {}
  BY <1>4, <1>5, <1>6, <1>7, <1>8, <1>9
<1> QED BY <1>10, <1>11, <1>12, <1>13, <1>14, <1>15

(* Nothing but one turn of one kind is left.                                *)
LEMMA OnlyTurn ==
  ASSUME Turns # {},
         \/ \E e : /\ Working' \subseteq {e} /\ Queued' = {} /\ Asked' = {} /\ Called' = {}
                   /\ Parked' = {} /\ Unretried' = {}
         \/ \E i : /\ Queued' \subseteq {i} /\ Working' = {} /\ Asked' = {} /\ Called' = {}
                   /\ Parked' = {} /\ Unretried' = {}
         \/ \E q : /\ Asked' \subseteq {q} /\ Working' = {} /\ Queued' = {} /\ Called' = {}
                   /\ Parked' = {} /\ Unretried' = {}
         \/ \E c : /\ Called' \subseteq {c} /\ Working' = {} /\ Queued' = {} /\ Asked' = {}
                   /\ Parked' = {} /\ Unretried' = {}
         \/ \E s : /\ Parked' \subseteq {s} /\ Working' = {} /\ Queued' = {} /\ Asked' = {}
                   /\ Called' = {} /\ Unretried' = {}
         \/ \E k : /\ Unretried' \subseteq {k} /\ Working' = {} /\ Queued' = {} /\ Asked' = {}
                   /\ Called' = {} /\ Parked' = {}
  PROVE  KeepsTurn
<1>1. CASE \E e : /\ Working' \subseteq {e} /\ Queued' = {} /\ Asked' = {} /\ Called' = {}
                  /\ Parked' = {} /\ Unretried' = {}
  <2>1. PICK e : /\ Working' \subseteq {e} /\ Queued' = {} /\ Asked' = {} /\ Called' = {}
                 /\ Parked' = {} /\ Unretried' = {}
    BY <1>1
  <2>2. Turns' \subseteq {<<"worker", e>>}
    BY <2>1 DEF Turns
  <2> QED BY <2>2 DEF KeepsTurn
<1>2. CASE \E i : /\ Queued' \subseteq {i} /\ Working' = {} /\ Asked' = {} /\ Called' = {}
                  /\ Parked' = {} /\ Unretried' = {}
  <2>1. PICK i : /\ Queued' \subseteq {i} /\ Working' = {} /\ Asked' = {} /\ Called' = {}
                 /\ Parked' = {} /\ Unretried' = {}
    BY <1>2
  <2>2. Turns' \subseteq {<<"job", i>>}
    BY <2>1 DEF Turns
  <2> QED BY <2>2 DEF KeepsTurn
<1>3. CASE \E q : /\ Asked' \subseteq {q} /\ Working' = {} /\ Queued' = {} /\ Called' = {}
                  /\ Parked' = {} /\ Unretried' = {}
  <2>1. PICK q : /\ Asked' \subseteq {q} /\ Working' = {} /\ Queued' = {} /\ Called' = {}
                 /\ Parked' = {} /\ Unretried' = {}
    BY <1>3
  <2>2. Turns' \subseteq {<<"request", q>>}
    BY <2>1 DEF Turns
  <2> QED BY <2>2 DEF KeepsTurn
<1>4. CASE \E c : /\ Called' \subseteq {c} /\ Working' = {} /\ Queued' = {} /\ Asked' = {}
                  /\ Parked' = {} /\ Unretried' = {}
  <2>1. PICK c : /\ Called' \subseteq {c} /\ Working' = {} /\ Queued' = {} /\ Asked' = {}
                 /\ Parked' = {} /\ Unretried' = {}
    BY <1>4
  <2>2. Turns' \subseteq {<<"call", c>>}
    BY <2>1 DEF Turns
  <2> QED BY <2>2 DEF KeepsTurn
<1>5. CASE \E s : /\ Parked' \subseteq {s} /\ Working' = {} /\ Queued' = {} /\ Asked' = {}
                  /\ Called' = {} /\ Unretried' = {}
  <2>1. PICK s : /\ Parked' \subseteq {s} /\ Working' = {} /\ Queued' = {} /\ Asked' = {}
                 /\ Called' = {} /\ Unretried' = {}
    BY <1>5
  <2>2. Turns' \subseteq {<<"parked", s>>}
    BY <2>1 DEF Turns
  <2> QED BY <2>2 DEF KeepsTurn
<1>6. CASE \E k : /\ Unretried' \subseteq {k} /\ Working' = {} /\ Queued' = {} /\ Asked' = {}
                  /\ Called' = {} /\ Parked' = {}
  <2>1. PICK k : /\ Unretried' \subseteq {k} /\ Working' = {} /\ Queued' = {} /\ Asked' = {}
                 /\ Called' = {} /\ Parked' = {}
    BY <1>6
  <2>2. Turns' \subseteq {<<"failed", k>>}
    BY <2>1 DEF Turns
  <2> QED BY <2>2 DEF KeepsTurn
<1> QED BY <1>1, <1>2, <1>3, <1>4, <1>5, <1>6

-----------------------------------------------------------------------------
(* What a statement does to the turns that are in the store.                *)

StoreLess == /\ Queued' \subseteq Queued /\ Asked' \subseteq Asked /\ Parked' \subseteq Parked
             /\ \A k \in Orders : AwaitsRetry(k)' => AwaitsRetry(k)

LEMMA StoreLessens ==
  ASSUME StoreTypeOK
  PROVE  /\ NoWrite => StoreLess
         /\ \A s : UpdateRunStatus(s) => StoreLess
         /\ \A m : UpdateRunMetadata(m) /\ m.parked = 0 => StoreLess
         /\ \A m : UpdateRunMetadataGo(m) /\ m.parked = 0 => StoreLess
         /\ \A r, s : UpdateRunStepStatus(r, s) /\ s # "failed" => StoreLess
         /\ \A q, s : UpdateHITLRequestStatus(q, s) /\ s # "pending" => StoreLess
         /\ \A s : UpdateStory(s) => StoreLess
         /\ \A s : UpdateStoryCurrentStage(s) => StoreLess
         /\ TakeJob => StoreLess
         /\ Fault => StoreLess
         /\ \A e : Fails(e) => StoreLess
<1>1. ASSUME UNCHANGED <<stepOrder, stepStatus>>
      PROVE  \A k \in Orders : AwaitsRetry(k)' => AwaitsRetry(k)
  BY <1>1 DEF AwaitsRetry, RetriesOf
<1>2. ASSUME NEW r, NEW s, UpdateRunStepStatus(r, s), s # "failed"
      PROVE  StoreLess
  <2>1. \A k \in Orders : AwaitsRetry(k)' => AwaitsRetry(k)
    BY <1>2 DEF StoreTypeOK, UpdateRunStepStatus, AwaitsRetry, RetriesOf
  <2> QED BY <1>2, <2>1 DEF UpdateRunStepStatus, StoreLess, Queued, Asked, Pending, Parked
<1>3. ASSUME NEW q, NEW s, UpdateHITLRequestStatus(q, s), s # "pending"
      PROVE  StoreLess
  <2>1. UNCHANGED <<stepOrder, stepStatus, jobs, meta>>
    BY <1>3 DEF UpdateHITLRequestStatus
  <2>2. \A p \in Reqs : hitl'[p] = hitl[p] \/ hitl'[p].status = s
    BY <1>3 DEF StoreTypeOK, UpdateHITLRequestStatus
  <2> QED BY <1>1, <1>3, <2>1, <2>2 DEF StoreLess, Queued, Asked, Pending, Parked
<1>4. TakeJob => StoreLess
  <2>1. TakeJob => jobs - 1 \in Nat /\ jobs' = jobs - 1 /\ jobs \in Nat
    BY DEF TakeJob, StoreTypeOK
  <2>2. TakeJob => Queued' \subseteq Queued
    BY <2>1 DEF Queued
  <2> QED BY <1>1, <2>2 DEF TakeJob, StoreLess, Asked, Pending, Parked
<1>5. ASSUME UNCHANGED <<stepOrder, stepStatus, hitl, jobs>>, meta' = meta \/ meta'.parked = 0
      PROVE  StoreLess
  <2>1. Parked' \subseteq Parked
    BY <1>5 DEF Parked, Stages
  <2> QED BY <1>1, <1>5, <2>1 DEF StoreLess, Queued, Asked, Pending
<1>6. NoWrite => StoreLess
  BY <1>5 DEF NoWrite, storeVars
<1>7. /\ \A s : UpdateRunStatus(s) => StoreLess
      /\ \A s : UpdateStory(s) => StoreLess
      /\ \A s : UpdateStoryCurrentStage(s) => StoreLess
  BY <1>5 DEF UpdateRunStatus, UpdateStory, UpdateStoryCurrentStage
<1>8. /\ \A m : UpdateRunMetadata(m) /\ m.parked = 0 => StoreLess
      /\ \A m : UpdateRunMetadataGo(m) /\ m.parked = 0 => StoreLess
  BY <1>5 DEF UpdateRunMetadata, UpdateRunMetadataGo
<1>9. Fault => StoreLess
  BY <1>6 DEF Fault
<1>10. \A e : Fails(e) => StoreLess
  BY <1>6, <1>9 DEF Fails
<1> QED BY <1>2, <1>3, <1>4, <1>6, <1>7, <1>8, <1>9, <1>10

-----------------------------------------------------------------------------
(* The steps of a worker.                                                   *)

Others(e) == \A f \in Workers : f # e => pc'[f] = pc[f] /\ local'[f] = local[f]

WorkerTurn(e) ==
    /\ KeepsTurn /\ Others(e)
    /\ pc'[e] \notin Leaving \cup {"load", "start"} => local'[e].parked = 0
    /\ meta' = meta \/ pc[e] \notin Leaving

(* A worker that adds no turn to the store and does not come back to work.  *)
LEMMA QuietWorker ==
  ASSUME NEW e \in Workers, StoreLess, Others(e), UNCHANGED <<stepOrder, sessionVars>>,
         pc'[e] \in Leaving \/ pc[e] \notin Leaving
  PROVE  KeepsTurn
<1>1. Working' \subseteq Working
  BY DEF Working, Others, Leaving
<1>2. Called' \subseteq Called
  BY DEF Called, sessionVars
<1>3. Unretried' \subseteq Unretried
  BY DEF Unretried, StoreLess, sessionVars
<1>4. Turns' \subseteq Turns
  BY <1>1, <1>2, <1>3 DEF Turns, StoreLess
<1> QED BY <1>4 DEF KeepsTurn

LEMMA QuietGoto ==
  ASSUME ExecTypeOK, Unparked, NEW e \in Workers, NEW p, Goto(e, p), StoreLess,
         UNCHANGED <<stepOrder, sessionVars>>, meta' = meta \/ pc[e] \notin Leaving,
         p \in Leaving \/ pc[e] \notin Leaving \cup {"load", "start"}
  PROVE  WorkerTurn(e)
<1>1. /\ Others(e) /\ pc'[e] = p /\ local'[e] = local[e]
  BY DEF Others, Goto, ExecTypeOK
<1> QED BY <1>1, QuietWorker DEF WorkerTurn, Unparked

LEMMA QuietReturn ==
  ASSUME ExecTypeOK, NEW e \in Workers, Return(e), StoreLess,
         UNCHANGED <<stepOrder, sessionVars>>, meta' = meta \/ pc[e] \notin Leaving
  PROVE  WorkerTurn(e)
<1>1. /\ Others(e) /\ pc'[e] = "idle"
  BY DEF Others, Return, ExecTypeOK
<1>2. "idle" \in Leaving
  BY DEF Leaving
<1> QED BY <1>1, <1>2, QuietWorker DEF WorkerTurn

(* The phases in which a worker has the turn.                               *)
LEMMA HasTurn ==
   /\ "idle" \in Leaving
   /\ \A p \in {"load", "start", "story_running", "loop", "step", "act", "act_wait",
                "act_pause", "persist", "refetch", "complete", "fail_step", "exit",
                "gate_create", "enter", "clear", "finish", "story_done", "cancel_step",
                "cancel_run", "story_backlog"} : p \notin Leaving
   /\ \A p \in {"gate_step", "gate_run", "park_run", "park_story"} : p \in Leaving
   /\ ("fail_run" \in Leaving <=> "retry" \in Ops)
   /\ ("story_failed" \in Leaving <=> "retry" \in Ops)
BY DEF Leaving

LEMMA ItsTurn ==
  ASSUME NEW e \in Workers, pc[e] \notin Leaving
  PROVE  Turns # {}
<1>1. <<"worker", e>> \in Turns
  BY DEF Turns, Working
<1> QED BY <1>1

LEMMA TakesTurn ==
  ASSUME StoreTypeOK, ExecTypeOK, OneTurn, Unparked, NEW e \in Workers, UNCHANGED sessionVars,
         Take(e)
  PROVE  WorkerTurn(e)
<1>1. StoreLess /\ UNCHANGED <<stepOrder, stepStatus, hitl, meta>> /\ pc[e] = "idle"
  BY StoreLessens DEF Take, TakeJob
<1>2. CASE Goto(e, "idle")
  BY <1>1, <1>2, QuietGoto, HasTurn
<1>3. CASE Goto(e, "load")
  <2>1. 1 \in Queued /\ jobs \in Nat /\ jobs > 0 /\ jobs' = jobs - 1
    BY <1>3 DEF Take, TakeJob, Queued, StoreTypeOK
  <2>2. Working = {} /\ Asked = {} /\ Called = {} /\ Parked = {} /\ Unretried = {}
    BY <2>1, Alone
  <2>3. <<"job", 1>> \in Turns /\ (jobs > 1 => <<"job", 2>> \in Turns)
    BY <2>1 DEF Turns, Queued
  <2>4. jobs = 1
    BY <2>1, <2>3 DEF OneTurn
  <2>5. Queued' = {}
    BY <2>1, <2>4 DEF Queued
  <2>6. Others(e) /\ pc'[e] = "load" /\ local'[e] = local[e]
    BY <1>3 DEF Others, Goto, ExecTypeOK
  <2>7. Working' \subseteq {e}
    BY <2>2, <2>6 DEF Working, Others, Leaving
  <2>8. Asked' = {} /\ Called' = {} /\ Parked' = {} /\ Unretried' = {}
    BY <1>1, <2>2 DEF Asked, Pending, Called, Parked, Unretried, AwaitsRetry, RetriesOf, sessionVars
  <2>9. KeepsTurn
    BY <2>3, <2>5, <2>7, <2>8, OnlyTurn
  <2> QED BY <1>1, <2>6, <2>9 DEF WorkerTurn
<1> QED BY <1>2, <1>3 DEF Take

(* The writes a worker makes besides the four that hand the turn on.        *)
LEMMA QuietWrites ==
  ASSUME StoreTypeOK,
         \/ NoWrite \/ (\E s : UpdateRunStatus(s)) \/ (\E s : UpdateStory(s))
         \/ (\E s : UpdateStoryCurrentStage(s)) \/ (\E r, s : UpdateRunStepStatus(r, s) /\ s # "failed")
         \/ Fault \/ (\E e : Fails(e))
  PROVE  StoreLess /\ UNCHANGED <<stepOrder, meta>>
<1>1. StoreLess
  BY StoreLessens
<1>2. UNCHANGED <<stepOrder, meta>>
  BY DEF NoWrite, storeVars, UpdateRunStatus, UpdateStory, UpdateStoryCurrentStage,
     UpdateRunStepStatus, Fault, Fails
<1> QED BY <1>1, <1>2

LEMMA TakingTurn ==
  ASSUME StoreTypeOK, ExecTypeOK, OneTurn, Unparked, NEW e \in Workers, UNCHANGED sessionVars,
         RefuseByBreaker(e) \/ Load(e) \/ Start(e) \/ StoryRunning(e) \/ HardError(e)
  PROVE  WorkerTurn(e)
<1>1. CASE RefuseByBreaker(e) \/ HardError(e)
  <2>1. StoreLess /\ UNCHANGED <<stepOrder, meta>>
    BY <1>1, QuietWrites DEF RefuseByBreaker, HardError
  <2> QED BY <1>1, <2>1, QuietReturn DEF RefuseByBreaker, HardError
<1>2. CASE Load(e)
  <2>1. StoreLess /\ UNCHANGED <<stepOrder, meta>>
    BY <1>2, QuietWrites DEF Load
  <2>2. pc[e] = "load" /\ pc'[e] = "start" /\ Others(e)
    BY <1>2 DEF Load, Others, ExecTypeOK
  <2>3. KeepsTurn
    BY <2>1, <2>2, QuietWorker, HasTurn
  <2> QED BY <2>1, <2>2, <2>3 DEF WorkerTurn
<1>3. CASE Start(e)
  <2>1. StoreLess /\ UNCHANGED <<stepOrder, meta>>
    BY <1>3, QuietWrites DEF Start
  <2>2. pc[e] = "start" /\ pc'[e] = "story_running" /\ Others(e) /\ local'[e] = meta
    BY <1>3 DEF Start, Others, ExecTypeOK
  <2>3. meta.parked = 0
    <3>1. Parked = {}
      BY <2>2, HasTurn, Alone
    <3>2. meta.parked \in Stages \cup {0}
      BY DEF StoreTypeOK, Metadata
    <3> QED BY <3>1, <3>2 DEF Parked
  <2>4. KeepsTurn
    BY <2>1, <2>2, QuietWorker, HasTurn
  <2> QED BY <2>1, <2>2, <2>3, <2>4 DEF WorkerTurn
<1>4. CASE StoryRunning(e)
  <2>1. StoreLess /\ UNCHANGED <<stepOrder, meta>>
    BY <1>4, QuietWrites DEF StoryRunning, Try
  <2>2. pc[e] = "story_running" /\ "story_running" \notin Leaving \cup {"load", "start"}
    BY <1>4, HasTurn DEF StoryRunning
  <2> QED BY <1>4, <2>1, <2>2, QuietGoto DEF StoryRunning
<1> QED BY <1>1, <1>2, <1>3, <1>4

LEMMA PollingTurn ==
  ASSUME StoreTypeOK, ExecTypeOK, OneTurn, Unparked, NEW e \in Workers, UNCHANGED sessionVars,
         PollPaused(e) \/ PollNext(e) \/ PollExpired(e) \/ PollEnd(e)
  PROVE  WorkerTurn(e)
<1>1. StoreLess /\ UNCHANGED <<stepOrder, meta>>
  BY QuietWrites DEF PollPaused, PollNext, PollExpired, PollEnd
<1>2. pc[e] = "loop" /\ "loop" \notin Leaving \cup {"load", "start"}
  BY HasTurn DEF PollPaused, PollNext, PollExpired, PollEnd
<1>3. CASE PollPaused(e)
  BY <1>1, <1>3, QuietReturn DEF PollPaused
<1>4. CASE PollEnd(e)
  BY <1>1, <1>2, <1>4, QuietGoto DEF PollEnd
<1>5. CASE PollNext(e) \/ PollExpired(e)
  <2>1. Others(e) /\ local'[e] = local[e]
    BY <1>5 DEF PollNext, PollExpired, Visit, Others, ExecTypeOK
  <2>2. KeepsTurn
    BY <1>1, <1>2, <2>1, QuietWorker
  <2> QED BY <1>1, <1>2, <2>1, <2>2 DEF WorkerTurn, Unparked
<1> QED BY <1>3, <1>4, <1>5

LEMMA GatingTurn ==
  ASSUME StoreTypeOK, ExecTypeOK, OneTurn, Unparked, NEW e \in Workers, UNCHANGED sessionVars,
         \/ GatePass(e) \/ GateHeld(e) \/ GateMissing(e)
         \/ GateCreate(e) \/ GateAnchor(e) \/ GateRun(e)
  PROVE  WorkerTurn(e)
<1>1. CASE GatePass(e) \/ GateHeld(e) \/ GateMissing(e)
  <2>1. StoreLess /\ UNCHANGED <<stepOrder, meta>>
    BY <1>1, QuietWrites DEF GatePass, GateHeld, GateMissing
  <2>2. pc[e] = "exit" /\ "exit" \notin Leaving \cup {"load", "start"}
    BY <1>1, HasTurn DEF GatePass, GateHeld, GateMissing
  <2> QED BY <1>1, <2>1, <2>2, QuietGoto, QuietReturn DEF GatePass, GateHeld, GateMissing
<1>2. CASE GateAnchor(e) \/ GateRun(e)
  <2>1. StoreLess /\ UNCHANGED <<stepOrder, meta>>
    BY <1>2, QuietWrites DEF GateAnchor, GateRun
  <2> QED BY <1>2, <2>1, HasTurn, QuietGoto, QuietReturn DEF GateAnchor, GateRun
<1>3. CASE GateCreate(e)
  <2>1. pc[e] = "gate_create" /\ pc'[e] = "gate_step" /\ Others(e) /\ local'[e] = local[e]
    BY <1>3 DEF GateCreate, Goto, Others, ExecTypeOK
  <2>2. /\ \A f \in Workers : f # e => pc[f] \in Leaving
        /\ Queued = {} /\ Asked = {} /\ Called = {} /\ Parked = {} /\ Unretried = {}
    BY <2>1, HasTurn, Alone
  <2>3. Working' = {}
    BY <2>1, <2>2, HasTurn DEF Working, Others, Leaving
  <2>4. UNCHANGED <<jobs, meta, stepOrder, stepStatus>>
    BY <1>3 DEF GateCreate, CreateHITLRequest
  <2>5. Queued' = {} /\ Called' = {} /\ Parked' = {} /\ Unretried' = {}
    BY <2>2, <2>4 DEF Queued, Called, Parked, Unretried, AwaitsRetry, RetriesOf, sessionVars
  <2>6. PICK q \in Reqs : \A p \in Reqs : p # q => hitl'[p] = hitl[p]
    BY <1>3 DEF GateCreate, CreateHITLRequest, StoreTypeOK
  <2>7. Asked' \subseteq {q}
    BY <2>2, <2>6 DEF Asked, Pending
  <2>8. Turns # {}
    BY <2>1, HasTurn, ItsTurn
  <2>9. KeepsTurn
    BY <2>3, <2>5, <2>7, <2>8, OnlyTurn
  <2> QED BY <2>1, <2>4, <2>9, HasTurn DEF WorkerTurn
<1> QED BY <1>1, <1>2, <1>3

LEMMA EnteringTurn ==
  ASSUME StoreTypeOK, ExecTypeOK, OneTurn, Unparked, NEW e \in Workers, UNCHANGED sessionVars,
         Enter(e) \/ ParkMeta(e) \/ ParkRun(e) \/ ParkStory(e)
  PROVE  WorkerTurn(e)
<1>1. CASE Enter(e)
  <2>1. StoreLess /\ UNCHANGED <<stepOrder, meta>>
    BY <1>1, QuietWrites DEF Enter, Try
  <2>2. pc[e] = "enter" /\ pc'[e] = "step" /\ Others(e) /\ local'[e] = local[e]
    BY <1>1 DEF Enter, Others, ExecTypeOK
  <2>3. "enter" \notin Leaving \cup {"load", "start"}
    BY HasTurn
  <2>4. KeepsTurn
    BY <2>1, <2>2, <2>3, QuietWorker
  <2> QED BY <2>1, <2>2, <2>3, <2>4 DEF WorkerTurn, Unparked
<1>2. CASE ParkRun(e) \/ ParkStory(e)
  <2>1. StoreLess /\ UNCHANGED <<stepOrder, meta>>
    BY <1>2, QuietWrites DEF ParkRun, ParkStory, Try
  <2> QED BY <1>2, <2>1, HasTurn, QuietGoto, QuietReturn DEF ParkRun, ParkStory
<1>3. CASE ParkMeta(e)
  <2>1. pc[e] = "enter" /\ pc'[e] = "park_run" /\ Others(e)
    BY <1>3 DEF ParkMeta, Goto, Others, ExecTypeOK
  <2>2. /\ \A f \in Workers : f # e => pc[f] \in Leaving
        /\ Queued = {} /\ Asked = {} /\ Called = {} /\ Parked = {} /\ Unretried = {}
    BY <2>1, HasTurn, Alone
  <2>3. Working' = {}
    BY <2>1, <2>2, HasTurn DEF Working, Others, Leaving
  <2>4. UNCHANGED <<jobs, hitl, stepOrder, stepStatus>>
    BY <1>3 DEF ParkMeta, Try, UpdateRunMetadata, Fails, Fault, NoWrite, storeVars
  <2>5. Queued' = {} /\ Called' = {} /\ Asked' = {} /\ Unretried' = {}
    BY <2>2, <2>4 DEF Queued, Called, Asked, Pending, Unretried, AwaitsRetry, RetriesOf, sessionVars
  <2>6. Parked' \subseteq {meta'.parked}
    BY DEF Parked
  <2>7. Turns # {}
    BY <2>1, HasTurn, ItsTurn
  <2>8. KeepsTurn
    BY <2>3, <2>5, <2>6, <2>7, OnlyTurn
  <2> QED BY <2>1, <2>8, HasTurn DEF WorkerTurn
<1> QED BY <1>1, <1>2, <1>3

LEMMA SteppingTurn ==
  ASSUME StoreTypeOK, ExecTypeOK, OneTurn, Unparked, NEW e \in Workers, UNCHANGED sessionVars,
         GateSteps = {},
         \/ StartStep(e) \/ ActSucceeds(e) \/ ActFails(e) \/ ActRequest(e) \/ ActWait(e)
         \/ ActPause(e) \/ PersistMetadata(e) \/ RefetchSuspended(e) \/ Refetch(e)
         \/ CompleteStep(e) \/ CompleteFails(e)
  PROVE  WorkerTurn(e)
<1>1. ~ActRequest(e)
  BY DEF ActRequest, IsGateStep
<1>2. CASE PersistMetadata(e)
  <2>1. pc[e] = "persist" /\ "persist" \notin Leaving \cup {"load", "start"}
    BY <1>2, HasTurn DEF PersistMetadata
  <2>2. local[e].parked = 0
    BY <2>1 DEF Unparked
  <2>3. StoreLess /\ UNCHANGED stepOrder
    BY <1>2, <2>2, StoreLessens, QuietWrites DEF PersistMetadata, Try, UpdateRunMetadata
  <2> QED BY <1>2, <2>1, <2>3, HasTurn, QuietGoto DEF PersistMetadata
<1>3. CASE CompleteStep(e)
  <2>1. StoreLess /\ UNCHANGED <<stepOrder, meta>>
    BY <1>3, QuietWrites DEF CompleteStep
  <2>2. pc[e] = "complete" /\ Others(e) /\ local'[e] = local[e]
    BY <1>3 DEF CompleteStep, Others, ExecTypeOK
  <2>3. "complete" \notin Leaving \cup {"load", "start"}
    BY HasTurn
  <2>4. KeepsTurn
    BY <2>1, <2>2, <2>3, QuietWorker
  <2> QED BY <2>1, <2>2, <2>3, <2>4 DEF WorkerTurn, Unparked
<1>4. CASE \/ StartStep(e) \/ ActSucceeds(e) \/ ActFails(e) \/ ActWait(e)
           \/ ActPause(e) \/ RefetchSuspended(e) \/ Refetch(e) \/ CompleteFails(e)
  <2>1. StoreLess /\ UNCHANGED <<stepOrder, meta>>
    BY <1>4, QuietWrites DEF StartStep, ActSucceeds, ActFails, ActWait, ActPause,
       RefetchSuspended, Refetch, CompleteFails
  <2>2. pc[e] \notin Leaving \cup {"load", "start"}
    BY <1>4, HasTurn DEF StartStep, ActSucceeds, ActFails, ActWait, ActPause,
       RefetchSuspended, Refetch, CompleteFails
  <2>3. Return(e) \/ \E p : Goto(e, p)
    BY <1>4 DEF StartStep, ActSucceeds, ActFails, ActWait, ActPause,
       RefetchSuspended, Refetch, CompleteFails
  <2> QED BY <2>1, <2>2, <2>3, QuietGoto, QuietReturn
<1> QED BY <1>1, <1>2, <1>3, <1>4

(* The failed row is written: where steps are retried, it has the turn now. *)
LEMMA FailingTurn ==
  ASSUME Sound, OneTurn, Unparked, NEW e \in Workers, UNCHANGED sessionVars,
         HandleFailureStep(e)
  PROVE  WorkerTurn(e)
<1>1. StoreTypeOK /\ ExecTypeOK /\ cur[e] \in Rows
  BY DEF Sound, TypeOK, ViewsSound, WorkerSound, PhaseSound, HandleFailureStep, InStep, ExecTypeOK
<1>2. pc[e] = "fail_step" /\ pc'[e] = "fail_run" /\ Others(e) /\ local'[e] = local[e]
  BY <1>1 DEF HandleFailureStep, Goto, Others, ExecTypeOK
<1>3. /\ "fail_step" \notin Leaving \cup {"load", "start"}
      /\ \A f \in Workers : f # e => pc[f] \in Leaving
      /\ Queued = {} /\ Asked = {} /\ Called = {} /\ Parked = {} /\ Unretried = {}
  BY <1>2, HasTurn, Alone
<1>4. UNCHANGED <<meta, stepOrder, hitl, jobs>>
  BY DEF HandleFailureStep, Try, UpdateRunStepStatus, Fails, Fault, NoWrite, storeVars
<1>5. CASE Fails(e)
  <2>1. StoreLess
    BY <1>1, <1>5, StoreLessens
  <2> QED BY <1>1, <1>2, <1>3, <1>4, <2>1, QuietGoto DEF HandleFailureStep
<1>6. CASE UpdateRunStepStatus(cur[e], "failed")
  <2>1. Queued' = {} /\ Asked' = {} /\ Called' = {} /\ Parked' = {}
    BY <1>3, <1>4 DEF Queued, Asked, Pending, Called, Parked, sessionVars
  <2>2. ASSUME NEW k \in Orders, AwaitsRetry(k)', k # stepOrder[cur[e]]
        PROVE  AwaitsRetry(k)
    BY <1>1, <1>6, <2>2 DEF AwaitsRetry, RetriesOf, UpdateRunStepStatus, StoreTypeOK
  <2>3. Unretried' \subseteq {stepOrder[cur[e]]}
    BY <1>3, <1>4, <2>2 DEF Unretried, sessionVars
  <2>4. CASE "retry" \in Ops
    <3>1. Working' = {}
      BY <1>2, <1>3, <2>4, HasTurn DEF Working, Others, Leaving
    <3>2. KeepsTurn
      BY <1>2, <1>3, <2>1, <2>3, <3>1, ItsTurn, OnlyTurn
    <3> QED BY <1>2, <1>3, <1>4, <2>4, <3>2, HasTurn DEF WorkerTurn
  <2>5. CASE "retry" \notin Ops
    <3>1. Unretried' = {}
      BY <2>5 DEF Unretried
    <3>2. Working' \subseteq {e}
      BY <1>2, <1>3 DEF Working, Others, Leaving
    <3>3. KeepsTurn
      BY <1>2, <1>3, <2>1, <3>1, <3>2, ItsTurn, OnlyTurn
    <3> QED BY <1>2, <1>3, <1>4, <3>3 DEF WorkerTurn, Unparked
  <2> QED BY <2>4, <2>5
<1> QED BY <1>5, <1>6 DEF HandleFailureStep, Try

LEMMA EndingTurn ==
  ASSUME StoreTypeOK, ExecTypeOK, OneTurn, Unparked, NEW e \in Workers, UNCHANGED sessionVars,
         \/ HandleFailureRun(e) \/ StoryFailed(e)
         \/ HandleCancellationStep(e) \/ HandleCancellationRun(e) \/ StoryBacklog(e)
         \/ ClearStage(e) \/ Finish(e) \/ StoryDone(e) \/ Expire(e)
  PROVE  WorkerTurn(e)
<1>1. StoreLess /\ UNCHANGED <<stepOrder, meta>>
  BY QuietWrites DEF HandleFailureRun, StoryFailed, HandleCancellationStep,
     HandleCancellationRun, StoryBacklog, ClearStage, Finish, StoryDone, Expire, Try, BestEffort
<1>2. CASE HandleFailureRun(e)
  <2>1. "story_failed" \in Leaving \/ pc[e] \notin Leaving \cup {"load", "start"}
    BY <1>2, HasTurn DEF HandleFailureRun
  <2> QED BY <1>1, <1>2, <2>1, QuietGoto DEF HandleFailureRun
<1>3. CASE StoryFailed(e) \/ StoryBacklog(e) \/ StoryDone(e)
  BY <1>1, <1>3, QuietReturn DEF StoryFailed, StoryBacklog, StoryDone
<1>4. CASE HandleCancellationStep(e) \/ HandleCancellationRun(e) \/ ClearStage(e) \/ Finish(e)
  <2>1. pc[e] \notin Leaving \cup {"load", "start"}
    BY <1>4, HasTurn DEF HandleCancellationStep, HandleCancellationRun, ClearStage, Finish
  <2> QED BY <1>1, <1>4, <2>1, QuietGoto
      DEF HandleCancellationStep, HandleCancellationRun, ClearStage, Finish
<1>5. CASE Expire(e)
  <2>1. Others(e) /\ UNCHANGED <<pc, local>>
    BY <1>5 DEF Expire, Others
  <2>2. KeepsTurn
    <3>1. Working' = Working
      BY <2>1 DEF Working, Leaving
    <3>2. Called' = Called /\ Unretried' \subseteq Unretried
      BY <1>1 DEF Called, Unretried, StoreLess, sessionVars
    <3>3. Turns' \subseteq Turns
      BY <1>1, <3>1, <3>2 DEF Turns, StoreLess
    <3> QED BY <3>3 DEF KeepsTurn
  <2> QED BY <1>1, <2>1, <2>2 DEF WorkerTurn, Unparked
<1> QED BY <1>2, <1>3, <1>4, <1>5

LEMMA ExecutorTurn ==
  ASSUME Sound, OneTurn, Unparked, NEW e \in Workers, UNCHANGED sessionVars, GateSteps = {},
         ExecuteRun(e) \/ Expire(e)
  PROVE  WorkerTurn(e)
<1>1. StoreTypeOK /\ ExecTypeOK
  BY DEF Sound, TypeOK
<1> QED BY <1>1, TakesTurn, TakingTurn, PollingTurn, GatingTurn, EnteringTurn, SteppingTurn,
       FailingTurn, EndingTurn DEF ExecuteRun

(* The steps of the workers keep the turns and what the others rely on.     *)
LEMMA WorkersKeepTurn ==
  ASSUME Sound, Orderly, InTurn, ExecutorNext
  PROVE  InTurn' /\ (Turns = {} => Turns' = {})
<1>1. PICK e \in Workers : (ExecuteRun(e) \/ Expire(e)) /\ UNCHANGED sessionVars
  BY DEF ExecutorNext
<1>2. StoreTypeOK /\ WorkerTurn(e)
  BY <1>1, ExecutorTurn DEF InTurn, Orderly, Sound, TypeOK
<1>3. OneTurn' /\ (Turns = {} => Turns' = {})
  BY <1>2, OneTurnStays DEF InTurn, WorkerTurn
<1>4. Unparked'
  BY <1>2 DEF Unparked, WorkerTurn, Others, InTurn, Leaving
<1>5. ASSUME NEW c \in Clients PROVE CallFits(c)'
  <2>1. Steady
    BY <1>1, <1>2, WorkersAreSteady
  <2>2. CallFits(c) /\ op'[c] = op[c] /\ arg'[c] = arg[c] /\ snap'[c] = snap[c]
    BY <1>1 DEF InTurn, sessionVars
  <2>3. op[c] = "start_meta" => meta' = meta
    <3>1. CASE op[c] = "start_meta"
      <4>1. meta.parked \in Parked
        BY <1>2, <2>2, <3>1 DEF CallFits, Parked, StoreTypeOK, Metadata
      <4>2. pc[e] \in Leaving
        BY <4>1, Alone DEF InTurn
      <4> QED BY <1>2, <4>2 DEF WorkerTurn
    <3> QED BY <3>1
  <2> QED BY <2>1, <2>2, <2>3 DEF CallFits, Steady, Pending
<1> QED BY <1>3, <1>4, <1>5 DEF InTurn

-----------------------------------------------------------------------------
(* The steps of the call in progress.                                       *)

SessionTurn(c) == KeepsTurn /\ CallFits(c)'

LEMMA QuietSession ==
  ASSUME Orderly, NEW c \in Clients, StoreLess, UNCHANGED <<stepOrder, execVars>>,
         op'[c] \in Going => op[c] \in Going, op[c] # "retry_create"
  PROVE  KeepsTurn
<1>1. \A d \in Clients : d = c
  BY DEF Orderly
<1>2. Working' = Working
  BY DEF Working, Leaving, execVars
<1>3. Called' \subseteq Called
  BY <1>1 DEF Called
<1>4. Unretried' \subseteq Unretried
  BY <1>1 DEF Unretried, StoreLess
<1>5. Turns' \subseteq Turns
  BY <1>2, <1>3, <1>4 DEF Turns, StoreLess
<1> QED BY <1>5 DEF KeepsTurn

(* What a step of a call may lead to without more ado.                      *)
LEMMA PlainFits ==
  ASSUME NEW c \in Clients,
         op'[c] \in {"idle", "set_paused", "set_running", "enqueue", "cancel_list", "cancel_steps",
                     "cancel_story", "complete_step", "resume_read", "hitl_running", "reject_step"}
                    \cup (IF "breach" \in Ops THEN {"fail_step", "fail_run"} ELSE {})
                    \cup (IF "retry" \in Ops THEN {"retry_check", "retry_create"} ELSE {})
  PROVE  CallFits(c)'
BY DEF CallFits

(* The turn of a call is its own, and only the call's.                      *)
LEMMA ItsCall ==
  ASSUME Orderly, OneTurn, NEW c \in Clients, op[c] \in Going
  PROVE  /\ Turns # {} /\ Called = {c}
         /\ Working = {} /\ Queued = {} /\ Asked = {} /\ Parked = {} /\ Unretried = {}
<1>1. c \in Called /\ \A d \in Clients : d = c
  BY DEF Called, Orderly
<1>2. <<"call", c>> \in Turns
  BY <1>1 DEF Turns
<1>3. Called = {c}
  BY <1>1 DEF Called
<1> QED BY <1>1, <1>2, <1>3, Alone

LEMMA SharedTurn ==
  ASSUME Sound, Orderly, InTurn, NEW c \in Clients, UNCHANGED execVars, SharedStep(c)
  PROVE  SessionTurn(c)
<1>t. /\ StoreTypeOK /\ SessionTypeOK /\ OneTurn /\ CallFits(c) /\ \A d \in Clients : d = c
  BY DEF Sound, TypeOK, InTurn, Orderly
<1>1. CASE SetPaused(c) \/ FailRun(c)
  <2>1. op'[c] = "idle" /\ op[c] # "retry_create"
    BY <1>1, <1>t DEF SetPaused, FailRun, End, SessionTypeOK
  <2>2. StoreLess /\ UNCHANGED stepOrder
    BY <1>1, <1>t, QuietWrites DEF SetPaused, FailRun, BestEffort
  <2>3. "idle" \notin Going
    BY DEF Going
  <2> QED BY <2>1, <2>2, <2>3, QuietSession, PlainFits DEF SessionTurn
<1>2. CASE SetRunning(c)
  <2>1. op[c] = "set_running" /\ op'[c] \in {"enqueue", "idle"}
    BY <1>2, <1>t DEF SetRunning, Then, End, SessionTypeOK
  <2>2. StoreLess /\ UNCHANGED stepOrder
    BY <1>2, <1>t, QuietWrites DEF SetRunning
  <2>3. op[c] \in Going
    BY <2>1 DEF Going
  <2> QED BY <2>1, <2>2, <2>3, QuietSession, PlainFits DEF SessionTurn
<1>3. CASE Enqueue(c)
  <2>1. op[c] = "enqueue" /\ op'[c] = "idle" /\ op[c] \in Going
    BY <1>3, <1>t DEF Enqueue, End, SessionTypeOK, Going
  <2>2. CASE Fault
    BY <1>t, <2>1, <2>2, QuietWrites, QuietSession, PlainFits DEF SessionTurn
  <2>3. CASE EnqueueExecuteRun
    <3>1. Turns # {} /\ Working = {} /\ Queued = {} /\ Asked = {} /\ Parked = {} /\ Unretried = {}
      BY <1>t, <2>1, ItsCall
    <3>2. UNCHANGED <<meta, stepOrder, stepStatus, hitl>> /\ jobs' = jobs + 1
      BY <2>3 DEF EnqueueExecuteRun
    <3>3. Queued' \subseteq {1}
      BY <1>t, <3>1, <3>2 DEF Queued, StoreTypeOK
    <3>4. Called' = {}
      BY <1>t, <2>1 DEF Called, Going
    <3>5. Working' = {} /\ Asked' = {} /\ Parked' = {} /\ Unretried' = {}
      BY <1>t, <2>1, <3>1, <3>2 DEF Working, Leaving, Asked, Pending, Parked, Unretried,
         AwaitsRetry, RetriesOf, execVars
    <3>6. KeepsTurn
      BY <3>1, <3>3, <3>4, <3>5, OnlyTurn
    <3> QED BY <2>1, <3>6, PlainFits DEF SessionTurn
  <2> QED BY <1>3, <2>2, <2>3 DEF Enqueue, BestEffort
<1>4. CASE FailStep(c)
  <2>1. op[c] = "fail_step" /\ op'[c] = "fail_run" /\ "breach" \in Ops /\ "retry" \notin Ops
    BY <1>4, <1>t DEF FailStep, Then, SessionTypeOK, CallFits, Orderly
  <2>2. UNCHANGED <<meta, stepOrder, hitl, jobs>>
    BY <1>4 DEF FailStep, BestEffort, UpdateRunStepStatus, Fault, NoWrite, storeVars
  <2>3. Unretried' = {}
    BY <2>1 DEF Unretried
  <2>4. Called' = {}
    BY <1>t, <2>1 DEF Called, Going
  <2>5. Working' = Working /\ Asked' = Asked /\ Parked' = Parked /\ Queued' = Queued
    BY <2>2 DEF Working, Leaving, Asked, Pending, Parked, Queued, execVars
  <2>6. Turns' \subseteq Turns
    BY <2>3, <2>4, <2>5 DEF Turns
  <2> QED BY <2>1, <2>6, PlainFits DEF SessionTurn, KeepsTurn
<1> QED BY <1>1, <1>2, <1>3, <1>4 DEF SharedStep

LEMMA RetryTurn ==
  ASSUME Sound, Orderly, InTurn, NEW c \in Clients, UNCHANGED execVars,
         RetryStep(c) \/ RetryStepCheck(c) \/ RetryStepCreate(c)
  PROVE  SessionTurn(c)
<1>t. /\ StoreTypeOK /\ SessionTypeOK /\ StoreSound /\ SessionSound(c) /\ OneTurn
      /\ CallFits(c) /\ \A d \in Clients : d = c
  BY DEF Sound, TypeOK, ViewsSound, InTurn, Orderly
<1>1. CASE RetryStep(c)
  <2>1. op[c] = "idle" /\ op'[c] = "retry_check" /\ "retry" \in Ops
    BY <1>1, <1>t DEF RetryStep, Spend, SessionTypeOK
  <2>2. StoreLess /\ UNCHANGED stepOrder
    BY <1>1, <1>t, QuietWrites DEF RetryStep
  <2>3. op'[c] \notin Going
    BY <2>1 DEF Going
  <2> QED BY <2>1, <2>2, <2>3, QuietSession, PlainFits DEF SessionTurn
<1>2. CASE RetryStepCheck(c)
  <2>1. op[c] = "retry_check" /\ "retry" \in Ops /\ NoWrite /\ arg[c] \in Rows /\ Exists(arg[c])
    BY <1>2, <1>t DEF RetryStepCheck, CallFits, SessionSound, OnRow, OnFound
  <2>2. StoreLess /\ UNCHANGED <<stepOrder, stepStatus, meta, hitl, jobs>>
    BY <2>1, <1>t, QuietWrites DEF NoWrite, storeVars
  <2>3. CASE End(c)
    <3>1. op'[c] = "idle" /\ "idle" \notin Going
      BY <2>3, <1>t DEF End, SessionTypeOK, Going
    <3> QED BY <2>1, <2>2, <3>1, QuietSession, PlainFits DEF SessionTurn
  <2>4. CASE CanRetry(arg[c]) /\ Then(c, "retry_create")
    <3> DEFINE k == stepOrder[arg[c]]
    <3>1. op'[c] = "retry_create" /\ arg'[c] = arg[c]
      BY <2>4, <1>t DEF Then, SessionTypeOK
    <3>2. k \in Orders
      BY <2>1, <1>t DEF StoreTypeOK, Exists, Orders
    <3>3. RetriesOf(k) = {}
      <4>1. IsFiniteSet(Rows)
        BY StepsAssumption, FS_Interval DEF Rows
      <4>2. IsFiniteSet(RetriesOf(k))
        BY <4>1, FS_Subset DEF RetriesOf
      <4>3. Cardinality(RetriesOf(k)) \in Nat
        BY <4>2, FS_CardinalityType
      <4>4. Cardinality(RetriesOf(k)) = 0
        BY <2>1, <2>4, <4>3, StepsAssumption DEF CanRetry, Orderly
      <4> QED BY <4>2, <4>4, FS_EmptySet
    <3>4. AwaitsRetry(k)
      BY <2>1, <2>4, <3>3 DEF AwaitsRetry, CanRetry
    <3>5. k \in Unretried
      BY <1>t, <2>1, <3>2, <3>4 DEF Unretried
    <3>6. /\ Unretried \subseteq {k}
          /\ Working = {} /\ Queued = {} /\ Asked = {} /\ Called = {} /\ Parked = {}
      BY <1>t, <3>5, Alone
    <3>7. Unretried' = {}
      BY <1>t, <2>2, <3>1, <3>6 DEF Unretried, AwaitsRetry, RetriesOf
    <3>8. Working' = {} /\ Queued' = {} /\ Asked' = {} /\ Parked' = {}
      BY <2>2, <3>6 DEF Working, Leaving, Queued, Asked, Pending, Parked, execVars
    <3>9. Called' \subseteq {c}
      BY <1>t DEF Called
    <3>10. Turns # {}
      <4>1. <<"failed", k>> \in Turns
        BY <3>5 DEF Turns
      <4> QED BY <4>1
    <3>11. KeepsTurn
      BY <3>7, <3>8, <3>9, <3>10, OnlyTurn
    <3> QED BY <2>1, <3>1, <3>11, PlainFits DEF SessionTurn
  <2> QED BY <1>2, <2>3, <2>4 DEF RetryStepCheck
<1>3. CASE RetryStepCreate(c)
  <2>1. op[c] = "retry_create" /\ op[c] \in Going /\ arg[c] \in Rows /\ Exists(arg[c])
    BY <1>3, <1>t DEF RetryStepCreate, SessionSound, OnRow, OnFound, Going
  <2>k. PICK k \in Orders : k = stepOrder[arg[c]]
    BY <1>t, <2>1 DEF StoreTypeOK, Exists, Orders
  <2>2. /\ Turns # {} /\ Called = {c}
        /\ Working = {} /\ Queued = {} /\ Asked = {} /\ Parked = {} /\ Unretried = {}
    BY <1>t, <2>1, ItsCall
  <2>3. UNCHANGED <<meta, hitl, jobs>> /\ op'[c] \in {"set_running", "enqueue", "idle"}
    BY <1>3, <1>t DEF RetryStepCreate, CreateRetryRunStep, Fault, NoWrite, storeVars, Then, End,
       SessionTypeOK
  <2>4. Working' = {} /\ Queued' = {} /\ Asked' = {} /\ Parked' = {}
    BY <2>2, <2>3 DEF Working, Leaving, Queued, Asked, Pending, Parked, execVars
  <2>5. \A l \in Orders : AwaitsRetry(l) => l = k
    BY <1>t, <2>1, <2>k, <2>2 DEF Unretried, Orderly, RetryStepCreate, CallFits
  <2>6. CASE Fault /\ End(c)
    <3>1. op'[c] = "idle" /\ UNCHANGED <<stepOrder, stepStatus>>
      BY <1>t, <2>6 DEF End, SessionTypeOK, Fault, NoWrite, storeVars
    <3>2. Unretried' \subseteq {k}
      BY <2>5, <3>1 DEF Unretried, AwaitsRetry, RetriesOf
    <3>3. Called' = {}
      BY <1>t, <3>1 DEF Called, Going
    <3>4. KeepsTurn
      BY <2>2, <2>4, <3>2, <3>3, OnlyTurn
    <3> QED BY <3>1, <3>4, PlainFits DEF SessionTurn
  <2>7. CASE CreateRetryRunStep(k)
    <3>1. PICK r \in Rows : /\ ~Exists(r)
                            /\ stepOrder' = [stepOrder EXCEPT ![r] = k]
                            /\ stepStatus' = [stepStatus EXCEPT ![r] = "pending"]
      BY <2>7 DEF CreateRetryRunStep
    <3>2. r > NumSteps
      BY <1>t, <3>1, StepsAssumption DEF StoreSound, Exists, Rows, Orders
    <3>3. r \in RetriesOf(k)'
      BY <1>t, <3>1, <3>2 DEF RetriesOf, StoreTypeOK
    <3>4. ~AwaitsRetry(k)'
      BY <3>3 DEF AwaitsRetry
    <3>5. ASSUME NEW l \in Orders, l # k, AwaitsRetry(l)'
          PROVE  AwaitsRetry(l)
      <4>1. PICK x \in Rows : stepOrder'[x] = l /\ stepStatus'[x] = "failed"
        BY <3>5 DEF AwaitsRetry
      <4>2. x # r /\ stepOrder[x] = l /\ stepStatus[x] = "failed"
        BY <1>t, <3>1, <3>5, <4>1 DEF StoreTypeOK
      <4>3. l # 0 /\ \A y \in Rows : stepOrder[y] = l => stepOrder'[y] = l
        BY <1>t, <3>1 DEF StoreTypeOK, Exists, Orders
      <4>4. RetriesOf(l) = {}
        BY <3>5, <4>3 DEF AwaitsRetry, RetriesOf
      <4> QED BY <4>2, <4>4 DEF AwaitsRetry
    <3>6. Unretried' = {}
      BY <2>5, <3>4, <3>5 DEF Unretried
    <3>7. Called' \subseteq {c}
      BY <1>t DEF Called
    <3>8. KeepsTurn
      BY <2>2, <2>4, <3>6, <3>7, OnlyTurn
    <3> QED BY <2>3, <3>8, PlainFits DEF SessionTurn
  <2> QED BY <1>3, <2>k, <2>6, <2>7 DEF RetryStepCreate
<1> QED BY <1>1, <1>2, <1>3

LEMMA RunServiceTurn ==
  ASSUME Sound, Orderly, InTurn, NEW c \in Clients, UNCHANGED execVars, RunServiceStep(c)
  PROVE  SessionTurn(c)
<1>t. /\ StoreTypeOK /\ SessionTypeOK /\ OneTurn /\ CallFits(c) /\ \A d \in Clients : d = c
  BY DEF Sound, TypeOK, InTurn, Orderly
<1>1. CASE PauseRun(c) \/ CancelRun(c)
  <2>1. op[c] = "idle" /\ op'[c] \in {"set_paused", "cancel_list"} /\ NoWrite
    BY <1>1, <1>t DEF PauseRun, CancelRun, Begin, SessionTypeOK
  <2>2. StoreLess /\ UNCHANGED stepOrder /\ op'[c] \notin Going
    BY <2>1, <1>t, QuietWrites DEF Going
  <2> QED BY <2>1, <2>2, QuietSession, PlainFits DEF SessionTurn
<1>2. ~ResumeRun(c)
  BY DEF ResumeRun, Begin, Spend, Orderly
<1>3. CASE StartStage(c)
  <2>1. /\ op[c] = "idle" /\ op'[c] = "start_meta" /\ NoWrite
        /\ meta.parked # 0 /\ snap'[c].parked = 0
    BY <1>3, <1>t DEF StartStage, SessionTypeOK
  <2>2. StoreLess /\ UNCHANGED <<stepOrder, meta>> /\ op'[c] \notin Going
    BY <2>1, <1>t, QuietWrites DEF Going
  <2> QED BY <2>1, <2>2, QuietSession DEF SessionTurn, CallFits
<1>4. CASE StartStageMetadata(c)
  <2>1. op[c] = "start_meta" /\ meta.parked # 0 /\ snap[c].parked = 0
    BY <1>4, <1>t DEF StartStageMetadata, CallFits
  <2>2. CASE Fault /\ End(c)
    <3>1. op'[c] = "idle" /\ op'[c] \notin Going
      BY <2>2, <1>t DEF End, SessionTypeOK, Going
    <3>2. StoreLess /\ UNCHANGED stepOrder
      BY <2>2, <1>t, QuietWrites
    <3> QED BY <2>1, <3>1, <3>2, QuietSession, PlainFits DEF SessionTurn
  <2>3. CASE UpdateRunMetadataGo(snap[c]) /\ Then(c, "set_running")
    <3>1. op'[c] = "set_running" /\ Called' \subseteq {c}
      BY <2>3, <1>t DEF Then, SessionTypeOK, Called
    <3>2. meta'.parked = 0 /\ UNCHANGED <<stepOrder, stepStatus, hitl, jobs>>
      BY <2>1, <2>3 DEF UpdateRunMetadataGo
    <3>3. meta.parked \in Parked
      BY <1>t, <2>1 DEF StoreTypeOK, Metadata, Parked
    <3>4. Working = {} /\ Queued = {} /\ Asked = {} /\ Called = {} /\ Unretried = {}
      BY <1>t, <3>3, Alone
    <3>5. Parked' = {}
      BY <3>2, StagesAssumption DEF Parked, Stages
    <3>6. Working' = {} /\ Queued' = {} /\ Asked' = {} /\ Unretried' = {}
      BY <1>t, <2>1, <3>2, <3>4 DEF Working, Leaving, Queued, Asked, Pending, Unretried,
         AwaitsRetry, RetriesOf, execVars
    <3>7. Turns # {}
      <4>1. <<"parked", meta.parked>> \in Turns
        BY <3>3 DEF Turns
      <4> QED BY <4>1
    <3>8. KeepsTurn
      BY <3>1, <3>5, <3>6, <3>7, OnlyTurn
    <3> QED BY <3>1, <3>8, PlainFits DEF SessionTurn
  <2> QED BY <1>4, <2>2, <2>3 DEF StartStageMetadata
<1>5. CASE CancelRunList(c) \/ CancelRunStep(c) \/ CancelRunWrite(c) \/ TransitionStoryToBacklog(c)
  <2>1. op[c] \in {"cancel_list", "cancel_steps", "cancel_story"}
    BY <1>5 DEF CancelRunList, CancelRunStep, CancelRunWrite, TransitionStoryToBacklog
  <2>2. op'[c] \in {"idle", "cancel_steps", "cancel_story"}
    BY <1>5, <1>t, <2>1 DEF CancelRunList, CancelRunStep, CancelListed, CancelRunWrite,
       TransitionStoryToBacklog, End, Then, SessionTypeOK
  <2>3. StoreLess /\ UNCHANGED stepOrder /\ op'[c] \notin Going
    BY <1>5, <1>t, <2>2, QuietWrites DEF CancelRunList, CancelRunStep, CancelListed,
       CancelRunWrite, TransitionStoryToBacklog, BestEffort, Going
  <2> QED BY <2>1, <2>2, <2>3, QuietSession, PlainFits DEF SessionTurn
<1>6. CASE RetryStep(c) \/ RetryStepCheck(c) \/ RetryStepCreate(c)
  BY <1>6, RetryTurn
<1> QED BY <1>1, <1>2, <1>3, <1>4, <1>5, <1>6 DEF RunServiceStep

LEMMA HITLServiceTurn ==
  ASSUME Sound, Orderly, InTurn, NEW c \in Clients, UNCHANGED execVars, HITLServiceStep(c)
  PROVE  SessionTurn(c)
<1>t. /\ StoreTypeOK /\ SessionTypeOK /\ SessionSound(c) /\ OneTurn /\ CallFits(c)
      /\ \A d \in Clients : d = c
  BY DEF Sound, TypeOK, ViewsSound, InTurn, Orderly
<1>1. CASE Approve(c) \/ Reject(c)
  <2>1. PICK q \in Reqs : /\ Pending(q) /\ NoWrite /\ op[c] = "idle"
                          /\ op'[c] \in {"approve", "reject"} /\ arg'[c] = q
    BY <1>1, <1>t DEF Approve, Reject, Begin, SessionTypeOK
  <2>2. StoreLess /\ UNCHANGED <<stepOrder, hitl>> /\ op'[c] \notin Going
    BY <2>1, <1>t, QuietWrites DEF Going, NoWrite, storeVars
  <2>3. CallFits(c)'
    BY <2>1, <2>2 DEF CallFits, Pending
  <2> QED BY <2>1, <2>2, <2>3, QuietSession DEF SessionTurn
<1>2. CASE ApproveWrite(c) \/ RejectWrite(c)
  <2>1. op[c] \in {"approve", "reject"} /\ arg[c] \in Reqs /\ Pending(arg[c])
    BY <1>2, <1>t DEF ApproveWrite, RejectWrite, CallFits
  <2>2. CASE Fault /\ End(c)
    <3>1. op'[c] = "idle" /\ op'[c] \notin Going
      BY <2>2, <1>t DEF End, SessionTypeOK, Going
    <3>2. StoreLess /\ UNCHANGED stepOrder
      BY <2>2, <1>t, QuietWrites
    <3> QED BY <2>1, <3>1, <3>2, QuietSession, PlainFits DEF SessionTurn
  <2>3. CASE \/ UpdateHITLRequestStatus(arg[c], "approved") /\ \E a : ThenOn(c, "complete_step", a)
             \/ UpdateHITLRequestStatus(arg[c], "rejected") /\ \E a : ThenOn(c, "reject_step", a)
    <3>1. op'[c] \in {"complete_step", "reject_step"} /\ Called' \subseteq {c}
      BY <2>3, <1>t DEF ThenOn, SessionTypeOK, Called
    <3>2. arg[c] \in Asked
      BY <2>1 DEF Asked
    <3>3. /\ Asked \subseteq {arg[c]}
          /\ Working = {} /\ Queued = {} /\ Called = {} /\ Parked = {} /\ Unretried = {}
      BY <1>t, <3>2, Alone
    <3>4. UNCHANGED <<stepOrder, stepStatus, meta, jobs>>
      BY <2>3 DEF UpdateHITLRequestStatus
    <3>5. /\ hitl'[arg[c]].status # "pending"
          /\ \A q \in Reqs : q # arg[c] => hitl'[q] = hitl[q]
      BY <2>1, <2>3, <1>t DEF UpdateHITLRequestStatus, StoreTypeOK
    <3>6. Asked' = {}
      BY <3>3, <3>5 DEF Asked, Pending
    <3>7. Working' = {} /\ Queued' = {} /\ Parked' = {} /\ Unretried' = {}
      BY <1>t, <2>1, <3>3, <3>4 DEF Working, Leaving, Queued, Parked, Unretried,
         AwaitsRetry, RetriesOf, execVars
    <3>8. Turns # {}
      <4>1. <<"request", arg[c]>> \in Turns
        BY <3>2 DEF Turns
      <4> QED BY <4>1
    <3>9. KeepsTurn
      BY <3>1, <3>6, <3>7, <3>8, OnlyTurn
    <3> QED BY <3>1, <3>9, PlainFits DEF SessionTurn
  <2> QED BY <1>2, <2>2, <2>3 DEF ApproveWrite, RejectWrite
<1>3. CASE CompleteGateStep(c) \/ ResumeRead(c) \/ ResumeWrite(c)
  <2>1. /\ op[c] \in {"complete_step", "resume_read", "hitl_running"}
        /\ op'[c] \in {"resume_read", "hitl_running", "enqueue"}
    BY <1>3, <1>t DEF CompleteGateStep, ResumeRead, ResumeWrite, Then, ReadRun, SessionTypeOK
  <2>2. StoreLess /\ UNCHANGED stepOrder
    BY <1>3, <1>t, QuietWrites DEF CompleteGateStep, ResumeRead, ResumeWrite, ReadRun, BestEffort
  <2>3. op[c] \in Going
    BY <2>1 DEF Going
  <2> QED BY <2>1, <2>2, <2>3, QuietSession, PlainFits DEF SessionTurn
<1>4. CASE RejectStep(c)
  <2>1. op[c] = "reject_step" /\ op[c] \in Going /\ op'[c] = "idle" /\ arg[c] \in Rows
        /\ Exists(arg[c])
    BY <1>4, <1>t DEF RejectStep, End, SessionTypeOK, Going, SessionSound, OnRow, OnFound
  <2>k. PICK k \in Orders : k = stepOrder[arg[c]]
    BY <1>t, <2>1 DEF StoreTypeOK, Exists, Orders
  <2>2. /\ Turns # {} /\ Called = {c}
        /\ Working = {} /\ Queued = {} /\ Asked = {} /\ Parked = {} /\ Unretried = {}
    BY <1>t, <2>1, ItsCall
  <2>3. UNCHANGED <<meta, hitl, jobs, stepOrder>>
    BY <1>4 DEF RejectStep, BestEffort, UpdateRunStepStatus, Fault, NoWrite, storeVars
  <2>4. Working' = {} /\ Queued' = {} /\ Asked' = {} /\ Parked' = {}
    BY <2>2, <2>3 DEF Working, Leaving, Queued, Asked, Pending, Parked, execVars
  <2>5. Called' = {}
    BY <1>t, <2>1 DEF Called, Going
  <2>6. ASSUME NEW l \in Orders, AwaitsRetry(l)', l # k
        PROVE  AwaitsRetry(l)
    <3>1. \A r \in Rows : r # arg[c] => stepStatus'[r] = stepStatus[r]
      BY <1>4, <1>t DEF RejectStep, BestEffort, UpdateRunStepStatus, Fault, NoWrite, storeVars,
         StoreTypeOK
    <3> QED BY <2>k, <2>3, <2>6, <3>1 DEF AwaitsRetry, RetriesOf
  <2>7. Unretried' \subseteq {k}
    BY <1>t, <2>1, <2>2, <2>6 DEF Unretried
  <2>8. KeepsTurn
    BY <2>2, <2>4, <2>5, <2>7, OnlyTurn
  <2> QED BY <2>1, <2>8, PlainFits DEF SessionTurn
<1>5. CASE WatchdogBreach(c)
  <2>1. op[c] = "idle" /\ op'[c] = "fail_step" /\ NoWrite /\ "breach" \in Ops
    BY <1>5, <1>t DEF WatchdogBreach, Begin, Spend, SessionTypeOK, Orderly
  <2>2. StoreLess /\ UNCHANGED stepOrder /\ op'[c] \notin Going
    BY <2>1, <1>t, QuietWrites DEF Going
  <2> QED BY <2>1, <2>2, QuietSession, PlainFits DEF SessionTurn
<1>6. ~Resolve(c)
  BY DEF Resolve, Begin, Spend, Orderly
<1>7. ~(\/ ResolveWrite(c) \/ SendBackStep(c) \/ RaiseProbeHaltCheck(c) \/ RaiseProbeHaltRead(c)
        \/ RaiseProbeHaltCreate(c))
  BY <1>t DEF ResolveWrite, SendBackStep, RaiseProbeHaltCheck, RaiseProbeHaltRead,
     RaiseProbeHaltCreate, CallFits
<1> QED BY <1>1, <1>2, <1>3, <1>4, <1>5, <1>6, <1>7 DEF HITLServiceStep

LEMMA SessionsKeepTurn ==
  ASSUME Sound, Orderly, InTurn, SessionNext
  PROVE  InTurn' /\ (Turns = {} => Turns' = {})
<1>1. PICK c \in Clients : /\ SharedStep(c) \/ RunServiceStep(c) \/ HITLServiceStep(c)
                           /\ UNCHANGED execVars
  BY DEF SessionNext
<1>2. SessionTurn(c)
  BY <1>1, SharedTurn, RunServiceTurn, HITLServiceTurn
<1>3. OneTurn' /\ (Turns = {} => Turns' = {})
  BY <1>2, OneTurnStays DEF InTurn, SessionTurn
<1>4. Unparked'
  BY <1>1 DEF Unparked, InTurn, Leaving, execVars
<1>5. \A d \in Clients : CallFits(d)'
  BY <1>2 DEF SessionTurn, Orderly
<1> QED BY <1>3, <1>4, <1>5 DEF InTurn

(* A crash drops the turn, unless a retry was about to be created: then the *)
(* failed row can still be retried.                                         *)
LEMMA CrashKeepsTurn ==
  ASSUME Sound, Orderly, InTurn, Crash
  PROVE  InTurn' /\ (Turns = {} => Turns' = {})
<1>1. /\ UNCHANGED <<meta, hitl, jobs, stepOrder, stepStatus>>
      /\ \A e \in Workers : pc'[e] = "idle"
      /\ \A c \in Clients : op'[c] = "idle"
  BY DEF Crash, NoWrite, storeVars
<1>2. Working' = {} /\ Called' = {}
  BY <1>1 DEF Working, Leaving, Called, Going
<1>3. Queued' = Queued /\ Asked' = Asked /\ Parked' = Parked
  BY <1>1 DEF Queued, Asked, Pending, Parked
<1>4. KeepsTurn
  <2>1. CASE \E c \in Clients : op[c] = "retry_create"
    <3>1. PICK c \in Clients : op[c] = "retry_create" /\ op[c] \in Going
      BY <2>1 DEF Going
    <3>2. Turns # {} /\ Queued = {} /\ Asked = {} /\ Parked = {} /\ Unretried = {}
      BY <3>1, ItsCall DEF InTurn
    <3>3. \A l \in Orders : "retry" \in Ops /\ AwaitsRetry(l) => l = stepOrder[arg[c]]
      BY <3>1, <3>2 DEF Unretried, Orderly
    <3>4. \A l \in Orders : AwaitsRetry(l)' => AwaitsRetry(l)
      BY <1>1 DEF AwaitsRetry, RetriesOf
    <3>5. Unretried' \subseteq {stepOrder[arg[c]]}
      BY <3>3, <3>4 DEF Unretried
    <3> QED BY <1>2, <1>3, <3>2, <3>5, OnlyTurn
  <2>2. CASE ~\E c \in Clients : op[c] = "retry_create"
    <3>1. Unretried' \subseteq Unretried
      BY <1>1, <2>2 DEF Unretried, AwaitsRetry, RetriesOf
    <3>2. Turns' \subseteq Turns
      BY <1>2, <1>3, <3>1 DEF Turns
    <3> QED BY <3>2 DEF KeepsTurn
  <2> QED BY <2>1, <2>2
<1>5. Unparked'
  BY <1>1 DEF Unparked, Leaving
<1>6. \A c \in Clients : CallFits(c)'
  BY <1>1, PlainFits
<1> QED BY <1>4, <1>5, <1>6, OneTurnStays DEF InTurn

LEMMA InitInTurn ==
  ASSUME Orderly, Init
  PROVE  InTurn
<1>1. Working = {} /\ Called = {} /\ Asked = {} /\ Parked = {} /\ Unretried = {}
  BY StagesAssumption DEF Init, StoreInit, ExecInit, SessionInit, Working, Leaving, Called, Going, Asked, Pending,
     NoRequest, Parked, Stages, Unretried, AwaitsRetry
<1>2. Queued \subseteq {1}
  BY StepsAssumption DEF Init, StoreInit, Queued, Orderly
<1>3. \A t \in Turns : t = <<"job", 1>>
  <2>1. \A t \in Turns : \E i \in Queued : t = <<"job", i>>
    BY <1>1 DEF Turns
  <2>2. \A i \in Queued : i = 1
    BY <1>2
  <2> QED BY <2>1, <2>2
<1>4. OneTurn
  BY <1>3 DEF OneTurn
<1>5. Unparked
  BY DEF Init, ExecInit, Unparked, Leaving
<1>6. \A c \in Clients : CallFits(c)
  BY DEF Init, SessionInit, CallFits
<1> QED BY <1>4, <1>5, <1>6 DEF InTurn

LEMMA NextKeepsTurn ==
  ASSUME Sound, Orderly, InTurn, [Next]_vars
  PROVE  InTurn' /\ (Turns = {} => Turns' = {})
<1>1. CASE UNCHANGED vars
  <2>1. UNCHANGED <<storeVars, execVars, sessionVars>>
    BY <1>1 DEF vars
  <2>2. /\ Working' = Working /\ Queued' = Queued /\ Asked' = Asked /\ Called' = Called
        /\ Parked' = Parked /\ Unretried' = Unretried
    BY <2>1 DEF storeVars, execVars, sessionVars, Working, Leaving, Queued, Asked, Pending, Called,
       Parked, Unretried, AwaitsRetry, RetriesOf
  <2>3. Turns' = Turns
    BY <2>2 DEF Turns
  <2>4. Unparked'
    BY <2>1 DEF InTurn, Unparked, Leaving, execVars
  <2>5. \A c \in Clients : CallFits(c)'
    BY <2>1 DEF InTurn, CallFits, Pending, storeVars, sessionVars
  <2> QED BY <2>3, <2>4, <2>5 DEF InTurn, OneTurn
<1> QED BY <1>1, WorkersKeepTurn, SessionsKeepTurn, CrashKeepsTurn DEF Next

(* OneTurnAtATime: in an orderly environment whatever can bring about an    *)
(* execution of the run exists once: a queued job, an executor at work, a   *)
(* pending request, a call that will enqueue, a parked stage or a failed    *)
(* step still to be retried.                                                *)
THEOREM OneTurnAtATime ==
  ASSUME Orderly
  PROVE  Spec => []InTurn
<1>1. Init => Sound /\ InTurn
  BY InitSound, InitInTurn
<1>2. Sound /\ InTurn /\ [Next]_vars => Sound' /\ InTurn'
  BY NextKeepsSound, NextKeepsTurn
<1> QED BY <1>1, <1>2, PTL DEF Spec

(* StepsAreExclusive: in an orderly environment no two executors are in the *)
(* same step of the run, although jobs are neither unique nor locked        *)
(* (ExecuteRun).                                                            *)
THEOREM StepsAreExclusive ==
  ASSUME Orderly
  PROVE  Spec => []StepExclusive
<1>1. InTurn => StepExclusive
  <2> SUFFICES ASSUME InTurn, NEW e \in Workers, NEW f \in Workers,
                      e # f, Executing(e), Executing(f)
               PROVE  FALSE
    BY DEF StepExclusive
  <2>1. pc[e] \notin Leaving /\ pc[f] \notin Leaving
    BY HasTurn DEF Executing
  <2> QED BY <2>1, Alone DEF InTurn
<1> QED BY <1>1, OneTurnAtATime, PTL

-----------------------------------------------------------------------------
(* The gates.  What the steps of the others leave to a worker.              *)

(* No row becomes completed.                                                *)
Uncompleted == \A r \in Rows : Exists(r) /\ stepStatus[r] # "completed" => stepStatus'[r] # "completed"

GatedStay == \A s \in Stages : Gated(s) => Gated(s)'

LEMMA UncompletedWrites ==
  ASSUME StoreTypeOK
  PROVE  /\ NoWrite => Uncompleted
         /\ \A s : UpdateRunStatus(s) => Uncompleted
         /\ \A m : UpdateRunMetadata(m) => Uncompleted
         /\ \A m : UpdateRunMetadataGo(m) => Uncompleted
         /\ \A r, s : UpdateRunStepStatus(r, s) /\ s # "completed" => Uncompleted
         /\ \A k : CreateRetryRunStep(k) => Uncompleted
         /\ \A r, g : CreateHITLRequest(r, g) => Uncompleted
         /\ \A q, s : UpdateHITLRequestStatus(q, s) => Uncompleted
         /\ \A s : UpdateStory(s) => Uncompleted
         /\ \A s : UpdateStoryCurrentStage(s) => Uncompleted
         /\ EnqueueExecuteRun => Uncompleted
         /\ TakeJob => Uncompleted
         /\ Fault => Uncompleted
         /\ \A e : Fails(e) => Uncompleted
BY DEF StoreTypeOK, NoWrite, storeVars, UpdateRunStatus, UpdateRunMetadata, UpdateRunMetadataGo,
   UpdateRunStepStatus, CreateRetryRunStep, CreateHITLRequest, UpdateHITLRequestStatus,
   UpdateStory, UpdateStoryCurrentStage, EnqueueExecuteRun, TakeJob, Fault, Fails, Uncompleted

(* An approval is for good, and so is the stage of a row.                   *)
LEMMA GatedStays ==
  ASSUME Sound, InTurn, [Next]_vars
  PROVE  Grows /\ GatedStay
<1>1. Grows
  BY NextKeepsSound, StoreGrows DEF Sound, TypeOK
<1>2. DecidesPending
  BY DEF InTurn, CallFits, DecidesPending, OnRequest
<1>3. ASSUME NEW s \in Stages, Gated(s) PROVE Gated(s)'
  <2>1. PICK q \in Reqs : hitl[q].status = "approved" /\ RowStage(hitl[q].row) = s
    BY <1>3 DEF Gated
  <2>2. hitl'[q].status = "approved"
    BY <1>2, <2>1, DecisionKept
  <2>3. hitl'[q].row = hitl[q].row /\ hitl[q].row \in Rows /\ stepOrder[hitl[q].row] # 0
    BY <1>1, <2>1 DEF Grows, Sound, ViewsSound, StoreSound, Found, Exists
  <2>4. RowStage(hitl[q].row)' = s
    BY <1>1, <2>1, <2>3 DEF RowStage, Grows
  <2> QED BY <2>2, <2>4 DEF Gated
<1> QED BY <1>1, <1>3 DEF GatedStay

(* Before the gates of a worker that neither moves nor is overtaken.        *)
LEMMA AheadStays ==
  ASSUME Sound, Grows, GatedStay, Uncompleted, NEW e \in Workers, Ahead(e),
         todo'[e] = todo[e], cur'[e] = cur[e], stage'[e] = stage[e]
  PROVE  Ahead(e)'
<1>1. /\ todo[e] \subseteq Rows
      /\ \A r \in todo[e] : r \in Rows /\ Exists(r) /\ stepOrder'[r] = stepOrder[r] /\ stepStatus'[r] # "completed"
  BY DEF Sound, TypeOK, ExecTypeOK, ViewsSound, WorkerSound, Exists, Grows, Ahead, Uncompleted
<1>2. cur[e] # 0 => /\ cur[e] \in Rows /\ stepOrder'[cur[e]] = stepOrder[cur[e]]
                    /\ stepStatus'[cur[e]] # "completed"
  BY DEF Sound, TypeOK, ExecTypeOK, ViewsSound, WorkerSound, Found, Exists, Grows, Ahead, Uncompleted
<1>3. ASSUME NEW s \in Gates PROVE AheadOf(e, s)'
  <2>1. AheadOf(e, s) /\ s \in Stages
    BY DEF Ahead, Gates
  <2>2. Gated(s) => Gated(s)'
    BY <2>1 DEF GatedStay
  <2>3. \A r \in todo[e] : RowStage(r)' = RowStage(r)
    BY <1>1 DEF RowStage
  <2>4. cur[e] # 0 => CurStage(e)' = CurStage(e)
    BY <1>2 DEF CurStage
  <2> QED BY <2>1, <2>2, <2>3, <2>4 DEF AheadOf
<1>4. Gates' = Gates
  BY DEF Gates
<1> QED BY <1>1, <1>2, <1>3, <1>4 DEF Ahead

LEMMA OthersGuarded ==
  ASSUME Sound, Grows, GatedStay, NEW e \in Workers, WorkerGuarded(e), Keeps(e),
         Uncompleted \/ pc[e] \in Leaving
  PROVE  WorkerGuarded(e)'
<1>1. pc[e] \in Visiting \ Leaving => Ahead(e)'
  BY AheadStays DEF WorkerGuarded, Keeps
<1>2. prev[e] # 0 => RowStage(prev[e])' = RowStage(prev[e])
  <2>1. prev[e] # 0 => /\ prev[e] \in Rows /\ stepOrder'[prev[e]] = stepOrder[prev[e]]
    BY DEF Sound, TypeOK, ExecTypeOK, ViewsSound, WorkerSound, Found, Exists, Grows
  <2> QED BY <2>1 DEF RowStage, Keeps
<1>3. stage[e] \in Stages /\ Gated(stage[e]) => Gated(stage[e])'
  BY DEF GatedStay, Keeps, Gated
<1>4. (Visiting \ Leaving)' = Visiting \ Leaving /\ Gates' = Gates
  BY DEF Visiting, Leaving, Gates, InStep
<1> QED BY <1>1, <1>2, <1>3, <1>4 DEF WorkerGuarded, Keeps, Gates

(* The guard of a gate outlives what completes no row and decides nothing.  *)
LEMMA GuardedStays ==
  ASSUME Sound, GatedStay, Steady, Uncompleted, NEW s \in Stages, Guarded(s),
         \A c \in Clients : op[c] = "reject_step" /\ RowStage(arg[c]) = s =>
                            (op'[c] = op[c] /\ arg'[c] = arg[c]) \/ Open(s)'
  PROVE  Guarded(s)'
<1>1. \A r : RowStage(r)' = RowStage(r)
  BY DEF RowStage, Steady
<1>2. Gated(s) => Gated(s)'
  BY DEF GatedStay
<1>3. Open(s) => Open(s)'
  BY <1>1 DEF Open, Uncompleted, Exists, Steady
<1>4. \A q \in Reqs : Pending(q) => hitl'[q] = hitl[q]
  BY DEF Pending, Steady
<1>5. (\E q \in Reqs : Pending(q) /\ RowStage(hitl[q].row) = s) => Guarded(s)'
  BY <1>1, <1>4 DEF Guarded, Pending
<1>6. (\E c \in Clients : op[c] = "reject_step" /\ RowStage(arg[c]) = s) => Guarded(s)'
  BY <1>1 DEF Guarded
<1> QED BY <1>2, <1>3, <1>5, <1>6 DEF Guarded

(* A gate a worker has before it is guarded by an open row, unless it is    *)
(* the stage the worker is about to leave.                                  *)
LEMMA OpenAhead ==
  ASSUME Sound, NEW e \in Workers, Ahead(e), NEW s \in Gates
  PROVE  Gated(s) \/ stage[e] = s \/ Open(s)
<1>1. \A r \in todo[e] : r \in Rows /\ Exists(r) /\ stepStatus[r] # "completed"
  BY DEF Sound, TypeOK, ExecTypeOK, ViewsSound, WorkerSound, Ahead
<1>2. cur[e] # 0 => cur[e] \in Rows /\ Exists(cur[e]) /\ stepStatus[cur[e]] # "completed"
  BY DEF Sound, TypeOK, ExecTypeOK, ViewsSound, WorkerSound, Found, Ahead
<1> QED BY <1>1, <1>2 DEF Ahead, AheadOf, Open, CurStage, RowStage

(* What a worker that steps owes the gates.                                 *)
WorkerGate(e) ==
    /\ WorkerGuarded(e)'
    /\ pc[e] \in Leaving \cup {"load"} => Uncompleted
    /\ pc'[e] = "load" => pc[e] \in Leaving \cup {"load"}
    /\ pc[e] \notin Leaving /\ pc'[e] \in Leaving /\ Turns' # {} =>
         \A s \in Gates : Guarded(s)'

(* A worker that gives up its turn without handing it on.                   *)
LEMMA LastTurn ==
  ASSUME OneTurn, NEW e \in Workers, pc[e] \notin Leaving, pc'[e] \in Leaving,
         StoreLess, Others(e), UNCHANGED <<stepOrder, sessionVars>>
  PROVE  Turns' = {}
<1>1. /\ \A f \in Workers : f # e => pc[f] \in Leaving
      /\ Queued = {} /\ Asked = {} /\ Called = {} /\ Parked = {} /\ Unretried = {}
  BY Alone
<1>2. Working' = {}
  BY <1>1 DEF Working, Others, Leaving
<1>3. Called' = {} /\ Unretried' = {}
  BY <1>1 DEF Called, Unretried, StoreLess, sessionVars
<1> QED BY <1>1, <1>2, <1>3 DEF Turns, StoreLess

LEMMA ReturnGate ==
  ASSUME Sound, OneTurn, NEW e \in Workers, Return(e), StoreLess,
         UNCHANGED <<stepOrder, sessionVars>>, pc[e] \in Leaving \cup {"load"} => Uncompleted
  PROVE  WorkerGate(e)
<1>1. pc'[e] = "idle" /\ stage'[e] = 0 /\ Others(e)
  BY DEF Sound, TypeOK, ExecTypeOK, Return, Others
<1>2. WorkerGuarded(e)'
  BY <1>1, HasTurn DEF WorkerGuarded, Visiting, InStep
<1>3. pc[e] \notin Leaving => Turns' = {}
  BY <1>1, HasTurn, LastTurn
<1> QED BY <1>1, <1>2, <1>3 DEF WorkerGate

(* Going on to a phase that asks nothing the last one did not.              *)
LEMMA GotoGuarded ==
  ASSUME Sound, Grows, GatedStay, NEW e \in Workers, WorkerGuarded(e),
         NEW p, Goto(e, p), Uncompleted \/ p \notin Visiting \ Leaving,
         p \in {"idle", "load", "start", "story_running"} => stage[e] = 0,
         p \in Visiting \ Leaving => Ahead(e),
         p \in {"loop", "exit", "gate_create"} /\ stage[e] # 0 =>
           prev[e] # 0 /\ RowStage(prev[e]) = stage[e],
         p = "enter" => stage[e] \notin Gates \/ Gated(stage[e])
  PROVE  WorkerGuarded(e)' /\ pc'[e] = p /\ Others(e)
<1>1. /\ pc'[e] = p /\ todo'[e] = todo[e] /\ cur'[e] = cur[e] /\ stage'[e] = stage[e]
      /\ prev'[e] = prev[e] /\ Others(e)
  BY DEF Sound, TypeOK, ExecTypeOK, Goto, Others
<1>2. p \in Visiting \ Leaving => Ahead(e)'
  BY <1>1, AheadStays
<1>3. prev[e] # 0 => RowStage(prev[e])' = RowStage(prev[e])
  <2>1. prev[e] # 0 => /\ prev[e] \in Rows /\ stepOrder'[prev[e]] = stepOrder[prev[e]]
    BY DEF Sound, TypeOK, ExecTypeOK, ViewsSound, WorkerSound, Found, Exists, Grows
  <2> QED BY <1>1, <2>1 DEF RowStage
<1>4. stage[e] \in Stages /\ Gated(stage[e]) => Gated(stage[e])'
  BY <1>1 DEF GatedStay, Gated
<1>5. (Visiting \ Leaving)' = Visiting \ Leaving /\ Gates' = Gates
  BY DEF Visiting, Leaving, Gates, InStep
<1> QED BY <1>1, <1>2, <1>3, <1>4, <1>5 DEF WorkerGuarded, Gates

(* The phases before which the gates are still ahead.                       *)
LEMMA VisitPhases ==
  /\ \A p \in {"start", "story_running", "loop", "exit", "gate_create", "enter", "step", "act",
               "act_wait", "act_pause", "persist", "refetch", "complete", "fail_step"} :
       p \in Visiting \ Leaving
  /\ \A p \in {"idle", "load", "gate_step", "gate_run", "park_run", "park_story", "clear",
               "finish", "story_done", "cancel_step", "cancel_run", "story_backlog"} :
       p \notin Visiting
  /\ \A p \in {"fail_run", "story_failed"} : p \in Visiting /\ (p \in Leaving <=> "retry" \in Ops)
BY DEF Visiting, Leaving, InStep

LEMMA GotoGate ==
  ASSUME Sound, OneTurn, Grows, GatedStay, NEW e \in Workers, WorkerGuarded(e),
         NEW p, Goto(e, p), Uncompleted, UNCHANGED sessionVars,
         p \in {"idle", "load", "start", "story_running"} => stage[e] = 0,
         p \in Visiting \ Leaving => Ahead(e),
         p \in {"loop", "exit", "gate_create"} /\ stage[e] # 0 =>
           prev[e] # 0 /\ RowStage(prev[e]) = stage[e],
         p = "enter" => stage[e] \notin Gates \/ Gated(stage[e]),
         p = "load" => pc[e] \in Leaving \cup {"load"},
         p \in Leaving /\ pc[e] \notin Leaving => StoreLess /\ UNCHANGED stepOrder
  PROVE  WorkerGate(e)
<1>1. WorkerGuarded(e)' /\ pc'[e] = p /\ Others(e)
  BY GotoGuarded
<1>2. pc[e] \notin Leaving /\ pc'[e] \in Leaving => Turns' = {}
  BY <1>1, LastTurn
<1> QED BY <1>1, <1>2 DEF WorkerGate

LEMMA TakingGate ==
  ASSUME Sound, InTurn, GatesKept, Grows, GatedStay, NEW e \in Workers, UNCHANGED sessionVars,
         Take(e) \/ RefuseByBreaker(e) \/ Load(e) \/ Start(e) \/ StoryRunning(e) \/ HardError(e)
  PROVE  WorkerGate(e)
<1>t. /\ StoreTypeOK /\ ExecTypeOK /\ OneTurn /\ WorkerGuarded(e) /\ WorkerSound(e)
      /\ PhaseSound(e, pc[e])
  BY DEF Sound, TypeOK, ViewsSound, WorkerSound, InTurn, GatesKept
<1>1. CASE Take(e)
  <2>1. Uncompleted /\ StoreLess /\ UNCHANGED stepOrder /\ pc[e] = "idle" /\ stage[e] = 0
    BY <1>1, <1>t, UncompletedWrites, StoreLessens DEF Take, TakeJob, WorkerGuarded
  <2>2. \A p \in {"idle", "load"} : Goto(e, p) => WorkerGate(e)
    BY <1>t, <2>1, GotoGate, VisitPhases, HasTurn
  <2> QED BY <1>1, <2>2 DEF Take
<1>2. CASE RefuseByBreaker(e) \/ HardError(e)
  <2>1. StoreLess /\ UNCHANGED stepOrder /\ Uncompleted
    BY <1>2, <1>t, QuietWrites, UncompletedWrites DEF RefuseByBreaker, HardError
  <2> QED BY <1>2, <1>t, <2>1, ReturnGate DEF RefuseByBreaker, HardError
<1>3. CASE Load(e)
  <2>1. /\ Uncompleted /\ UNCHANGED <<stepOrder, stepStatus, hitl>> /\ pc[e] = "load"
        /\ stage[e] = 0 /\ cur[e] = 0
    BY <1>3, <1>t, UncompletedWrites DEF Load, NoWrite, storeVars, WorkerGuarded, PhaseSound
  <2>2. /\ pc'[e] = "start" /\ stage'[e] = 0 /\ cur'[e] = 0
        /\ todo'[e] = {r \in Rows : Exists(r) /\ stepStatus[r] # "completed"}
    BY <1>3, <1>t, <2>1 DEF Load, ExecTypeOK
  <2>3. /\ Turns # {} /\ Asked = {} /\ Called = {}
        /\ \A f \in Workers : f # e => pc[f] \in Leaving
    BY <1>t, <2>1, HasTurn, Alone, ItsTurn
  <2>4. \A s \in Gates : Guarded(s)
    BY <2>1, <2>3 DEF GatesKept, Working
  <2>5. ASSUME NEW s \in Gates PROVE AheadOf(e, s)'
    <3>1. Gated(s) \/ Open(s)
      BY <2>3, <2>4 DEF Guarded, Asked, Called, Going
    <3>2. Gated(s) => Gated(s)'
      BY DEF GatedStay, Gates
    <3>3. Open(s) => \E r \in todo'[e] : RowStage(r)' = s
      BY <2>1, <2>2 DEF Open, RowStage
    <3> QED BY <3>1, <3>2, <3>3 DEF AheadOf
  <2>6. Gates' = Gates
    BY DEF Gates
  <2>7. Ahead(e)'
    BY <2>1, <2>2, <2>5, <2>6 DEF Ahead
  <2>8. WorkerGuarded(e)'
    BY <2>2, <2>7 DEF WorkerGuarded
  <2> QED BY <2>1, <2>2, <2>8, HasTurn DEF WorkerGate
<1>4. CASE Start(e)
  <2>1. pc[e] = "start" /\ stage[e] = 0 /\ Ahead(e)
    BY <1>4, <1>t, VisitPhases DEF Start, WorkerGuarded
  <2>2. Uncompleted
    BY <1>4, <1>t, UncompletedWrites DEF Start
  <2>3. /\ pc'[e] = "story_running" /\ todo'[e] = todo[e] /\ cur'[e] = cur[e]
        /\ stage'[e] = stage[e]
    BY <1>4, <1>t DEF Start, ExecTypeOK
  <2>4. Ahead(e)'
    BY <2>1, <2>2, <2>3, AheadStays
  <2>5. WorkerGuarded(e)'
    BY <2>1, <2>3, <2>4 DEF WorkerGuarded
  <2> QED BY <2>1, <2>2, <2>3, <2>5, HasTurn DEF WorkerGate
<1>5. CASE StoryRunning(e)
  <2>1. pc[e] = "story_running" /\ stage[e] = 0 /\ Ahead(e)
    BY <1>5, <1>t, VisitPhases DEF StoryRunning, WorkerGuarded
  <2>2. Uncompleted
    BY <1>5, <1>t, UncompletedWrites DEF StoryRunning, Try
  <2> QED BY <1>5, <1>t, <2>1, <2>2, GotoGate, HasTurn DEF StoryRunning
<1> QED BY <1>1, <1>2, <1>3, <1>4, <1>5

LEMMA PollingGate ==
  ASSUME Sound, InTurn, GatesKept, Grows, GatedStay, NEW e \in Workers, UNCHANGED sessionVars,
         PollPaused(e) \/ PollNext(e) \/ PollExpired(e) \/ PollEnd(e)
  PROVE  WorkerGate(e)
<1>t. /\ StoreTypeOK /\ ExecTypeOK /\ OneTurn /\ WorkerGuarded(e) /\ WorkerSound(e)
      /\ PhaseSound(e, pc[e])
  BY DEF Sound, TypeOK, ViewsSound, WorkerSound, InTurn, GatesKept
<1>1. /\ pc[e] = "loop" /\ StoreLess /\ UNCHANGED <<stepOrder, stepStatus>> /\ Uncompleted
  BY <1>t, QuietWrites, UncompletedWrites
     DEF PollPaused, PollNext, PollExpired, PollEnd, Fault, NoWrite, storeVars
<1>2. /\ Ahead(e) /\ cur[e] = 0
      /\ stage[e] # 0 => prev[e] # 0 /\ RowStage(prev[e]) = stage[e]
  BY <1>t, <1>1, VisitPhases DEF WorkerGuarded, PhaseSound
<1>3. CASE PollPaused(e)
  BY <1>1, <1>3, <1>t, ReturnGate DEF PollPaused
<1>4. CASE PollEnd(e)
  BY <1>1, <1>2, <1>4, <1>t, GotoGate, HasTurn DEF PollEnd
<1>5. ASSUME NEW r \in Front(todo[e]), NEW p \in {"step", "exit", "cancel_step"}, Visit(e, r, p)
      PROVE  WorkerGate(e)
  <2>1. /\ pc'[e] = p /\ cur'[e] = r /\ todo'[e] = todo[e] \ {r} /\ stage'[e] = stage[e]
        /\ prev'[e] = prev[e]
    BY <1>5, <1>t DEF Visit, ExecTypeOK
  <2>2. /\ r \in todo[e] /\ r \in Rows /\ Exists(r) /\ \A x \in todo[e] : stepOrder[r] <= stepOrder[x]
    BY <1>5, <1>t DEF Front, ExecTypeOK, WorkerSound
  <2>3. \A x \in Rows : RowStage(x)' = RowStage(x)
    BY <1>1 DEF RowStage
  <2>4. ASSUME NEW s \in Gates PROVE AheadOf(e, s)'
    <3>1. AheadOf(e, s) /\ (Gated(s) => Gated(s)')
      BY <1>2 DEF Ahead, GatedStay, Gates
    <3>2. RowStage(r) = s => cur'[e] # 0 /\ CurStage(e)' = s
      BY <1>1, <2>1, <2>2, StepsAssumption DEF CurStage, RowStage, Rows
    <3>3. \A x \in todo[e] : x \in Rows
      BY <1>t DEF ExecTypeOK
    <3> QED BY <1>2, <2>1, <2>3, <3>1, <3>2, <3>3 DEF AheadOf
  <2>5. Ahead(e)'
    <3>1. Gates' = Gates
      BY DEF Gates
    <3> QED BY <1>1, <1>2, <2>1, <2>2, <2>4, <3>1 DEF Ahead
  <2>6. stage'[e] # 0 => prev'[e] # 0 /\ RowStage(prev[e])' = stage'[e]
    BY <1>1, <1>2, <2>1 DEF RowStage
  <2>7. WorkerGuarded(e)'
    BY <2>1, <2>5, <2>6 DEF WorkerGuarded
  <2> QED BY <1>1, <2>1, <2>7, HasTurn DEF WorkerGate
<1> QED BY <1>3, <1>4, <1>5 DEF PollPaused, PollNext, PollExpired, PollEnd

LEMMA GatingGate ==
  ASSUME Sound, InTurn, GatesKept, Grows, GatedStay, NEW e \in Workers, UNCHANGED sessionVars,
         \/ GatePass(e) \/ GateHeld(e) \/ GateMissing(e)
         \/ GateCreate(e) \/ GateAnchor(e) \/ GateRun(e)
  PROVE  WorkerGate(e)
<1>t. /\ StoreTypeOK /\ ExecTypeOK /\ OneTurn /\ WorkerGuarded(e) /\ WorkerSound(e)
      /\ PhaseSound(e, pc[e])
  BY DEF Sound, TypeOK, ViewsSound, WorkerSound, InTurn, GatesKept
<1>1. CASE GatePass(e) \/ GateHeld(e) \/ GateMissing(e)
  <2>1. /\ pc[e] = "exit" /\ StoreLess /\ UNCHANGED stepOrder /\ Uncompleted
    BY <1>1, <1>t, QuietWrites, UncompletedWrites DEF GatePass, GateHeld, GateMissing
  <2>2. /\ Ahead(e)
        /\ stage[e] # 0 => prev[e] # 0 /\ RowStage(prev[e]) = stage[e]
    BY <1>t, <2>1, VisitPhases DEF WorkerGuarded
  <2>3. CASE GateHeld(e)
    BY <1>t, <2>1, <2>3, ReturnGate DEF GateHeld
  <2>4. CASE GateMissing(e)
    BY <1>t, <2>1, <2>2, <2>4, GotoGate, HasTurn DEF GateMissing
  <2>5. CASE GatePass(e)
    <3>1. stage[e] \notin Gates \/ Gated(stage[e])
      <4>1. CASE ~NeedsGate(e)
        BY <2>2, <4>1, StagesAssumption DEF NeedsGate, Gates, Stages
      <4>2. CASE NeedsGate(e) /\ \E q \in RequestsOf(prev[e]) : hitl[q].status = "approved"
        BY <2>2, <4>2 DEF NeedsGate, RequestsOf, Gated
      <4> QED BY <2>5, <4>1, <4>2 DEF GatePass
    <3>2. \A p \in {"enter", "clear", "finish"} : Goto(e, p) => WorkerGate(e)
      BY <1>t, <2>1, <2>2, <3>1, GotoGate, HasTurn, VisitPhases
    <3> QED BY <2>5, <3>2 DEF GatePass, AfterGate
  <2> QED BY <1>1, <2>3, <2>4, <2>5
<1>2. CASE GateAnchor(e) \/ GateRun(e)
  <2>1. StoreLess /\ UNCHANGED stepOrder /\ Uncompleted
    BY <1>2, <1>t, QuietWrites, UncompletedWrites DEF GateAnchor, GateRun
  <2> QED BY <1>2, <1>t, <2>1, GotoGate, ReturnGate, HasTurn, VisitPhases DEF GateAnchor, GateRun
<1>3. CASE GateCreate(e)
  <2>1. /\ pc[e] = "gate_create" /\ Goto(e, "gate_step") /\ CreateHITLRequest(prev[e], "approval")
    BY <1>3 DEF GateCreate
  <2>2. /\ Ahead(e)
        /\ stage[e] # 0 => prev[e] # 0 /\ RowStage(prev[e]) = stage[e]
    BY <1>t, <2>1, VisitPhases DEF WorkerGuarded
  <2>3. WorkerGuarded(e)' /\ pc'[e] = "gate_step"
    BY <1>t, <2>1, VisitPhases, GotoGuarded
  <2>4. UNCHANGED <<stepOrder, stepStatus>>
    BY <2>1 DEF CreateHITLRequest
  <2>5. PICK q \in Reqs : hitl'[q].status = "pending" /\ hitl'[q].row = prev[e]
    BY <1>t, <2>1 DEF CreateHITLRequest, StoreTypeOK
  <2>6. ASSUME NEW s \in Gates PROVE Guarded(s)'
    <3>1. Gated(s) \/ stage[e] = s \/ Open(s)
      BY <2>2, OpenAhead
    <3>2. Gated(s) => Gated(s)'
      BY DEF GatedStay, Gates
    <3>3. Open(s) => Open(s)'
      BY <2>4 DEF Open, Exists, RowStage
    <3>4. stage[e] = s => RowStage(hitl[q].row)' = s /\ Pending(q)'
      <4>1. s # 0
        BY StagesAssumption DEF Gates, Stages
      <4> QED BY <2>2, <2>4, <2>5, <4>1 DEF RowStage, Pending
    <3> QED BY <3>1, <3>2, <3>3, <3>4 DEF Guarded
  <2>7. Gates' = Gates
    BY DEF Gates
  <2> QED BY <2>1, <2>3, <2>6, <2>7, HasTurn DEF WorkerGate
<1> QED BY <1>1, <1>2, <1>3

LEMMA EnteringGate ==
  ASSUME Sound, InTurn, GatesKept, Grows, GatedStay, NEW e \in Workers, UNCHANGED sessionVars,
         Enter(e) \/ ParkMeta(e) \/ ParkRun(e) \/ ParkStory(e)
  PROVE  WorkerGate(e)
<1>t. /\ StoreTypeOK /\ ExecTypeOK /\ OneTurn /\ WorkerGuarded(e) /\ WorkerSound(e)
      /\ PhaseSound(e, pc[e])
  BY DEF Sound, TypeOK, ViewsSound, WorkerSound, InTurn, GatesKept
<1>1. CASE ParkRun(e) \/ ParkStory(e)
  <2>1. StoreLess /\ UNCHANGED stepOrder /\ Uncompleted
    BY <1>1, <1>t, QuietWrites, UncompletedWrites DEF ParkRun, ParkStory, Try
  <2> QED BY <1>1, <1>t, <2>1, GotoGate, ReturnGate, HasTurn, VisitPhases DEF ParkRun, ParkStory
<1>2. CASE Enter(e) \/ ParkMeta(e)
  <2>1. pc[e] = "enter" /\ Uncompleted /\ UNCHANGED <<stepOrder, stepStatus>>
    BY <1>2, <1>t, UncompletedWrites DEF Enter, ParkMeta, Try, UpdateStoryCurrentStage,
       UpdateRunMetadata, Fails, Fault, NoWrite, storeVars
  <2>2. Ahead(e) /\ (stage[e] \notin Gates \/ Gated(stage[e]))
    BY <1>t, <2>1, VisitPhases DEF WorkerGuarded
  <2>3. CASE Enter(e)
    <3>1. /\ pc'[e] = "step" /\ stage'[e] = CurStage(e) /\ todo'[e] = todo[e] /\ cur'[e] = cur[e]
      BY <2>3, <1>t DEF Enter, ExecTypeOK
    <3>2. ASSUME NEW s \in Gates PROVE AheadOf(e, s)'
      <4>1. AheadOf(e, s) /\ (Gated(s) => Gated(s)')
        BY <2>2 DEF Ahead, GatedStay, Gates
      <4>2. CurStage(e)' = CurStage(e) /\ \A r : RowStage(r)' = RowStage(r)
        BY <2>1, <3>1 DEF CurStage, RowStage
      <4> QED BY <2>2, <3>1, <4>1, <4>2 DEF AheadOf
    <3>3. Ahead(e)'
      <4>1. Gates' = Gates
        BY DEF Gates
      <4> QED BY <2>1, <2>2, <3>1, <3>2, <4>1 DEF Ahead
    <3>4. WorkerGuarded(e)'
      BY <3>1, <3>3 DEF WorkerGuarded
    <3> QED BY <2>1, <3>1, <3>4, HasTurn DEF WorkerGate
  <2>4. CASE ParkMeta(e)
    <3>1. WorkerGuarded(e)' /\ pc'[e] = "park_run"
      BY <2>4, <1>t, VisitPhases, GotoGuarded DEF ParkMeta
    <3>2. ASSUME NEW s \in Gates PROVE Guarded(s)'
      <4>1. Gated(s) \/ Open(s)
        BY <2>2, OpenAhead
      <4>2. Gated(s) => Gated(s)'
        BY DEF GatedStay, Gates
      <4>3. Open(s) => Open(s)'
        BY <2>1 DEF Open, Exists, RowStage
      <4> QED BY <4>1, <4>2, <4>3 DEF Guarded
    <3>3. Gates' = Gates
      BY DEF Gates
    <3> QED BY <2>1, <3>1, <3>2, <3>3, HasTurn DEF WorkerGate
  <2> QED BY <1>2, <2>3, <2>4
<1> QED BY <1>1, <1>2

LEMMA SteppingGate ==
  ASSUME Sound, InTurn, GatesKept, Grows, GatedStay, NEW e \in Workers, UNCHANGED sessionVars,
         GateSteps = {},
         \/ StartStep(e) \/ ActSucceeds(e) \/ ActFails(e) \/ ActRequest(e) \/ ActWait(e)
         \/ ActPause(e) \/ PersistMetadata(e) \/ RefetchSuspended(e) \/ Refetch(e)
         \/ CompleteFails(e)
  PROVE  WorkerGate(e)
<1>t. /\ StoreTypeOK /\ ExecTypeOK /\ OneTurn /\ WorkerGuarded(e)
  BY DEF Sound, TypeOK, InTurn, GatesKept
<1>1. ~ActRequest(e)
  BY DEF ActRequest, IsGateStep
<1>2. Uncompleted
  BY <1>1, <1>t, UncompletedWrites DEF StartStep, ActSucceeds, ActFails, ActWait, ActPause,
     PersistMetadata, RefetchSuspended, Refetch, CompleteFails, Try
<1>3. pc[e] \in {"step", "act", "act_wait", "act_pause", "persist", "refetch", "complete"}
  BY <1>1 DEF StartStep, ActSucceeds, ActFails, ActWait, ActPause,
     PersistMetadata, RefetchSuspended, Refetch, CompleteFails
<1>4. Ahead(e) /\ pc[e] \notin Leaving
  BY <1>t, <1>3, VisitPhases DEF WorkerGuarded
<1>5. CASE RefetchSuspended(e)
  <2>1. StoreLess /\ UNCHANGED stepOrder
    BY <1>5, <1>t, QuietWrites DEF RefetchSuspended
  <2> QED BY <1>5, <1>t, <1>2, <2>1, ReturnGate DEF RefetchSuspended
<1>6. CASE ~RefetchSuspended(e)
  <2>1. \E p \in {"act", "act_pause", "persist", "refetch", "complete", "fail_step"} : Goto(e, p)
    BY <1>1, <1>6 DEF StartStep, ActSucceeds, ActFails, ActWait, ActPause,
       PersistMetadata, Refetch, CompleteFails
  <2> QED BY <1>t, <1>2, <1>4, <2>1, GotoGate, VisitPhases
<1> QED BY <1>5, <1>6

LEMMA CompletingGate ==
  ASSUME Sound, InTurn, GatesKept, Grows, GatedStay, NEW e \in Workers, CompleteStep(e)
  PROVE  WorkerGate(e)
<1>t. /\ StoreTypeOK /\ ExecTypeOK /\ WorkerGuarded(e) /\ WorkerSound(e) /\ PhaseSound(e, pc[e])
  BY DEF Sound, TypeOK, ViewsSound, WorkerSound, InTurn, GatesKept
<1>1. /\ pc[e] = "complete" /\ pc'[e] = "loop" /\ todo'[e] = todo[e] /\ cur'[e] = 0
      /\ prev'[e] = cur[e] /\ stage'[e] = stage[e]
  BY <1>t DEF CompleteStep, ExecTypeOK
<1>2. /\ Ahead(e) /\ cur[e] # 0 /\ cur[e] \in Rows /\ CurStage(e) = stage[e]
  BY <1>t, <1>1, VisitPhases DEF WorkerGuarded, PhaseSound, InStep, ExecTypeOK
<1>3. /\ \A r \in Rows : r # cur[e] => stepStatus'[r] = stepStatus[r]
      /\ UNCHANGED <<stepOrder, hitl>>
  BY <1>t DEF CompleteStep, UpdateRunStepStatus, StoreTypeOK
<1>4. \A r : RowStage(r)' = RowStage(r)
  BY <1>3 DEF RowStage
<1>5. ASSUME NEW s \in Gates PROVE AheadOf(e, s)'
  <2>1. AheadOf(e, s) /\ (Gated(s) => Gated(s)')
    BY <1>2 DEF Ahead, GatedStay, Gates
  <2> QED BY <1>1, <1>2, <1>4, <2>1 DEF AheadOf
<1>6. todo[e] \subseteq Rows /\ Gates' = Gates
  BY <1>t DEF ExecTypeOK, Gates
<1>7. Ahead(e)'
  BY <1>1, <1>2, <1>3, <1>5, <1>6 DEF Ahead
<1>8. RowStage(prev[e])' = stage[e]
  BY <1>1, <1>2, <1>3 DEF RowStage, CurStage
<1>9. WorkerGuarded(e)'
  BY <1>1, <1>2, <1>7, <1>8 DEF WorkerGuarded
<1> QED BY <1>1, <1>9, HasTurn DEF WorkerGate

LEMMA FailingGate ==
  ASSUME Sound, InTurn, GatesKept, Grows, GatedStay, NEW e \in Workers, UNCHANGED sessionVars,
         HandleFailureStep(e) \/ HandleFailureRun(e) \/ StoryFailed(e)
  PROVE  WorkerGate(e)
<1>t. /\ StoreTypeOK /\ ExecTypeOK /\ OneTurn /\ WorkerGuarded(e) /\ PhaseSound(e, pc[e])
  BY DEF Sound, TypeOK, ViewsSound, WorkerSound, InTurn, GatesKept
<1>1. Uncompleted
  BY <1>t, UncompletedWrites DEF HandleFailureStep, HandleFailureRun, StoryFailed, Try
<1>2. CASE HandleFailureStep(e)
  <2>1. pc[e] = "fail_step" /\ Goto(e, "fail_run") /\ UNCHANGED stepOrder
    BY <1>2 DEF HandleFailureStep, Try, UpdateRunStepStatus, Fails, Fault, NoWrite, storeVars
  <2>2. Ahead(e) /\ cur[e] # 0 /\ CurStage(e) = stage[e]
    BY <1>t, <2>1, VisitPhases DEF WorkerGuarded, PhaseSound, InStep
  <2>3. WorkerGuarded(e)' /\ pc'[e] = "fail_run"
    BY <1>t, <1>1, <2>1, <2>2, GotoGuarded
  <2>4. ASSUME NEW s \in Gates PROVE Guarded(s)'
    <3>1. Gated(s) \/ Open(s)
      <4>1. cur[e] \in Rows /\ Exists(cur[e]) /\ stepStatus[cur[e]] # "completed"
        BY <2>2 DEF Sound, TypeOK, ExecTypeOK, ViewsSound, WorkerSound, Found, Ahead
      <4>2. stage[e] = s => Open(s)
        BY <2>2, <4>1 DEF Open, CurStage, RowStage
      <4> QED BY <2>2, <4>2, OpenAhead
    <3>2. Gated(s) => Gated(s)'
      BY DEF GatedStay, Gates
    <3>3. Open(s) => Open(s)'
      BY <1>1, <2>1 DEF Open, Exists, RowStage, Uncompleted
    <3> QED BY <3>1, <3>2, <3>3 DEF Guarded
  <2>5. Gates' = Gates
    BY DEF Gates
  <2> QED BY <2>1, <2>3, <2>4, <2>5, <1>1, HasTurn DEF WorkerGate
<1>3. CASE HandleFailureRun(e) \/ StoryFailed(e)
  <2>1. StoreLess /\ UNCHANGED stepOrder
    BY <1>3, <1>t, QuietWrites DEF HandleFailureRun, StoryFailed, Try
  <2>2. CASE HandleFailureRun(e)
    <3>1. pc[e] = "fail_run" /\ Goto(e, "story_failed")
      BY <2>2 DEF HandleFailureRun
    <3>2. "story_failed" \in Visiting \ Leaving => Ahead(e)
      BY <1>t, <3>1, VisitPhases DEF WorkerGuarded
    <3> QED BY <1>t, <1>1, <2>1, <3>1, <3>2, GotoGate
  <2>3. CASE StoryFailed(e)
    BY <1>t, <1>1, <2>1, <2>3, ReturnGate DEF StoryFailed
  <2> QED BY <1>3, <2>2, <2>3
<1> QED BY <1>2, <1>3

LEMMA EndingGate ==
  ASSUME Sound, InTurn, GatesKept, Grows, GatedStay, NEW e \in Workers, UNCHANGED sessionVars,
         \/ HandleCancellationStep(e) \/ HandleCancellationRun(e) \/ StoryBacklog(e)
         \/ ClearStage(e) \/ Finish(e) \/ StoryDone(e) \/ Expire(e)
  PROVE  WorkerGate(e)
<1>t. /\ StoreTypeOK /\ ExecTypeOK /\ OneTurn /\ WorkerGuarded(e)
  BY DEF Sound, TypeOK, InTurn, GatesKept
<1>1. Uncompleted /\ StoreLess /\ UNCHANGED stepOrder
  BY <1>t, UncompletedWrites, QuietWrites DEF HandleCancellationStep, HandleCancellationRun, StoryBacklog,
     ClearStage, Finish, StoryDone, Expire, Try, BestEffort
<1>2. CASE StoryBacklog(e) \/ StoryDone(e)
  BY <1>t, <1>1, <1>2, ReturnGate DEF StoryBacklog, StoryDone
<1>3. CASE HandleCancellationStep(e) \/ HandleCancellationRun(e) \/ ClearStage(e) \/ Finish(e)
  <2>1. \E p \in {"cancel_run", "story_backlog", "finish", "story_done"} : Goto(e, p)
    BY <1>3 DEF HandleCancellationStep, HandleCancellationRun, ClearStage, Finish
  <2> QED BY <1>t, <1>1, <2>1, GotoGate, VisitPhases
<1>4. CASE Expire(e)
  <2>1. UNCHANGED pc /\ Keeps(e)
    BY <1>4 DEF Expire, Keeps
  <2>2. WorkerGuarded(e)'
    BY <1>t, <1>1, <2>1, OthersGuarded
  <2> QED BY <1>1, <2>1, <2>2 DEF WorkerGate, Leaving
<1> QED BY <1>2, <1>3, <1>4

LEMMA ExecutorGate ==
  ASSUME Sound, InTurn, GatesKept, Grows, GatedStay, NEW e \in Workers, UNCHANGED sessionVars,
         GateSteps = {}, ExecuteRun(e) \/ Expire(e)
  PROVE  WorkerGate(e)
BY TakingGate, PollingGate, GatingGate, EnteringGate, SteppingGate, CompletingGate, FailingGate,
   EndingGate DEF ExecuteRun

(* The steps of the workers keep the gates guarded.                         *)
LEMMA WorkersKeepGates ==
  ASSUME Sound, Orderly, InTurn, GatesKept, ExecutorNext
  PROVE  GatesKept'
<1>1. PICK e \in Workers : (ExecuteRun(e) \/ Expire(e)) /\ UNCHANGED sessionVars
  BY DEF ExecutorNext
<1>t. StoreTypeOK /\ ExecTypeOK /\ OneTurn
  BY DEF Sound, TypeOK, InTurn
<1>2. Grows /\ GatedStay
  BY GatedStays DEF Next
<1>3. WorkerGate(e)
  BY <1>1, <1>2, ExecutorGate DEF Orderly
<1>4. Steady
  BY <1>1, <1>t, WorkersAreSteady
<1>5. \A f \in Workers : f # e => Keeps(f)
  BY <1>1, WorkerProgress DEF Progress, WorkerMoves
<1>6. \A f \in Workers : WorkerGuarded(f)'
  <2>1. ASSUME NEW f \in Workers, f # e
        PROVE  Uncompleted \/ pc[f] \in Leaving
    BY <1>3, <1>t, <2>1, Alone DEF WorkerGate
  <2> QED BY <1>2, <1>3, <1>5, <2>1, OthersGuarded DEF WorkerGate, GatesKept
<1>7. ASSUME NEW c \in Clients, op'[c] = "complete_step"
      PROVE  Gated(RowStage(arg[c]))'
  <2>1. op[c] = "complete_step" /\ arg'[c] = arg[c]
    BY <1>1, <1>7 DEF sessionVars
  <2>2. RowStage(arg[c])' = RowStage(arg[c])
    BY <1>4, <2>1 DEF RowStage, Steady
  <2>3. Gated(RowStage(arg[c]))
    BY <2>1 DEF GatesKept
  <2> QED BY <1>4, <2>2, <2>3 DEF Gated, Steady, RowStage
<1>8. ASSUME Turns' # {}, \A f \in Working' : pc'[f] = "load", NEW s \in Gates
      PROVE  Guarded(s)'
  <2>1. CASE pc[e] \notin Leaving \cup {"load"}
    <3>1. pc'[e] \in Leaving
      BY <1>3, <1>8, <2>1 DEF WorkerGate, Working, Leaving
    <3> QED BY <1>3, <1>8, <2>1, <3>1 DEF WorkerGate, Gates
  <2>2. CASE pc[e] \in Leaving \cup {"load"}
    <3>1. Turns # {} /\ Uncompleted
      BY <1>3, <1>8, <2>2, WorkersKeepTurn DEF WorkerGate
    <3>2. \A f \in Working : pc[f] = "load"
      BY <1>5, <1>8, <2>2 DEF Working, Keeps, Leaving
    <3>3. Guarded(s)
      BY <3>1, <3>2 DEF GatesKept
    <3> QED BY <1>1, <1>2, <1>4, <3>1, <3>3, GuardedStays DEF sessionVars, Gates
  <2> QED BY <2>1, <2>2
<1>9. Gates' = Gates
  BY DEF Gates
<1> QED BY <1>6, <1>7, <1>8, <1>9 DEF GatesKept

-----------------------------------------------------------------------------
(* What a call owes the gates.                                              *)

SessionGate(c) ==
    /\ Uncompleted \/ \A e \in Workers : pc[e] \in Leaving
    /\ op'[c] = "complete_step" => Gated(RowStage(arg[c]))'
    /\ Turns' # {} /\ (\A s \in Gates : Guarded(s)) => \A s \in Gates : Guarded(s)'

(* Most steps of a call complete no row and decide nothing.                 *)
LEMMA PlainGate ==
  ASSUME Sound, Orderly, NEW c \in Clients, GatedStay, Steady, Uncompleted,
         op[c] # "reject_step", op'[c] # "complete_step"
  PROVE  SessionGate(c)
<1>1. \A d \in Clients : d = c
  BY DEF Orderly
<1>2. \A s \in Gates : Guarded(s) => Guarded(s)'
  BY <1>1, GuardedStays DEF Gates
<1>3. Gates' = Gates
  BY DEF Gates
<1> QED BY <1>2, <1>3 DEF SessionGate

LEMMA SharedGate ==
  ASSUME Sound, Orderly, NEW c \in Clients, GatedStay, SharedStep(c)
  PROVE  SessionGate(c)
<1>t. StoreTypeOK /\ SessionTypeOK
  BY DEF Sound, TypeOK
<1>1. Steady
  BY <1>t, SharedIsCalm DEF Calm
<1>2. Uncompleted
  BY <1>t, UncompletedWrites DEF SharedStep, SetPaused, SetRunning, Enqueue, FailStep, FailRun,
     BestEffort
<1>3. op[c] # "reject_step" /\ op'[c] # "complete_step"
  BY <1>t DEF SharedStep, SetPaused, SetRunning, Enqueue, FailStep, FailRun, End, Then, SessionTypeOK
<1> QED BY <1>1, <1>2, <1>3, PlainGate

LEMMA RunServiceGate ==
  ASSUME Sound, Orderly, NEW c \in Clients, Grows, GatedStay, RunServiceStep(c)
  PROVE  SessionGate(c)
<1>t. StoreTypeOK /\ SessionTypeOK /\ \A d \in Clients : d = c
  BY DEF Sound, TypeOK, Orderly
<1>1. Uncompleted
  BY <1>t, UncompletedWrites DEF RunServiceStep, PauseRun, ResumeRun, StartStage,
     StartStageMetadata, CancelRun, CancelRunList, CancelRunStep, CancelListed, CancelRunWrite,
     TransitionStoryToBacklog, RetryStep, RetryStepCheck, RetryStepCreate, Begin, BestEffort
<1>2. op[c] # "reject_step" /\ op'[c] # "complete_step"
  <2>1. CASE PauseRun(c) \/ ResumeRun(c) \/ StartStage(c) \/ StartStageMetadata(c) \/ CancelRun(c)
    BY <1>t, <2>1 DEF PauseRun, ResumeRun, StartStage, StartStageMetadata, CancelRun, Begin,
       Then, End, SessionTypeOK
  <2>2. CASE \/ CancelRunList(c) \/ CancelRunStep(c) \/ CancelRunWrite(c)
             \/ TransitionStoryToBacklog(c)
    BY <1>t, <2>2 DEF CancelRunList, CancelRunStep, CancelListed, CancelRunWrite,
       TransitionStoryToBacklog, Then, End, SessionTypeOK
  <2>3. CASE RetryStep(c) \/ RetryStepCheck(c) \/ RetryStepCreate(c)
    BY <1>t, <2>3 DEF RetryStep, RetryStepCheck, RetryStepCreate, Then, End, SessionTypeOK
  <2> QED BY <2>1, <2>2, <2>3 DEF RunServiceStep
<1>3. CASE Calm(c)
  BY <1>1, <1>2, <1>3, PlainGate DEF Calm
<1>4. CASE Retries(c)
  <2>1. hitl' = hitl
    BY <1>4 DEF Retries
  <2>2. \A r \in Rows : Exists(r) => RowStage(r)' = RowStage(r) /\ Exists(r)'
    BY DEF RowStage, Grows, Exists
  <2>3. ASSUME NEW s \in Gates, Guarded(s) PROVE Guarded(s)'
    <3>1. Gated(s) => Gated(s)'
      BY DEF GatedStay, Gates
    <3>2. Open(s) => Open(s)'
      BY <1>1, <2>2 DEF Open, Uncompleted
    <3>3. \A q \in Reqs : Pending(q) => hitl[q].row \in Rows /\ Exists(hitl[q].row)
      BY DEF Sound, ViewsSound, StoreSound, Found, Pending
    <3>4. \A q \in Reqs : Pending(q) /\ RowStage(hitl[q].row) = s => Guarded(s)'
      <4>1. SUFFICES ASSUME NEW q \in Reqs, Pending(q), RowStage(hitl[q].row) = s
                     PROVE  Pending(q)' /\ RowStage(hitl[q].row)' = s
        BY DEF Guarded
      <4> QED BY <2>1, <2>2, <3>3, <4>1 DEF Pending, RowStage
    <3> QED BY <1>2, <1>t, <2>3, <3>1, <3>2, <3>4 DEF Guarded
  <2>4. Gates' = Gates
    BY DEF Gates
  <2> QED BY <1>1, <1>2, <2>3, <2>4 DEF SessionGate
<1> QED BY <1>3, <1>4, RunServiceCases

LEMMA HITLServiceGate ==
  ASSUME Sound, Orderly, InTurn, GatesKept, NEW c \in Clients, UNCHANGED execVars, Grows,
         GatedStay, HITLServiceStep(c)
  PROVE  SessionGate(c)
<1>t. /\ StoreTypeOK /\ SessionTypeOK /\ SessionSound(c) /\ CallFits(c) /\ OneTurn
      /\ \A d \in Clients : d = c
  BY DEF Sound, TypeOK, ViewsSound, Orderly, InTurn
<1>g. Gates' = Gates
  BY DEF Gates
<1>1. CASE ApproveWrite(c) \/ RejectWrite(c)
  <2>1. CASE Fault /\ End(c)
    <3>1. Steady /\ Uncompleted
      BY <1>t, <2>1, SteadyWrites, UncompletedWrites
    <3>2. op'[c] = "idle" /\ op[c] # "reject_step"
      BY <1>1, <1>t, <2>1 DEF End, SessionTypeOK, ApproveWrite, RejectWrite
    <3> QED BY <3>1, <3>2, PlainGate
  <2>2. ASSUME NEW s, NEW o, UpdateHITLRequestStatus(arg[c], s), ThenOn(c, o, hitl[arg[c]].row),
               op[c] \in {"approve", "reject"},
               (s = "approved" /\ o = "complete_step") \/ (s = "rejected" /\ o = "reject_step")
        PROVE  SessionGate(c)
    <3>1. arg[c] \in Reqs /\ Pending(arg[c])
      BY <1>t, <2>2 DEF CallFits
    <3>2. /\ UNCHANGED <<stepOrder, stepStatus>>
          /\ hitl'[arg[c]].row = hitl[arg[c]].row /\ hitl'[arg[c]].status = s
          /\ \A q \in Reqs : q # arg[c] => hitl'[q] = hitl[q]
      BY <1>t, <2>2, <3>1 DEF UpdateHITLRequestStatus, StoreTypeOK
    <3>3. op'[c] = o /\ arg'[c] = hitl[arg[c]].row
      BY <1>t, <2>2 DEF ThenOn, SessionTypeOK
    <3>4. \A r : RowStage(r)' = RowStage(r)
      BY <3>2 DEF RowStage
    <3>5. Uncompleted
      BY <1>t, <2>2, UncompletedWrites
    <3>6. PICK q \in Reqs : q = arg[c]
      BY <3>1
    <3>7. RowStage(hitl[q].row)' = RowStage(hitl[q].row)
      BY <3>2, <3>6 DEF RowStage
    <3>8. s = "approved" => Gated(RowStage(arg[c]))'
      BY <3>2, <3>3, <3>6, <3>7 DEF Gated, RowStage
    <3>9. ASSUME NEW g \in Gates, Guarded(g) PROVE Guarded(g)'
      <4>1. Gated(g) => Gated(g)'
        BY DEF GatedStay, Gates
      <4>2. Open(g) => Open(g)'
        BY <3>2 DEF Open, Exists, RowStage
      <4>3. RowStage(hitl[q].row) = g => Guarded(g)'
        <5>1. CASE s = "approved"
          BY <3>2, <3>6, <3>7, <5>1 DEF Guarded, Gated
        <5>2. CASE s = "rejected" /\ o = "reject_step"
          BY <3>2, <3>3, <3>6, <5>2 DEF Guarded, RowStage
        <5> QED BY <2>2, <5>1, <5>2
      <4>4. ASSUME NEW p \in Reqs, p # q, Pending(p), RowStage(hitl[p].row) = g
            PROVE  Guarded(g)'
        BY <3>2, <3>6, <4>4 DEF Guarded, Pending, RowStage
      <4> QED BY <1>t, <2>2, <3>9, <4>1, <4>2, <4>3, <4>4 DEF Guarded
    <3> QED BY <1>g, <2>2, <3>3, <3>5, <3>8, <3>9 DEF SessionGate
  <2> QED BY <1>1, <2>1, <2>2 DEF ApproveWrite, RejectWrite
<1>2. CASE RejectStep(c)
  <2>1. /\ op[c] = "reject_step" /\ op[c] \in Going /\ op'[c] = "idle"
        /\ arg[c] \in Rows /\ Exists(arg[c])
    BY <1>2, <1>t DEF RejectStep, End, SessionTypeOK, Going, SessionSound, OnRow, OnFound
  <2>2. Steady /\ Uncompleted
    BY <1>2, <1>t, SteadyWrites, UncompletedWrites DEF RejectStep, BestEffort
  <2>3. CASE UpdateRunStepStatus(arg[c], "failed")
    <3>1. PICK r \in Rows : r = arg[c]
      BY <2>1
    <3>2. stepStatus'[r] # "completed" /\ Exists(r)' /\ RowStage(r)' = RowStage(r)
      BY <1>t, <2>1, <2>3, <3>1 DEF UpdateRunStepStatus, StoreTypeOK, Exists, RowStage
    <3>3. ASSUME NEW g \in Gates, Guarded(g) PROVE Guarded(g)'
      <4>1. RowStage(r) = g => Open(g)'
        BY <3>2 DEF Open
      <4> QED BY <1>t, <2>2, <3>1, <3>3, <4>1, GuardedStays DEF Gates
    <3> QED BY <1>g, <2>1, <2>2, <3>3 DEF SessionGate
  <2>4. CASE Fault
    <3>1. /\ Working = {} /\ Queued = {} /\ Asked = {} /\ Parked = {} /\ Unretried = {}
      BY <1>t, <2>1, ItsCall
    <3>2. UNCHANGED <<stepOrder, stepStatus, meta, hitl, jobs>>
      BY <2>4 DEF Fault, NoWrite, storeVars
    <3>3. Working' = {} /\ Queued' = {} /\ Asked' = {} /\ Parked' = {}
      BY <3>1, <3>2 DEF Working, Leaving, Queued, Asked, Pending, Parked, execVars
    <3>4. Unretried' = {}
      BY <1>t, <2>1, <3>1, <3>2 DEF Unretried, AwaitsRetry, RetriesOf
    <3>5. Called' = {}
      BY <1>t, <2>1 DEF Called, Going
    <3>6. Turns' = {}
      BY <3>3, <3>4, <3>5 DEF Turns
    <3> QED BY <2>1, <2>2, <3>6 DEF SessionGate
  <2> QED BY <1>2, <2>3, <2>4 DEF RejectStep, BestEffort
<1>3. CASE CompleteGateStep(c)
  <2>1. /\ op[c] = "complete_step" /\ op[c] \in Going /\ op'[c] = "resume_read"
    BY <1>3, <1>t DEF CompleteGateStep, Then, SessionTypeOK, Going
  <2>2. Steady
    BY <1>3, <1>t, SteadyWrites DEF CompleteGateStep, BestEffort
  <2>3. \A e \in Workers : pc[e] \in Leaving
    BY <1>t, <2>1, ItsCall DEF Working
  <2>4. /\ \A r \in Rows : r # arg[c] => stepStatus'[r] = stepStatus[r]
        /\ stepOrder' = stepOrder
    BY <1>3, <1>t DEF CompleteGateStep, BestEffort, UpdateRunStepStatus, Fault, NoWrite,
       storeVars, StoreTypeOK
  <2>5. Gated(RowStage(arg[c]))
    BY <2>1 DEF GatesKept
  <2>6. ASSUME NEW g \in Gates, Guarded(g) PROVE Guarded(g)'
    <3>1. Gated(g) => Gated(g)'
      BY DEF GatedStay, Gates
    <3>2. Open(g) => Gated(g) \/ Open(g)'
      BY <2>4, <2>5 DEF Open, Exists, RowStage
    <3>3. \A q \in Reqs : Pending(q) /\ RowStage(hitl[q].row) = g => Guarded(g)'
      BY <2>2 DEF Guarded, Pending, Steady, RowStage
    <3> QED BY <1>t, <2>1, <2>6, <3>1, <3>2, <3>3 DEF Guarded
  <2> QED BY <1>g, <2>1, <2>3, <2>6 DEF SessionGate
<1>4. CASE \/ Approve(c) \/ Reject(c) \/ ResumeRead(c) \/ ResumeWrite(c) \/ WatchdogBreach(c)
  <2>1. Steady /\ Uncompleted
    BY <1>4, <1>t, SteadyWrites, UncompletedWrites DEF Approve, Reject, ResumeRead, ResumeWrite,
       WatchdogBreach, Begin, ReadRun, BestEffort
  <2>2. op[c] # "reject_step" /\ op'[c] # "complete_step"
    BY <1>4, <1>t DEF Approve, Reject, ResumeRead, ResumeWrite,
       WatchdogBreach, Begin, ReadRun, Then, SessionTypeOK
  <2> QED BY <2>1, <2>2, PlainGate
<1>5. ~(\/ Resolve(c) \/ ResolveWrite(c) \/ SendBackStep(c) \/ RaiseProbeHaltCheck(c)
        \/ RaiseProbeHaltRead(c) \/ RaiseProbeHaltCreate(c))
  BY <1>t DEF Resolve, Begin, Spend, Orderly, ResolveWrite, SendBackStep, RaiseProbeHaltCheck,
     RaiseProbeHaltRead, RaiseProbeHaltCreate, CallFits
<1> QED BY <1>1, <1>2, <1>3, <1>4, <1>5 DEF HITLServiceStep

LEMMA SessionsKeepGates ==
  ASSUME Sound, Orderly, InTurn, GatesKept, SessionNext
  PROVE  GatesKept'
<1>1. PICK c \in Clients : /\ SharedStep(c) \/ RunServiceStep(c) \/ HITLServiceStep(c)
                           /\ UNCHANGED execVars
  BY DEF SessionNext
<1>2. Grows /\ GatedStay
  BY GatedStays DEF Next
<1>3. SessionGate(c)
  BY <1>1, <1>2, SharedGate, RunServiceGate, HITLServiceGate
<1>4. \A e \in Workers : Keeps(e)
  BY <1>1 DEF execVars, Keeps
<1>5. \A e \in Workers : WorkerGuarded(e)'
  BY <1>2, <1>3, <1>4, OthersGuarded DEF SessionGate, GatesKept
<1>6. \A d \in Clients : op'[d] = "complete_step" => Gated(RowStage(arg[d]))'
  BY <1>3 DEF SessionGate, Orderly
<1>7. ASSUME Turns' # {}, \A e \in Working' : pc'[e] = "load"
      PROVE  \A s \in Gates' : Guarded(s)'
  <2>1. Turns # {}
    BY <1>7, SessionsKeepTurn
  <2>2. \A e \in Working : pc[e] = "load"
    BY <1>1, <1>7 DEF Working, Leaving, execVars
  <2> QED BY <1>3, <1>7, <2>1, <2>2 DEF SessionGate, GatesKept
<1> QED BY <1>5, <1>6, <1>7 DEF GatesKept

LEMMA CrashKeepsGates ==
  ASSUME Sound, Orderly, InTurn, GatesKept, Crash
  PROVE  GatesKept'
<1>t. StoreTypeOK /\ OneTurn
  BY DEF Sound, TypeOK, InTurn
<1>1. /\ UNCHANGED <<meta, hitl, jobs, stepOrder, stepStatus>>
      /\ \A e \in Workers : pc'[e] = "idle" /\ stage'[e] = 0
      /\ \A c \in Clients : op'[c] = "idle"
  BY DEF Crash, NoWrite, storeVars
<1>2. Steady /\ Uncompleted /\ GatedStay
  BY <1>1, GatedStays DEF Steady, Uncompleted, Next
<1>3. \A e \in Workers : WorkerGuarded(e)'
  BY <1>1, VisitPhases DEF WorkerGuarded
<1>4. ASSUME Turns' # {}, NEW s \in Gates PROVE Guarded(s)'
  <2>1. Turns # {}
    BY <1>4, CrashKeepsTurn
  <2>2. Working' = {} /\ Called' = {}
    BY <1>1 DEF Working, Leaving, Called, Going
  <2>3. CASE \E e \in Workers : pc[e] \notin Leaving
    <3>1. Queued = {} /\ Asked = {} /\ Called = {} /\ Parked = {} /\ Unretried = {}
      BY <1>t, <2>3, Alone
    <3>2. Queued' = {} /\ Asked' = {} /\ Parked' = {}
      BY <1>1, <3>1 DEF Queued, Asked, Pending, Parked
    <3>3. Unretried' = {}
      BY <1>1, <3>1 DEF Unretried, AwaitsRetry, RetriesOf, Called, Going
    <3> QED BY <1>4, <2>2, <3>2, <3>3 DEF Turns
  <2>4. CASE \A e \in Workers : pc[e] \in Leaving
    <3>1. Guarded(s)
      BY <2>1, <2>4 DEF GatesKept, Working
    <3>2. CASE \E c \in Clients : op[c] = "reject_step"
      <4>1. PICK c \in Clients : op[c] = "reject_step" /\ op[c] \in Going
        BY <3>2 DEF Going
      <4>2. Queued = {} /\ Asked = {} /\ Parked = {} /\ Unretried = {}
        BY <1>t, <4>1, ItsCall
      <4>3. Queued' = {} /\ Asked' = {} /\ Parked' = {}
        BY <1>1, <4>2 DEF Queued, Asked, Pending, Parked
      <4>4. \A d \in Clients : op[d] # "retry_create"
        BY <4>1 DEF Orderly
      <4>5. Unretried' = {}
        BY <1>1, <4>2, <4>4 DEF Unretried, AwaitsRetry, RetriesOf
      <4> QED BY <1>4, <2>2, <4>3, <4>5 DEF Turns
    <3>3. CASE \A c \in Clients : op[c] # "reject_step"
      BY <1>2, <3>1, <3>3, GuardedStays DEF Gates
    <3> QED BY <3>2, <3>3
  <2> QED BY <2>3, <2>4
<1>5. Gates' = Gates
  BY DEF Gates
<1> QED BY <1>1, <1>3, <1>4, <1>5 DEF GatesKept

LEMMA InitGatesKept ==
  ASSUME StagesInOrder, Init
  PROVE  GatesKept
<1>1. ASSUME NEW s \in Gates PROVE Open(s)
  <2>1. PICK k \in Orders : StageOf[k] = s
    BY DEF StagesInOrder, Gates
  <2>2. k \in Rows /\ k # 0 /\ k <= NumSteps
    BY StepsAssumption DEF Orders, Rows
  <2>3. stepOrder[k] = k /\ stepStatus[k] = "pending"
    BY <2>2 DEF Init, StoreInit
  <2> QED BY <2>1, <2>2, <2>3 DEF Open, Exists, RowStage
<1>2. \A e \in Workers : WorkerGuarded(e)
  BY VisitPhases DEF Init, ExecInit, WorkerGuarded
<1>3. \A c \in Clients : op[c] # "complete_step"
  BY DEF Init, SessionInit
<1> QED BY <1>1, <1>2, <1>3 DEF GatesKept, Guarded

LEMMA NextKeepsGates ==
  ASSUME Sound, Orderly, InTurn, GatesKept, [Next]_vars
  PROVE  GatesKept'
<1>1. CASE UNCHANGED vars
  <2>1. UNCHANGED <<storeVars, execVars, sessionVars>>
    BY <1>1 DEF vars
  <2>2. /\ Working' = Working /\ Turns' = Turns
    BY <2>1 DEF storeVars, execVars, sessionVars, Working, Leaving, Turns, Queued, Asked, Pending,
       Called, Parked, Unretried, AwaitsRetry, RetriesOf
  <2>3. Grows /\ GatedStay /\ Steady /\ Uncompleted
    BY <2>1, GatedStays DEF Steady, Uncompleted, storeVars
  <2>4. \A e \in Workers : WorkerGuarded(e)'
    BY <2>1, <2>3, OthersGuarded DEF GatesKept, execVars, Keeps
  <2>5. \A s \in Gates : Guarded(s) => Guarded(s)'
    BY <2>1, <2>3, GuardedStays DEF Gates, sessionVars
  <2>6. \A c \in Clients : op'[c] = "complete_step" => Gated(RowStage(arg[c]))'
    BY <2>1 DEF GatesKept, Gated, RowStage, storeVars, sessionVars
  <2>7. Gates' = Gates
    BY DEF Gates
  <2> QED BY <2>1, <2>2, <2>4, <2>5, <2>6, <2>7 DEF GatesKept, execVars
<1> QED BY <1>1, WorkersKeepGates, SessionsKeepGates, CrashKeepsGates DEF Next

(* GatesAreRespected: in an orderly environment, on a pipeline whose steps  *)
(* are listed stage by stage, a step after a gate stage is executed only    *)
(* when a request on a step of the gate stage has been approved, although   *)
(* the gate is looked up on the last step that this very executor has       *)
(* completed (enforceGateOnExit).                                           *)
THEOREM GatesAreRespected ==
  ASSUME Orderly, StagesInOrder
  PROVE  Spec => []GateRespected
<1>1. Init => Sound /\ InTurn /\ GatesKept
  BY InitSound, InitInTurn, InitGatesKept
<1>2. Sound /\ InTurn /\ GatesKept /\ [Next]_vars => Sound' /\ InTurn' /\ GatesKept'
  BY NextKeepsSound, NextKeepsTurn, NextKeepsGates
<1>3. Sound /\ GatesKept => GateRespected
  <2> SUFFICES ASSUME Sound, GatesKept, NEW e \in Workers, Executing(e), NEW s \in Stages,
                      Transition[s] = "gate", s < CurStage(e)
               PROVE  Gated(s)
    BY DEF GateRespected, Gated, RowStage
  <2>1. s \in Gates /\ pc[e] \in Visiting \ Leaving /\ pc[e] \in InStep
    BY VisitPhases DEF Executing, Gates, InStep
  <2>2. Ahead(e) /\ cur[e] # 0 /\ CurStage(e) = stage[e]
    BY <2>1 DEF GatesKept, WorkerGuarded, Sound, ViewsSound, WorkerSound, PhaseSound
  <2>3. /\ cur[e] \in Rows /\ stepOrder[cur[e]] \in Orders /\ CurStage(e) \in Stages
        /\ \A r \in todo[e] : stepOrder[r] \in Orders
    BY <2>2, StagesAssumption DEF Sound, TypeOK, ExecTypeOK, StoreTypeOK, ViewsSound,
       WorkerSound, Found, Exists, Orders, CurStage
  <2>4. \A r \in todo[e] : CurStage(e) <= RowStage(r)
    BY <2>2, <2>3 DEF Ahead, StagesInOrder, CurStage, RowStage
  <2>5. \A r \in todo[e] : RowStage(r) # s
    BY <2>3, <2>4, StagesAssumption DEF Stages, RowStage
  <2>6. CurStage(e) # s
    BY <2>3 DEF Stages
  <2> QED BY <2>1, <2>2, <2>5, <2>6 DEF Ahead, AheadOf
<1> QED BY <1>1, <1>2, <1>3, PTL DEF Spec

-----------------------------------------------------------------------------
(* The story follows the run.                                               *)

(* Nothing goes wrong between a status of the run and its story's.          *)
LEMMA Undisturbed ==
  ASSUME Gentle
  PROVE  /\ ~Fault /\ ~Spend("breaker") /\ ~Spend("expire") /\ ~Spend("cancel") /\ ~Spend("crash")
         /\ ~Spend("breach") /\ ~Spend("retry") /\ ~Spend("resolve") /\ ~Spend("halt")
         /\ "retry" \notin Ops /\ "breach" \notin Ops
         /\ \A e : ~expired[e] => ~Fails(e)
BY DEF Gentle, Spend, Fault, Fails

(* A worker that goes about the run finds it neither over nor cancelled.    *)
LEMMA RunGoesOn ==
  ASSUME OneTurn, StoryTold, NEW e \in Workers, pc[e] \notin Leaving,
         pc[e] \notin {"story_failed", "story_done"}, "retry" \notin Ops
  PROVE  status \notin {"failed", "completed", "cancelled"}
<1>1. \A f \in Workers : f # e => pc[f] \in Leaving
  BY Alone
<1>2. \A f \in Workers : pc[f] \notin {"story_failed", "story_done"}
  BY <1>1, HasTurn
<1>3. Turns # {}
  BY ItsTurn
<1> QED BY <1>2, <1>3 DEF StoryTold

(* The other workers stay where they are, and this one is not cancelled.    *)
Proceeds(e) == /\ \A f \in Workers : f # e => pc'[f] = pc[f]
               /\ \A f \in Workers : ~expired'[f]
               /\ pc'[e] \notin Cancelling

(* Steps that leave the story alone, and a run that is over as it is.       *)
LeavesStory(e) == /\ Proceeds(e) /\ pc[e] \notin {"story_failed", "story_done"}
                  /\ status' = status \/ status' \in {"running", "paused"}
                  /\ storyStatus' = storyStatus \/ (pc[e] = "story_running" /\ status' = status)

LEMMA StoryStays ==
  ASSUME OneTurn, StoryTold, NEW e \in Workers, UNCHANGED sessionVars, "retry" \notin Ops,
         Turns = {} => Turns' = {}, LeavesStory(e)
  PROVE  StoryTold'
<1>1. \A f \in Workers : pc[f] \in {"story_failed", "story_done"} => pc'[f] = pc[f]
  BY DEF LeavesStory, Proceeds
<1>2. \A f \in Workers : ~expired'[f] /\ pc'[f] \notin Cancelling
  BY DEF LeavesStory, Proceeds, StoryTold
<1>3. storyStatus' = storyStatus \/ status' \notin {"failed", "completed"}
  BY RunGoesOn, HasTurn DEF LeavesStory
<1> QED BY <1>1, <1>2, <1>3 DEF StoryTold, LeavesStory, sessionVars

LEMMA PlainProceeds ==
  ASSUME ExecTypeOK, StoryTold, NEW e \in Workers,
         (\E p \in Phases \ Cancelling : Goto(e, p)) \/ Return(e)
  PROVE  Proceeds(e)
BY DEF Proceeds, Goto, Return, ExecTypeOK, StoryTold, Cancelling, Phases

LEMMA BeginningLeavesStory ==
  ASSUME Gentle, StoreTypeOK, ExecTypeOK, StoryTold, NEW e \in Workers,
         Take(e) \/ RefuseByBreaker(e) \/ Load(e) \/ Start(e) \/ StoryRunning(e) \/ HardError(e)
  PROVE  LeavesStory(e)
<1>1. ~expired[e] /\ ~Fails(e) /\ ~RefuseByBreaker(e) /\ ~HardError(e)
  BY Undisturbed DEF StoryTold, RefuseByBreaker, HardError
<1>2. CASE Take(e)
  <2>1. Proceeds(e)
    BY <1>2, PlainProceeds DEF Take, Phases, Cancelling
  <2> QED BY <1>2, <2>1 DEF LeavesStory, Take, TakeJob
<1>3. CASE Load(e) \/ Start(e)
  <2>1. Proceeds(e)
    BY <1>3 DEF Load, Start, Proceeds, StoryTold, ExecTypeOK, Cancelling
  <2> QED BY <1>3, <2>1 DEF LeavesStory, Load, Start, NoWrite, storeVars, UpdateRunStatus
<1>4. CASE StoryRunning(e)
  <2>1. Proceeds(e)
    BY <1>4, PlainProceeds DEF StoryRunning, Phases, Cancelling
  <2> QED BY <1>1, <1>4, <2>1 DEF LeavesStory, StoryRunning, Try, UpdateStory
<1> QED BY <1>1, <1>2, <1>3, <1>4

LEMMA VisitingLeavesStory ==
  ASSUME Gentle, StoreTypeOK, ExecTypeOK, StoryTold, NEW e \in Workers,
         \/ PollPaused(e) \/ PollNext(e) \/ PollExpired(e) \/ PollEnd(e) \/ Enter(e)
         \/ CompleteStep(e)
  PROVE  LeavesStory(e)
<1>1. ~expired[e] /\ ~Fails(e) /\ ~Fault /\ ~PollExpired(e)
  BY Undisturbed DEF StoryTold, PollExpired
<1>2. CASE PollPaused(e) \/ PollEnd(e)
  <2>1. Proceeds(e)
    BY <1>2, PlainProceeds DEF PollPaused, PollEnd, Phases, AtBoundary, Cancelling
  <2> QED BY <1>2, <2>1 DEF LeavesStory, PollPaused, PollEnd, NoWrite, storeVars
<1>3. CASE PollNext(e)
  <2>1. Proceeds(e)
    BY <1>3 DEF PollNext, Visit, Proceeds, StoryTold, ExecTypeOK, Cancelling
  <2> QED BY <1>1, <1>3, <2>1 DEF LeavesStory, PollNext, NoWrite, storeVars
<1>4. CASE Enter(e) \/ CompleteStep(e)
  <2>1. Proceeds(e)
    BY <1>4 DEF Enter, CompleteStep, Proceeds, StoryTold, ExecTypeOK, Cancelling
  <2> QED BY <1>1, <1>4, <2>1 DEF LeavesStory, Enter, CompleteStep, Try,
             UpdateStoryCurrentStage, UpdateRunStepStatus
<1> QED BY <1>1, <1>2, <1>3, <1>4

LEMMA BoundaryLeavesStory ==
  ASSUME Gentle, StoreTypeOK, ExecTypeOK, StoryTold, NEW e \in Workers,
         \/ GatePass(e) \/ GateHeld(e) \/ GateMissing(e) \/ GateCreate(e) \/ GateAnchor(e)
         \/ GateRun(e) \/ ParkMeta(e) \/ ParkRun(e) \/ ParkStory(e) \/ ClearStage(e)
  PROVE  LeavesStory(e)
<1>1. ~expired[e] /\ ~Fails(e)
  BY Undisturbed DEF StoryTold
<1>2. Return(e) \/ \E p \in Phases \ Cancelling : Goto(e, p)
  BY DEF GatePass, AfterGate, GateHeld, GateMissing, GateCreate, GateAnchor, GateRun, ParkMeta,
     ParkRun, ParkStory, ClearStage, Phases, AtBoundary, AtEnd, Cancelling
<1>3. Proceeds(e)
  BY <1>2, PlainProceeds
<1>4. pc[e] \notin {"story_failed", "story_done"}
  BY DEF GatePass, GateHeld, GateMissing, GateCreate, GateAnchor, GateRun, ParkMeta,
     ParkRun, ParkStory, ClearStage
<1>5. storyStatus' = storyStatus /\ (status' = status \/ status' = "paused")
  BY <1>1 DEF GatePass, GateHeld, GateMissing, GateCreate, GateAnchor, GateRun, ParkMeta,
     ParkRun, ParkStory, ClearStage, Try, NoWrite, storeVars, CreateHITLRequest,
     UpdateRunStepStatus, UpdateRunStatus, UpdateRunMetadata, UpdateStoryCurrentStage
<1> QED BY <1>3, <1>4, <1>5 DEF LeavesStory

LEMMA StepLeavesStory ==
  ASSUME Gentle, StoreTypeOK, ExecTypeOK, StoryTold, NEW e \in Workers,
         \/ StartStep(e) \/ ActSucceeds(e) \/ ActFails(e) \/ ActRequest(e) \/ ActWait(e)
         \/ ActPause(e) \/ PersistMetadata(e) \/ RefetchSuspended(e) \/ Refetch(e)
         \/ CompleteFails(e) \/ HandleFailureStep(e)
  PROVE  LeavesStory(e)
<1>1. ~expired[e] /\ ~Fails(e)
  BY Undisturbed DEF StoryTold
<1>2. Return(e) \/ \E p \in Phases \ Cancelling : Goto(e, p)
  BY DEF StartStep, ActSucceeds, ActFails, ActRequest, ActWait, ActPause, PersistMetadata,
     RefetchSuspended, Refetch, CompleteFails, HandleFailureStep, Phases, InStep, Cancelling
<1>3. Proceeds(e)
  BY <1>2, PlainProceeds
<1>4. pc[e] \notin {"story_failed", "story_done"}
  BY DEF StartStep, ActSucceeds, ActFails, ActRequest, ActWait, ActPause, PersistMetadata,
     RefetchSuspended, Refetch, CompleteFails, HandleFailureStep
<1>5. storyStatus' = storyStatus /\ (status' = status \/ status' = "paused")
  BY <1>1 DEF StartStep, ActSucceeds, ActFails, ActRequest, ActWait, ActPause, PersistMetadata,
     RefetchSuspended, Refetch, CompleteFails, HandleFailureStep, Try, NoWrite, storeVars,
     CreateHITLRequest, UpdateRunStepStatus, UpdateRunStatus, UpdateRunMetadata
<1> QED BY <1>3, <1>4, <1>5 DEF LeavesStory
(* The run is over: its story is the next thing this worker writes.         *)
LEMMA EndingTellsStory ==
  ASSUME Gentle, StoreTypeOK, ExecTypeOK, OneTurn, StoryTold, NEW e \in Workers,
         UNCHANGED sessionVars, HandleFailureRun(e) \/ Finish(e)
  PROVE  StoryTold'
<1>1. ~expired[e] /\ ~Fails(e) /\ e \in Workers
  BY Undisturbed DEF StoryTold
<1>2. Proceeds(e)
  BY PlainProceeds DEF HandleFailureRun, Finish, Phases, InStep, AtEnd, Cancelling
<1>3. \/ pc'[e] = "story_failed" /\ status' = "failed"
      \/ pc'[e] = "story_done" /\ status' = "completed"
  BY <1>1 DEF HandleFailureRun, Finish, Goto, Try, UpdateRunStatus, ExecTypeOK
<1>4. \A f \in Workers : ~expired'[f] /\ pc'[f] \notin Cancelling
  BY <1>2 DEF Proceeds, StoryTold
<1> QED BY <1>1, <1>3, <1>4 DEF StoryTold, sessionVars

LEMMA TellingTellsStory ==
  ASSUME Gentle, StoreTypeOK, ExecTypeOK, OneTurn, StoryTold, NEW e \in Workers,
         UNCHANGED sessionVars, StoryFailed(e) \/ StoryDone(e)
  PROVE  StoryTold'
<1>1. ~expired[e] /\ ~Fails(e) /\ "retry" \notin Ops
  BY Undisturbed DEF StoryTold
<1>2. Proceeds(e)
  BY PlainProceeds DEF StoryFailed, StoryDone
<1>3. /\ pc[e] \notin Leaving /\ Others(e) /\ pc'[e] = "idle"
      /\ StoreLess /\ UNCHANGED <<stepOrder, status>>
  <2>1. pc[e] \notin Leaving
    BY <1>1, HasTurn DEF StoryFailed, StoryDone
  <2>2. Others(e) /\ pc'[e] = "idle"
    BY DEF StoryFailed, StoryDone, Return, Others, ExecTypeOK
  <2>3. StoreLess /\ UNCHANGED <<stepOrder, status>>
    BY <1>1, QuietWrites DEF StoryFailed, StoryDone, Try, UpdateStory
  <2> QED BY <2>1, <2>2, <2>3
<1>4. Turns' = {}
  BY <1>3, HasTurn, LastTurn
<1>5. /\ Turns # {}
      /\ \A f \in Workers : pc[f] \in {"story_failed", "story_done"} => f = e
  <2>1. Turns # {}
    BY <1>3, ItsTurn
  <2>2. \A f \in Workers : f # e => pc[f] \in Leaving
    BY <1>3, Alone
  <2> QED BY <1>1, <2>1, <2>2, HasTurn
<1>6. /\ status' = "failed" => storyStatus' = "failed"
      /\ status' = "completed" => storyStatus' = "done"
  BY <1>1, <1>3, <1>5 DEF StoryTold, StoryFailed, StoryDone, Try, UpdateStory
<1>7. \A f \in Workers : ~expired'[f] /\ pc'[f] \notin Cancelling
  BY <1>2 DEF Proceeds, StoryTold
<1>8. status' # "cancelled"
  BY <1>3 DEF StoryTold
<1> QED BY <1>4, <1>6, <1>7, <1>8 DEF StoryTold, sessionVars

LEMMA WorkersTellStory ==
  ASSUME Sound, Orderly, Gentle, InTurn, StoryTold, ExecutorNext
  PROVE  StoryTold'
<1>1. PICK e \in Workers : (ExecuteRun(e) \/ Expire(e)) /\ UNCHANGED sessionVars
  BY DEF ExecutorNext
<1>2. StoreTypeOK /\ ExecTypeOK /\ OneTurn /\ "retry" \notin Ops
  BY Undisturbed DEF Sound, TypeOK, InTurn
<1>3. Turns = {} => Turns' = {}
  BY WorkersKeepTurn
<1>4. /\ ~Expire(e) /\ ~HandleCancellationStep(e) /\ ~HandleCancellationRun(e)
      /\ ~StoryBacklog(e)
  BY Undisturbed DEF Expire, HandleCancellationStep, HandleCancellationRun, StoryBacklog,
     StoryTold, Cancelling
<1>5. CASE HandleFailureRun(e) \/ Finish(e) \/ StoryFailed(e) \/ StoryDone(e)
  BY <1>1, <1>2, <1>5, EndingTellsStory, TellingTellsStory
<1>6. CASE ~(HandleFailureRun(e) \/ Finish(e) \/ StoryFailed(e) \/ StoryDone(e))
  <2>1. LeavesStory(e)
    BY <1>1, <1>2, <1>4, <1>6, BeginningLeavesStory, VisitingLeavesStory, BoundaryLeavesStory,
       StepLeavesStory DEF ExecuteRun
  <2> QED BY <1>1, <1>2, <1>3, <2>1, StoryStays
<1> QED BY <1>5, <1>6

(* The calls pause the run and set it running; none of them ends it or      *)
(* writes the story.                                                        *)
LEMMA SessionsTellStory ==
  ASSUME Sound, Orderly, Gentle, InTurn, StoryTold, SessionNext
  PROVE  StoryTold'
<1>1. PICK c \in Clients : /\ SharedStep(c) \/ RunServiceStep(c) \/ HITLServiceStep(c)
                           /\ UNCHANGED execVars
  BY DEF SessionNext
<1>2. /\ SessionTypeOK /\ CallFits(c) /\ (Turns = {} => Turns' = {})
      /\ \A d \in Clients : d = c
  BY SessionsKeepTurn DEF Sound, TypeOK, InTurn, Orderly
<1> DEFINE Ending == {"cancel_list", "cancel_steps", "cancel_story", "fail_step", "fail_run"}
<1>3. op[c] \notin Ending /\ ~Fault
  BY Undisturbed DEF StoryTold
<1>4. CASE SharedStep(c)
  <2>1. op'[c] \notin Ending
    BY <1>2, <1>3, <1>4 DEF SharedStep, SetPaused, SetRunning, Enqueue, FailStep, FailRun, Then, End,
       SessionTypeOK
  <2>2. storyStatus' = storyStatus /\ (status' = status \/ status' \in {"running", "paused"})
    BY <1>3, <1>4 DEF SharedStep, SetPaused, SetRunning, Enqueue, FailStep, FailRun,
       BestEffort, UpdateRunStatus, EnqueueExecuteRun
  <2> QED BY <1>1, <1>2, <2>1, <2>2 DEF StoryTold, execVars
<1>5. CASE RunServiceStep(c)
  <2>1. op'[c] \notin Ending /\ storyStatus' = storyStatus /\ status' = status
    <3>1. CASE PauseRun(c) \/ ResumeRun(c)
      BY <1>2, <3>1 DEF PauseRun, ResumeRun, Begin, NoWrite, storeVars, SessionTypeOK
    <3>2. CASE StartStage(c) \/ StartStageMetadata(c)
      BY <1>2, <1>3, <3>2 DEF StartStage, StartStageMetadata, NoWrite, storeVars, Then, End,
         UpdateRunMetadataGo, SessionTypeOK
    <3>3. /\ ~CancelRun(c) /\ ~CancelRunList(c) /\ ~CancelRunStep(c) /\ ~CancelRunWrite(c)
          /\ ~TransitionStoryToBacklog(c)
      BY <1>3, Undisturbed DEF CancelRun, Begin, CancelRunList, CancelRunStep, CancelRunWrite,
         TransitionStoryToBacklog
    <3>4. ~RetryStep(c) /\ ~RetryStepCheck(c) /\ ~RetryStepCreate(c)
      BY <1>2, Undisturbed DEF RetryStep, RetryStepCheck, RetryStepCreate, CallFits
    <3> QED BY <1>5, <3>1, <3>2, <3>3, <3>4 DEF RunServiceStep
  <2> QED BY <1>1, <1>2, <2>1 DEF StoryTold, execVars
<1>6. CASE HITLServiceStep(c)
  <2>1. /\ ~Resolve(c) /\ ~ResolveWrite(c) /\ ~SendBackStep(c) /\ ~WatchdogBreach(c)
        /\ ~RaiseProbeHaltCheck(c) /\ ~RaiseProbeHaltRead(c) /\ ~RaiseProbeHaltCreate(c)
    BY <1>2, Undisturbed DEF CallFits, Resolve, ResolveWrite, SendBackStep, WatchdogBreach, Begin,
       RaiseProbeHaltCheck, RaiseProbeHaltRead, RaiseProbeHaltCreate
  <2>2. op'[c] \notin Ending
    BY <1>2, <1>6, <2>1 DEF HITLServiceStep, Approve, ApproveWrite, CompleteGateStep, ResumeRead,
       ResumeWrite, Reject, RejectWrite, RejectStep, Begin, Then, ThenOn, End, ReadRun, SessionTypeOK
  <2>3. storyStatus' = storyStatus /\ (status' = status \/ status' \in {"running", "paused"})
    BY <1>3, <1>6, <2>1 DEF HITLServiceStep, Approve, ApproveWrite, CompleteGateStep, ResumeRead,
       ResumeWrite, Reject, RejectWrite, RejectStep, Begin, ReadRun, BestEffort, NoWrite, storeVars,
       UpdateHITLRequestStatus, UpdateRunStepStatus, UpdateRunStatus
  <2> QED BY <1>1, <1>2, <2>2, <2>3 DEF StoryTold, execVars
<1> QED BY <1>1, <1>4, <1>5, <1>6

LEMMA InitStoryTold ==
  ASSUME Init
  PROVE  StoryTold
BY DEF Init, StoreInit, ExecInit, SessionInit, StoryTold, Cancelling

LEMMA NextTellsStory ==
  ASSUME Sound, Orderly, Gentle, InTurn, StoryTold, [Next]_vars
  PROVE  StoryTold'
<1>1. CASE UNCHANGED vars
  <2>1. UNCHANGED <<storeVars, execVars, sessionVars>> /\ (Turns = {} => Turns' = {})
    BY <1>1, NextKeepsTurn DEF vars
  <2> QED BY <2>1 DEF StoryTold, storeVars, execVars, sessionVars
<1>2. ~Crash
  BY Undisturbed DEF Crash
<1> QED BY <1>1, <1>2, WorkersTellStory, SessionsTellStory DEF Next

(* StoryFollows: in an orderly environment in which the database answers    *)
(* and nobody cancels or restarts, a run that is over and at rest has told  *)
(* its story how it ended, although the two are written one after the other *)
(* with pauses in between (updateStoryStatus).                              *)
THEOREM StoryFollows ==
  ASSUME Orderly, Gentle
  PROVE  Spec => []StoryFollowsRun
<1>1. Init => Sound /\ InTurn /\ StoryTold
  BY InitSound, InitInTurn, InitStoryTold
<1>2. Sound /\ InTurn /\ StoryTold /\ [Next]_vars => Sound' /\ InTurn' /\ StoryTold'
  BY NextKeepsSound, NextKeepsTurn, NextTellsStory
<1>3. StoryTold => StoryFollowsRun
  BY DEF StoryTold, StoryFollowsRun, Quiescent
<1> QED BY <1>1, <1>2, <1>3, PTL DEF Spec
-----------------------------------------------------------------------------
(* At least one turn: a run that is neither over nor paused has somebody    *)
(* who is going to deal with it, whatever overlaps.  Only losses can strand *)
(* it: the process dies or its jobs time out, a write fails, the launch     *)
(* enqueues nothing.  A gate whose request is rejected or resolved lets an  *)
(* executor leave and nobody else come, so the two do not go together.      *)
NothingLost ==
    /\ Ops \cap {"crash", "expire", "fault"} = {}
    /\ InitialJobs # 0
    /\ Gates = {} \/ Ops \cap {"reject", "resolve"} = {}

AtRest == status \in Terminal \cup {"paused"}
Departed == {"idle", "park_story", "story_failed", "story_backlog", "story_done"}
(* An executor in a step found waiting for approval is going to leave it.   *)
Drives(e) == /\ pc[e] \notin Departed
             /\ pc[e] \in {"act", "persist", "refetch"} => stepStatus[cur[e]] # "waiting_approval"
HandsOn(c) == op[c] \in {"complete_step", "resume_read", "hitl_running", "enqueue"}
Awaited == Gates # {} /\ \E q \in Reqs : Pending(q)
Driven == \/ AtRest \/ jobs > 0 \/ Awaited
          \/ \E e \in Workers : Drives(e)
          \/ \E c \in Clients : HandsOn(c)

(* No job's context ends, and where there are gates requests are approved   *)
(* or pending.                                                              *)
Judging == {"reject", "resolve_resume", "resolve_complete", "resolve_send_back", "resolve_abort"}
Unlost ==
    /\ \A e \in Workers : ~expired[e]
    /\ Gates # {} =>
         /\ \A q \in Reqs : hitl[q].status \in {"absent", "pending", "approved"}
         /\ \A c \in Clients : op[c] \notin Judging

(* A step of an executor that is not going to deal with the run.            *)
Aside(e) == /\ ~Drives(e)
            /\ status' = status /\ jobs' = jobs /\ hitl' = hitl /\ stepStatus' = stepStatus
Deals(e) == Drives(e)' \/ AtRest' \/ Awaited' \/ Aside(e)

LEMMA NoLoss ==
  ASSUME NothingLost
  PROVE  /\ ~Fault
         /\ \A e \in Workers : Unlost => ~Fails(e)
         /\ \A W : BestEffort(W) => W
         /\ \A W, e : Unlost /\ e \in Workers /\ Try(e, W) => W
BY DEF NothingLost, Fault, Spend, Fails, Unlost, BestEffort, Try

LEMMA LoadingDeals ==
  ASSUME NothingLost, Sound, Unlost, NEW e \in Workers,
         \/ Take(e) \/ RefuseByBreaker(e) \/ Load(e) \/ Start(e) \/ StoryRunning(e)
         \/ HardError(e) \/ PollPaused(e) \/ PollNext(e) \/ PollExpired(e) \/ PollEnd(e)
  PROVE  Deals(e)
<1> USE DEF Deals, Drives, AtRest, Departed, Goto
<1>1. pc \in [Workers -> Phases]
  BY DEF Sound, TypeOK, ExecTypeOK
<1>2. CASE Take(e)
  BY <1>1, <1>2 DEF Take, TakeJob, Phases
<1>3. CASE RefuseByBreaker(e)
  BY <1>3 DEF RefuseByBreaker, UpdateRunStatus, Terminal
<1>4. CASE Load(e)
  BY <1>1, <1>4 DEF Load
<1>5. CASE Start(e)
  BY <1>1, <1>5 DEF Start
<1>6. CASE StoryRunning(e)
  BY <1>1, <1>6 DEF StoryRunning
<1>7. CASE HardError(e)
  BY <1>7, NoLoss DEF HardError
<1>8. CASE PollPaused(e)
  BY <1>8 DEF PollPaused, NoWrite, storeVars
<1>9. CASE PollNext(e)
  BY <1>1, <1>9 DEF PollNext, Visit
<1>10. CASE PollExpired(e)
  BY <1>10 DEF PollExpired, Unlost
<1>11. CASE PollEnd(e)
  BY <1>1, <1>11 DEF PollEnd
<1> QED BY <1>2, <1>3, <1>4, <1>5, <1>6, <1>7, <1>8, <1>9, <1>10, <1>11

LEMMA BoundaryDeals ==
  ASSUME NothingLost, Sound, Unlost, NEW e \in Workers,
         \/ GatePass(e) \/ GateHeld(e) \/ GateMissing(e)
         \/ GateCreate(e) \/ GateAnchor(e) \/ GateRun(e)
         \/ Enter(e) \/ ParkMeta(e) \/ ParkRun(e) \/ ParkStory(e)
  PROVE  Deals(e)
<1> USE DEF Deals, Drives, AtRest, Departed, Goto
<1>1. pc \in [Workers -> Phases] /\ stage \in [Workers -> Stages \cup {0}]
  BY DEF Sound, TypeOK, ExecTypeOK
<1>2. CASE GatePass(e)
  BY <1>1, <1>2 DEF GatePass, AfterGate
<1>3. CASE GateHeld(e)
  <2>1. stage[e] \in Gates
    BY <1>1, <1>3 DEF GateHeld, NeedsGate, Gates
  <2>2. PICK q \in RequestsOf(prev[e]) : hitl[q].status # "approved"
    BY <1>3 DEF GateHeld
  <2>3. Pending(q) /\ q \in Reqs
    BY <2>1, <2>2 DEF RequestsOf, Unlost, Pending
  <2>4. hitl' = hitl
    BY <1>3 DEF GateHeld, NoWrite, storeVars
  <2> QED BY <2>1, <2>3, <2>4 DEF Awaited, Pending
<1>4. CASE GateMissing(e)
  BY <1>1, <1>4 DEF GateMissing
<1>5. CASE GateCreate(e)
  BY <1>1, <1>5 DEF GateCreate
<1>6. CASE GateAnchor(e)
  BY <1>1, <1>6 DEF GateAnchor
<1>7. CASE GateRun(e)
  BY <1>7 DEF GateRun, UpdateRunStatus
<1>8. CASE Enter(e)
  BY <1>1, <1>8 DEF Enter
<1>9. CASE ParkMeta(e)
  BY <1>1, <1>9 DEF ParkMeta
<1>10. CASE ParkRun(e)
  BY <1>10 DEF ParkRun, UpdateRunStatus
<1>11. CASE ParkStory(e)
  <2>1. UpdateStoryCurrentStage(CurStage(e))
    BY <1>11, NoLoss DEF ParkStory
  <2> QED BY <1>11, <2>1 DEF ParkStory, UpdateStoryCurrentStage, Aside
<1> QED BY <1>2, <1>3, <1>4, <1>5, <1>6, <1>7, <1>8, <1>9, <1>10, <1>11

LEMMA StepDeals ==
  ASSUME NothingLost, Sound, Unlost, NEW e \in Workers,
         \/ StartStep(e) \/ ActSucceeds(e) \/ ActFails(e)
         \/ ActRequest(e) \/ ActWait(e) \/ ActPause(e)
         \/ PersistMetadata(e) \/ RefetchSuspended(e) \/ Refetch(e)
         \/ CompleteStep(e) \/ CompleteFails(e)
  PROVE  Deals(e)
<1> USE DEF Deals, Drives, AtRest, Departed, Goto
<1>1. /\ pc \in [Workers -> Phases] /\ stepStatus \in [Rows -> StepStatus]
      /\ cur \in [Workers -> Rows \cup {0}]
  BY DEF Sound, TypeOK, ExecTypeOK, StoreTypeOK
<1>2. CASE StartStep(e)
  <2>1. CASE Goto(e, "fail_step")
    BY <1>1, <2>1
  <2>2. CASE UpdateRunStepStatus(cur[e], "running") /\ Goto(e, "act")
    <3>1. cur[e] \in Rows
      BY <1>1, <1>2 DEF StartStep, Sound, ViewsSound, WorkerSound, PhaseSound, InStep
    <3>2. pc'[e] = "act" /\ cur'[e] = cur[e] /\ stepStatus'[cur[e]] = "running"
      BY <1>1, <2>2, <3>1 DEF UpdateRunStepStatus
    <3> QED BY <3>2
  <2> QED BY <1>2, <2>1, <2>2 DEF StartStep
<1>3. CASE ActSucceeds(e) \/ PersistMetadata(e)
  <2>1. UNCHANGED <<status, jobs, hitl, stepStatus, cur>> /\ pc'[e] \in {"persist", "refetch"}
    BY <1>1, <1>3, NoLoss DEF ActSucceeds, PersistMetadata, NoWrite, storeVars, UpdateRunMetadata
  <2>2. pc[e] \in {"act", "persist"}
    BY <1>3 DEF ActSucceeds, PersistMetadata
  <2> QED BY <2>1, <2>2 DEF Aside
<1>4. CASE ActFails(e) \/ CompleteFails(e)
  BY <1>1, <1>4 DEF ActFails, CompleteFails
<1>5. CASE ActRequest(e)
  BY <1>1, <1>5 DEF ActRequest
<1>6. CASE ActWait(e)
  BY <1>1, <1>6 DEF ActWait
<1>7. CASE ActPause(e)
  BY <1>7 DEF ActPause, UpdateRunStatus
<1>8. CASE RefetchSuspended(e)
  BY <1>8 DEF RefetchSuspended, NoWrite, storeVars, Aside
<1>9. CASE Refetch(e)
  BY <1>1, <1>9 DEF Refetch
<1>10. CASE CompleteStep(e)
  BY <1>1, <1>10 DEF CompleteStep
<1> QED BY <1>2, <1>3, <1>4, <1>5, <1>6, <1>7, <1>8, <1>9, <1>10

LEMMA EndingDeals ==
  ASSUME NothingLost, Sound, Unlost, NEW e \in Workers,
         \/ HandleFailureStep(e) \/ HandleFailureRun(e) \/ StoryFailed(e)
         \/ HandleCancellationStep(e) \/ HandleCancellationRun(e) \/ StoryBacklog(e)
         \/ ClearStage(e) \/ Finish(e) \/ StoryDone(e)
  PROVE  Deals(e)
<1> USE DEF Deals, Drives, AtRest, Departed, Goto
<1>1. pc \in [Workers -> Phases]
  BY DEF Sound, TypeOK, ExecTypeOK
<1>2. CASE HandleFailureStep(e)
  BY <1>1, <1>2 DEF HandleFailureStep
<1>3. CASE HandleCancellationStep(e)
  BY <1>1, <1>3 DEF HandleCancellationStep
<1>4. CASE ClearStage(e)
  BY <1>1, <1>4 DEF ClearStage
<1>5. CASE HandleFailureRun(e) \/ HandleCancellationRun(e) \/ Finish(e)
  <2>1. \E s \in Terminal : UpdateRunStatus(s)
    BY <1>5, NoLoss DEF HandleFailureRun, HandleCancellationRun, Finish, Terminal
  <2> QED BY <2>1 DEF UpdateRunStatus
<1>6. CASE StoryFailed(e) \/ StoryBacklog(e) \/ StoryDone(e)
  <2>1. \E s : UpdateStory(s)
    BY <1>6, NoLoss DEF StoryFailed, StoryBacklog, StoryDone
  <2>2. pc[e] \in Departed
    BY <1>6 DEF StoryFailed, StoryBacklog, StoryDone
  <2> QED BY <2>1, <2>2 DEF UpdateStory, Aside
<1> QED BY <1>2, <1>3, <1>4, <1>5, <1>6

(* Executors ask, they do not judge; and a job's context ends only by Expire. *)
LEMMA WorkersAsk ==
  ASSUME StoreTypeOK, NEW e \in Workers, ExecuteRun(e)
  PROVE  /\ \A q \in Reqs : hitl'[q].status \in {hitl[q].status, "pending"}
         /\ expired' = expired \/ expired' = [expired EXCEPT ![e] = FALSE]
<1>1. /\ \A r, g : CreateHITLRequest(r, g) =>
           \A q \in Reqs : hitl'[q].status \in {hitl[q].status, "pending"}
      /\ NoWrite => hitl' = hitl
      /\ \A r, s : UpdateRunStepStatus(r, s) => hitl' = hitl
      /\ \A s : UpdateRunStatus(s) \/ UpdateStory(s) \/ UpdateStoryCurrentStage(s)
                \/ UpdateRunMetadata(s) => hitl' = hitl
      /\ TakeJob => hitl' = hitl
  BY DEF StoreTypeOK, NoWrite, storeVars, UpdateRunStatus, UpdateRunMetadata,
         UpdateRunStepStatus, CreateHITLRequest, UpdateStory, UpdateStoryCurrentStage, TakeJob
<1>2. /\ Fault => hitl' = hitl
      /\ Fails(e) => hitl' = hitl
      /\ \A W : BestEffort(W) => W \/ hitl' = hitl
      /\ \A W : Try(e, W) => W \/ hitl' = hitl
  BY <1>1 DEF Fault, Fails, BestEffort, Try
<1>3. \A q \in Reqs : hitl'[q].status \in {hitl[q].status, "pending"}
  BY <1>1, <1>2 DEF ExecuteRun, Take, RefuseByBreaker, Load, Start, StoryRunning,
     HardError, PollPaused, PollNext, PollExpired, PollEnd, GatePass, GateHeld, GateMissing,
     GateCreate, GateAnchor, GateRun, Enter, ParkMeta, ParkRun, ParkStory, StartStep,
     ActSucceeds, ActFails, ActRequest, ActWait, ActPause, PersistMetadata, RefetchSuspended,
     Refetch, CompleteStep, CompleteFails, HandleFailureStep, HandleFailureRun, StoryFailed,
     HandleCancellationStep, HandleCancellationRun, StoryBacklog, ClearStage, Finish, StoryDone
<1>4. expired' = expired \/ expired' = [expired EXCEPT ![e] = FALSE]
  BY DEF ExecuteRun, Take, RefuseByBreaker, Load, Start, StoryRunning, Goto, Return, Visit,
     HardError, PollPaused, PollNext, PollExpired, PollEnd, GatePass, GateHeld, GateMissing,
     GateCreate, GateAnchor, GateRun, Enter, ParkMeta, ParkRun, ParkStory, StartStep,
     ActSucceeds, ActFails, ActRequest, ActWait, ActPause, PersistMetadata, RefetchSuspended,
     Refetch, CompleteStep, CompleteFails, HandleFailureStep, HandleFailureRun, StoryFailed,
     HandleCancellationStep, HandleCancellationRun, StoryBacklog, ClearStage, Finish, StoryDone
<1> QED BY <1>3, <1>4

LEMMA WorkersKeepDriven ==
  ASSUME NothingLost, Sound, Unlost, Driven, NEW e \in Workers,
         ExecuteRun(e) \/ Expire(e), UNCHANGED sessionVars
  PROVE  Driven' /\ Unlost'
<1>1. ~Expire(e)
  BY DEF NothingLost, Expire, Spend
<1>2. Deals(e)
  BY <1>1, LoadingDeals, BoundaryDeals, StepDeals, EndingDeals DEF ExecuteRun
<1>3. Driven'
  <2>1. CASE Drives(e)' \/ AtRest' \/ Awaited'
    BY <2>1 DEF Driven
  <2>2. CASE Aside(e)
    <3>1. ASSUME NEW f \in Workers, Drives(f) PROVE Drives(f)'
      <4>1. f # e
        BY <2>2, <3>1 DEF Aside
      <4>2. pc'[f] = pc[f] /\ cur'[f] = cur[f]
        BY <4>1, WorkerProgress DEF Progress, WorkerMoves, Keeps
      <4> QED BY <2>2, <3>1, <4>2 DEF Drives, Aside
    <3>2. (AtRest => AtRest') /\ jobs' = jobs /\ (Awaited => Awaited')
      BY <2>2 DEF Aside, AtRest, Awaited, Pending
    <3>3. \A c \in Clients : HandsOn(c) => HandsOn(c)'
      BY DEF HandsOn, sessionVars
    <3> QED BY <3>1, <3>2, <3>3 DEF Driven
  <2> QED BY <1>2, <2>1, <2>2 DEF Deals
<1>4. Unlost'
  <2>1. /\ \A q \in Reqs : hitl'[q].status \in {hitl[q].status, "pending"}
        /\ expired' = expired \/ expired' = [expired EXCEPT ![e] = FALSE]
    BY <1>1, WorkersAsk DEF Sound, TypeOK
  <2>2. \A f \in Workers : ~expired'[f]
    BY <2>1 DEF Unlost, Sound, TypeOK, ExecTypeOK
  <2> QED BY <2>1, <2>2 DEF Unlost, sessionVars
<1> QED BY <1>3, <1>4

(* What a call's step makes of the run: the call hands it on, it comes to   *)
(* rest, or it is left as it is, with no row newly waiting and, where there *)
(* are gates, no request judged.                                            *)
Beside(c) ==
    /\ status' = status /\ (jobs' = jobs \/ jobs' > 0)
    /\ HandsOn(c) => jobs' > 0
    /\ \A r \in Rows : stepStatus'[r] = "waiting_approval" => stepStatus[r] = "waiting_approval"
    /\ Awaited => Awaited'
CallDeals(c) ==
    /\ HandsOn(c)' \/ AtRest' \/ Beside(c)
    /\ \A d \in Clients : d # c => op'[d] = op[d]
    /\ Gates # {} => op'[c] \notin Judging
    /\ Gates # {} => \A q \in Reqs : hitl'[q].status \in {hitl[q].status, "pending", "approved"}

LEMMA SharedDeals ==
  ASSUME NothingLost, Sound, Unlost, NEW c \in Clients, SharedStep(c)
  PROVE  CallDeals(c)
<1>1. op \in [Clients -> SessionStep] /\ jobs \in Nat /\ stepStatus \in [Rows -> StepStatus]
  BY DEF Sound, TypeOK, SessionTypeOK, StoreTypeOK
<1>2. CASE SetPaused(c) \/ FailRun(c)
  <2>1. (UpdateRunStatus("paused") \/ UpdateRunStatus("failed")) /\ End(c)
    BY <1>2, NoLoss DEF SetPaused, FailRun
  <2> QED BY <1>1, <2>1 DEF UpdateRunStatus, End, CallDeals, AtRest, Terminal, Judging
<1>3. CASE SetRunning(c)
  <2>1. UpdateRunStatus("running") /\ Then(c, "enqueue")
    BY <1>3, NoLoss DEF SetRunning
  <2> QED BY <1>1, <2>1 DEF UpdateRunStatus, Then, CallDeals, HandsOn, Judging
<1>4. CASE Enqueue(c)
  <2>1. EnqueueExecuteRun /\ End(c)
    BY <1>4, NoLoss DEF Enqueue
  <2> QED BY <1>1, <2>1 DEF EnqueueExecuteRun, End, CallDeals, Beside, Judging, Awaited, Pending
<1>5. CASE FailStep(c)
  <2>1. UpdateRunStepStatus(arg[c], "failed") /\ Then(c, "fail_run") /\ ~HandsOn(c)
    BY <1>5, NoLoss DEF FailStep, HandsOn
  <2> QED BY <1>1, <2>1 DEF UpdateRunStepStatus, Then, CallDeals, Beside, Judging, Awaited, Pending
<1> QED BY <1>2, <1>3, <1>4, <1>5 DEF SharedStep

LEMMA PlainDeals ==
  ASSUME NEW c \in Clients, ~HandsOn(c), NoWrite, op'[c] \notin Judging,
         \A d \in Clients : d # c => op'[d] = op[d]
  PROVE  CallDeals(c)
BY DEF NoWrite, storeVars, CallDeals, Beside, Awaited, Pending

LEMMA RunServiceDeals ==
  ASSUME NothingLost, Sound, Unlost, NEW c \in Clients, RunServiceStep(c)
  PROVE  CallDeals(c)
<1>1. op \in [Clients -> SessionStep] /\ jobs \in Nat /\ stepStatus \in [Rows -> StepStatus]
  BY DEF Sound, TypeOK, SessionTypeOK, StoreTypeOK
<1>2. CASE PauseRun(c) \/ ResumeRun(c) \/ StartStage(c) \/ CancelRun(c) \/ RetryStep(c)
  <2>1. op[c] = "idle" /\ NoWrite
        /\ \E s \in {"set_paused", "set_running", "start_meta", "cancel_list", "retry_check"} :
             op' = [op EXCEPT ![c] = s]
    BY <1>2 DEF PauseRun, ResumeRun, StartStage, CancelRun, RetryStep, Begin
  <2>2. ~HandsOn(c) /\ op'[c] \notin Judging /\ \A d \in Clients : d # c => op'[d] = op[d]
    BY <1>1, <2>1 DEF HandsOn, Judging
  <2> QED BY <2>1, <2>2, PlainDeals
<1>3. CASE StartStageMetadata(c)
  <2>1. UpdateRunMetadataGo(snap[c]) /\ Then(c, "set_running") /\ ~HandsOn(c)
    BY <1>3, NoLoss DEF StartStageMetadata, HandsOn
  <2> QED BY <1>1, <2>1 DEF UpdateRunMetadataGo, Then, CallDeals, Beside, Judging, Awaited, Pending
<1>4. CASE CancelRunList(c)
  BY <1>1, <1>4, PlainDeals DEF CancelRunList, HandsOn, Judging
<1>5. CASE CancelRunStep(c)
  <2>1. PICK r : UpdateRunStepStatus(r, "cancelled") /\ op' = op
    BY <1>5, NoLoss DEF CancelRunStep, CancelListed
  <2>2. op[c] = "cancel_steps"
    BY <1>5 DEF CancelRunStep
  <2> QED BY <1>1, <2>1, <2>2
          DEF UpdateRunStepStatus, CallDeals, Beside, HandsOn, Judging, Awaited, Pending
<1>6. CASE CancelRunWrite(c)
  <2>1. UpdateRunStatus("cancelled") /\ Then(c, "cancel_story")
    BY <1>6, NoLoss DEF CancelRunWrite
  <2> QED BY <1>1, <2>1 DEF UpdateRunStatus, Then, CallDeals, AtRest, Terminal, Judging
<1>7. CASE TransitionStoryToBacklog(c)
  <2>1. UpdateStory("backlog") /\ End(c) /\ ~HandsOn(c)
    BY <1>7, NoLoss DEF TransitionStoryToBacklog, HandsOn
  <2> QED BY <1>1, <2>1 DEF UpdateStory, End, CallDeals, Beside, Judging, Awaited, Pending
<1>8. CASE RetryStepCheck(c)
  <2>1. NoWrite /\ ~HandsOn(c) /\ (Then(c, "retry_create") \/ End(c))
    BY <1>8 DEF RetryStepCheck, HandsOn
  <2> QED BY <1>1, <2>1, PlainDeals DEF Then, End, Judging
<1>9. CASE RetryStepCreate(c)
  <2>1. /\ CreateRetryRunStep(stepOrder[arg[c]]) /\ ~HandsOn(c)
        /\ Then(c, "set_running") \/ Then(c, "enqueue")
    BY <1>9, NoLoss DEF RetryStepCreate, HandsOn
  <2>2. \A r \in Rows : stepStatus'[r] \in {stepStatus[r], "pending"}
    BY <1>1, <2>1 DEF CreateRetryRunStep
  <2> QED BY <1>1, <2>1, <2>2
          DEF CreateRetryRunStep, Then, CallDeals, Beside, Judging, Awaited, Pending
<1> QED BY <1>2, <1>3, <1>4, <1>5, <1>6, <1>7, <1>8, <1>9 DEF RunServiceStep

LEMMA HITLServiceDeals ==
  ASSUME NothingLost, Sound, Unlost, NEW c \in Clients, HITLServiceStep(c)
  PROVE  CallDeals(c)
<1>1. /\ op \in [Clients -> SessionStep] /\ jobs \in Nat /\ stepStatus \in [Rows -> StepStatus]
      /\ \A q \in Reqs : hitl[q].status \in HITLStatus
      /\ SessionSound(c)
  BY DEF Sound, TypeOK, ViewsSound, SessionTypeOK, StoreTypeOK
<1>2. op[c] \in Judging => Gates = {}
  BY DEF Unlost
<1>3. CASE Approve(c) \/ WatchdogBreach(c)
  <2>1. op[c] = "idle" /\ NoWrite
        /\ \E s \in {"approve", "halt_check", "fail_step"} : op' = [op EXCEPT ![c] = s]
    BY <1>3 DEF Approve, WatchdogBreach, Begin
  <2>2. ~HandsOn(c) /\ op'[c] \notin Judging /\ \A d \in Clients : d # c => op'[d] = op[d]
    BY <1>1, <2>1 DEF HandsOn, Judging
  <2> QED BY <2>1, <2>2, PlainDeals
<1>4. CASE Reject(c) \/ Resolve(c)
  <2>1. op[c] = "idle" /\ NoWrite /\ (\E s : op' = [op EXCEPT ![c] = s])
        /\ ("reject" \in Ops \/ "resolve" \in Ops)
    BY <1>4 DEF Reject, Resolve, Begin, Spend
  <2>2. Gates = {}
    BY <2>1 DEF NothingLost
  <2> QED BY <1>1, <2>1, <2>2 DEF NoWrite, storeVars, HandsOn, Awaited, CallDeals, Beside
<1>5. CASE ApproveWrite(c)
  <2>1. UpdateHITLRequestStatus(arg[c], "approved") /\ ThenOn(c, "complete_step", hitl[arg[c]].row)
    BY <1>5, NoLoss DEF ApproveWrite
  <2>2. HandsOn(c)' /\ op'[c] \notin Judging /\ \A d \in Clients : d # c => op'[d] = op[d]
    BY <1>1, <2>1 DEF ThenOn, HandsOn, Judging
  <2>3. \A q \in Reqs : hitl'[q].status \in {hitl[q].status, "approved"}
    BY <2>1 DEF UpdateHITLRequestStatus, Sound, TypeOK, StoreTypeOK
  <2> QED BY <2>2, <2>3 DEF CallDeals
<1>6. CASE CompleteGateStep(c) \/ ResumeRead(c) \/ ResumeWrite(c)
  <2>1. hitl' = hitl /\ \E s \in {"resume_read", "hitl_running", "enqueue"} :
                          op' = [op EXCEPT ![c] = s]
    BY <1>6, NoLoss DEF CompleteGateStep, ResumeRead, ReadRun, ResumeWrite, Then,
       UpdateRunStepStatus, UpdateRunStatus, NoWrite, storeVars
  <2> QED BY <1>1, <2>1 DEF CallDeals, HandsOn, Judging
<1>7. CASE RejectWrite(c) \/ ResolveWrite(c)
  <2>1. /\ op[c] \in Judging
        /\ \E s : UpdateHITLRequestStatus(arg[c], s)
        /\ \E s, a : ThenOn(c, s, a)
    BY <1>7, NoLoss DEF RejectWrite, ResolveWrite, Judging
  <2>2. Gates = {} /\ ~HandsOn(c)
    BY <1>2, <2>1 DEF Judging, HandsOn
  <2> QED BY <1>1, <2>1, <2>2
          DEF UpdateHITLRequestStatus, ThenOn, CallDeals, Beside, Awaited
<1>8. CASE RejectStep(c) \/ SendBackStep(c)
  <2>1. /\ UpdateRunStepStatus(arg[c], "failed") \/ UpdateRunStepStatus(arg[c], "cancelled")
        /\ End(c) /\ ~HandsOn(c)
    BY <1>8, NoLoss DEF RejectStep, SendBackStep, HandsOn
  <2> QED BY <1>1, <2>1
          DEF UpdateRunStepStatus, End, CallDeals, Beside, Judging, Awaited, Pending
<1>9. CASE RaiseProbeHaltCheck(c) \/ RaiseProbeHaltRead(c)
  <2>1. NoWrite /\ ~HandsOn(c)
        /\ \E s \in {"idle", "halt_read", "halt_create"} : op' = [op EXCEPT ![c] = s]
    BY <1>9 DEF RaiseProbeHaltCheck, RaiseProbeHaltRead, ReadRun, Then, End, HandsOn
  <2> QED BY <1>1, <2>1, PlainDeals DEF Judging
<1>10. CASE RaiseProbeHaltCreate(c)
  <2>1. /\ CreateHITLRequest(arg[c], "probe_halt") /\ ~HandsOn(c)
        /\ \E s \in {"set_paused", "idle"} : op' = [op EXCEPT ![c] = s]
    BY <1>10, NoLoss DEF RaiseProbeHaltCreate, Then, End, HandsOn
  <2>2. \A q \in Reqs : hitl'[q].status \in {hitl[q].status, "pending"}
    BY <2>1 DEF CreateHITLRequest, Sound, TypeOK, StoreTypeOK
  <2>3. Awaited => Awaited'
    BY <2>2 DEF Awaited, Pending
  <2> QED BY <1>1, <2>1, <2>2, <2>3 DEF CreateHITLRequest, CallDeals, Beside, Judging
<1> QED BY <1>3, <1>4, <1>5, <1>6, <1>7, <1>8, <1>9, <1>10 DEF HITLServiceStep

LEMMA CallsKeepDriven ==
  ASSUME NothingLost, Sound, Unlost, Driven, NEW c \in Clients,
         SharedStep(c) \/ RunServiceStep(c) \/ HITLServiceStep(c), UNCHANGED execVars
  PROVE  Driven' /\ Unlost'
<1>1. CallDeals(c)
  BY SharedDeals, RunServiceDeals, HITLServiceDeals
<1>2. HandsOn(c)' \/ AtRest' => Driven'
  BY DEF Driven
<1>3. ASSUME Beside(c) PROVE Driven'
  <2>1. CASE AtRest
    BY <1>3, <2>1 DEF Beside, AtRest, Driven
  <2>2. CASE jobs > 0 \/ HandsOn(c)
    BY <1>3, <2>2 DEF Beside, Driven
  <2>3. CASE Awaited
    BY <1>3, <2>3 DEF Beside, Driven
  <2>4. ASSUME NEW e \in Workers, Drives(e) PROVE Drives(e)'
    <3>1. pc' = pc /\ cur' = cur
      BY DEF execVars
    <3>2. pc[e] \in {"act", "persist", "refetch"} => cur[e] \in Rows
      BY DEF Sound, TypeOK, ExecTypeOK, ViewsSound, WorkerSound, PhaseSound, InStep
    <3> QED BY <1>3, <2>4, <3>1, <3>2 DEF Beside, Drives
  <2>5. ASSUME NEW d \in Clients, d # c, HandsOn(d) PROVE HandsOn(d)'
    BY <1>1, <2>5 DEF CallDeals, HandsOn
  <2> QED BY <2>1, <2>2, <2>3, <2>4, <2>5 DEF Driven
<1>4. Unlost'
  <2>1. expired' = expired
    BY DEF execVars
  <2>2. Gates # {} => \A d \in Clients : op'[d] \notin Judging
    BY <1>1 DEF CallDeals, Unlost
  <2> QED BY <1>1, <2>1, <2>2 DEF CallDeals, Unlost
<1> QED BY <1>1, <1>2, <1>3, <1>4 DEF CallDeals

LEMMA InitDriven ==
  ASSUME NothingLost, Init
  PROVE  Driven /\ Unlost
<1>1. jobs > 0
  BY StepsAssumption DEF NothingLost, Init, StoreInit
<1>2. Unlost
  BY DEF Init, StoreInit, ExecInit, SessionInit, Unlost, NoRequest, Judging
<1> QED BY <1>1, <1>2 DEF Driven

LEMMA NextKeepsDriven ==
  ASSUME NothingLost, Sound, Unlost, Driven, [Next]_vars
  PROVE  Driven' /\ Unlost'
<1>1. CASE ExecutorNext
  BY <1>1, WorkersKeepDriven DEF ExecutorNext
<1>2. CASE SessionNext
  BY <1>2, CallsKeepDriven DEF SessionNext
<1>3. ~Crash
  BY DEF NothingLost, Crash, Spend
<1>4. CASE UNCHANGED vars
  <2>1. UNCHANGED <<status, jobs, hitl, stepStatus, pc, cur, expired, op>>
    BY <1>4 DEF vars, storeVars, execVars, sessionVars
  <2> QED BY <2>1 DEF Driven, Unlost, AtRest, Awaited, Drives, HandsOn, Pending
<1> QED BY <1>1, <1>2, <1>3, <1>4 DEF Next

(* A run on which nothing is in progress is over, paused, or waiting for a  *)
(* decision, as long as nothing is lost: any number of executors and calls  *)
(* may pause, resume, cancel, retry, halt, breach and decide at once        *)
(* (ExecuteRun and every handler that writes runs.status).                  *)
THEOREM RunIsNotStranded ==
  ASSUME NothingLost
  PROVE  Spec => []NotStranded
<1>1. Init => Driven /\ Unlost
  BY InitDriven
<1>2. Sound /\ Driven /\ Unlost /\ [Next]_vars => (Driven /\ Unlost)'
  BY NextKeepsDriven
<1>3. Driven => NotStranded
  BY DEF Driven, NotStranded, Quiescent, Drives, Departed, HandsOn, AtRest, Awaited, Pending
<1> QED BY <1>1, <1>2, <1>3, RunViewsSound, PTL DEF Spec, Sound
=============================================================================
