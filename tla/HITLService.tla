---------------------------- MODULE HITLService -----------------------------
(***************************************************************************)
(* Human decisions on HITL requests (Approve, Reject, Resolve) and the     *)
(* watchdog, which parks (RaiseProbeHalt) or fails a running step.         *)
(***************************************************************************)
EXTENDS Handlers

(* Mutant: a decided request is accepted again. *)
PendingOrDecided(q) == hitl[q].status # "absent"

Pending(q) == hitl[q].status = "pending"

(* Approve does not look at the kind of gate. *)
Approve(c) == \E q \in Reqs : Pending(q) /\ Begin(c, "approve", "approve", q)

ApproveWrite(c) ==
    /\ op[c] = "approve"
    /\ \/ /\ UpdateHITLRequestStatus(arg[c], "approved")
          /\ ThenOn(c, "complete_step", hitl[arg[c]].row)
          /\ UNCHANGED budget
       \/ Fault /\ End(c)

(* The gate step is completed so that the resumed executor skips it; an    *)
(* error is logged and the run is resumed all the same.                    *)
CompleteGateStep(c) ==
    /\ op[c] = "complete_step"
    /\ BestEffort(UpdateRunStepStatus(arg[c], "completed"))
    /\ Then(c, "resume_read")

(* resumeRun: a paused run becomes running; execution is enqueued in any   *)
(* case.                                                                   *)
ResumeRead(c) == op[c] = "resume_read" /\ ReadRun(c, "hitl_running")

ResumeWrite(c) ==
    /\ op[c] = "hitl_running"
    /\ IF saw[c] = "paused"
         THEN BestEffort(UpdateRunStatus("running"))
         ELSE NoWrite /\ UNCHANGED budget
    /\ Then(c, "enqueue")

-----------------------------------------------------------------------------
Reject(c) == \E q \in Reqs : Pending(q) /\ Begin(c, "reject", "reject", q)

RejectWrite(c) ==
    /\ op[c] = "reject"
    /\ \/ /\ UpdateHITLRequestStatus(arg[c], "rejected")
          /\ ThenOn(c, "reject_step", hitl[arg[c]].row)
          /\ UNCHANGED budget
       \/ Fault /\ End(c)

(* The step fails; the run is left as it is. *)
RejectStep(c) ==
    /\ op[c] = "reject_step"
    /\ BestEffort(UpdateRunStepStatus(arg[c], "failed"))
    /\ End(c)

-----------------------------------------------------------------------------
(* Resolve closes a probe halt: resume, override or skip (the same writes), *)
(* send_back, abort.                                                       *)
Resolve(c) ==
    \E q \in Reqs :
      /\ hitl[q].gate = "probe_halt"
      /\ Pending(q)
      /\ \E step \in {"resolve_resume", "resolve_complete",
                      "resolve_send_back", "resolve_abort"} :
           Begin(c, "resolve", step, q)

AfterResolve(step) ==
    CASE step = "resolve_resume"    -> "resume_read"
      [] step = "resolve_complete"  -> "complete_step"
      [] step = "resolve_send_back" -> "send_back_step"
      [] step = "resolve_abort"     -> "fail_step"

ResolveWrite(c) ==
    /\ op[c] \in {"resolve_resume", "resolve_complete",
                  "resolve_send_back", "resolve_abort"}
    /\ \/ /\ UpdateHITLRequestStatus(arg[c], "resolved")
          /\ ThenOn(c, AfterResolve(op[c]), hitl[arg[c]].row)
          /\ UNCHANGED budget
       \/ Fault /\ End(c)

SendBackStep(c) ==
    /\ op[c] = "send_back_step"
    /\ BestEffort(UpdateRunStepStatus(arg[c], "cancelled"))
    /\ End(c)

-----------------------------------------------------------------------------
(* The watchdog lists the running steps of running runs and acts on the    *)
(* breached ones: a halt-gate guard raises a probe halt, a fail or retry   *)
(* guard fails the step and the run.                                       *)
WatchdogBreach(c) ==
    /\ status = "running"
    /\ \E r \in Rows :
         /\ Exists(r)
         /\ stepStatus[r] = "running"
         /\ \/ Begin(c, "halt", "halt_check", r)
            \/ Begin(c, "breach", "fail_step", r)

(* A pending request on the step, if that is the one the query returns,    *)
(* makes the halt a no-op.                                                 *)
RaiseProbeHaltCheck(c) ==
    /\ op[c] = "halt_check"
    /\ \/ /\ \E q \in RequestsOf(arg[c]) : Pending(q)
          /\ End(c)
       \/ /\ \/ RequestsOf(arg[c]) = {}
             \/ \E q \in RequestsOf(arg[c]) : ~Pending(q)
          /\ Then(c, "halt_read")
    /\ NoWrite
    /\ UNCHANGED budget

RaiseProbeHaltRead(c) == op[c] = "halt_read" /\ ReadRun(c, "halt_create")

RaiseProbeHaltCreate(c) ==
    /\ op[c] = "halt_create"
    /\ \/ /\ CreateHITLRequest(arg[c], "probe_halt")
          /\ IF saw[c] = "running" THEN Then(c, "set_paused") ELSE End(c)
          /\ UNCHANGED budget
       \/ Fault /\ End(c)

HITLServiceStep(c) ==
    \/ Approve(c) \/ ApproveWrite(c) \/ CompleteGateStep(c)
    \/ ResumeRead(c) \/ ResumeWrite(c)
    \/ Reject(c) \/ RejectWrite(c) \/ RejectStep(c)
    \/ Resolve(c) \/ ResolveWrite(c) \/ SendBackStep(c)
    \/ WatchdogBreach(c) \/ RaiseProbeHaltCheck(c) \/ RaiseProbeHaltRead(c)
    \/ RaiseProbeHaltCreate(c)
=============================================================================
