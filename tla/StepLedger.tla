----------------------------- MODULE StepLedger -----------------------------
(***************************************************************************)
(* What a run promises, whoever executes it and however often it is        *)
(* interrupted: its steps are ticked off one after another, never one      *)
(* before those in front of it, never taken back, and the run is declared  *)
(* completed only when all are ticked.  Nothing is promised about the      *)
(* other statuses: pauses, failures and cancellations come and go.         *)
(***************************************************************************)
EXTENDS Integers

CONSTANTS NumSteps, Statuses

VARIABLES ticked, outcome

ledger == <<ticked, outcome>>

Init == ticked = {} /\ outcome = "pending"

Tick(k) ==
    /\ k \notin ticked
    /\ 1..(k - 1) \subseteq ticked
    /\ ticked' = ticked \cup {k}
    /\ UNCHANGED outcome

Declare(s) ==
    /\ s = "completed" => ticked = 1..NumSteps
    /\ outcome' = s
    /\ UNCHANGED ticked

Next == (\E k \in 1..NumSteps : Tick(k)) \/ (\E s \in Statuses : Declare(s))

Spec == Init /\ [][Next]_ledger
=============================================================================
