------------------------------ MODULE MCAgents ------------------------------
(* Scenarios for TLC.  "Full" has a sidecar, setup commands and an isolated *)
(* network; the others launch the agent at once.                            *)
EXTENDS AgentSystem

Scenario(full, mode, faults0, ops0, allowed, clock) ==
    [services |-> full, commands |-> full, isolate |-> full, mode |-> mode,
     faults |-> faults0, ops |-> ops0, allowed |-> allowed, clock |-> clock]

MCExecs == 1..2

MCScenarios ==
    {Scenario(TRUE, "callback", 1, 0, {}, 2),
     Scenario(TRUE, "callback", 0, 1, {"expire", "cancel", "crash"}, 2),
     Scenario(TRUE, "callback", 0, 2, {"halt", "resume"}, 0),
     Scenario(TRUE, "callback", 0, 1, {"retry"}, 1),
     Scenario(FALSE, "callback", 1, 1, {"crash"}, 3),
     Scenario(FALSE, "legacy", 1, 1, {"crash", "cancel", "expire"}, 3)}
=============================================================================
