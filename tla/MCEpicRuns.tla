----------------------------- MODULE MCEpicRuns -----------------------------
(* Epics of three stories.                                                  *)
EXTENDS EpicRuns, TLC

NoOps == [epic |-> FALSE, launch |-> 0, pause |-> 0, resume |-> 0, retry |-> 0, cancel |-> 0]

Plan == [deps |-> (1 :> {} @@ 2 :> {} @@ 3 :> {1}), files |-> (1 :> {"f"} @@ 2 :> {"g"} @@ 3 :> {"g"}),
         config |-> "ok", gated |-> {}, fails |-> {}, refused |-> FALSE, polite |-> TRUE,
         ops |-> [NoOps EXCEPT !.epic = TRUE]]

(* Every shape of an epic over two files, one dependency unknown.           *)
Shapes ==
    {[Plan EXCEPT !.deps = d, !.files = f, !.ops = NoOps] :
       d \in [Stories -> SUBSET Stories], f \in [Stories -> SUBSET {"f", "g"}]}

MCPlans ==
    {p \in Shapes : \A s \in Stories : Cardinality(p.deps[s]) <= 1} \cup
    {[Plan EXCEPT !.fails = {1}, !.gated = {2}],
     [Plan EXCEPT !.deps[1] = {9}, !.gated = {1}, !.ops.resume = 1],
     [Plan EXCEPT !.ops.launch = 1, !.ops.pause = 1],
     [Plan EXCEPT !.fails = {2}, !.ops.retry = 1, !.polite = FALSE],
     [Plan EXCEPT !.config = "missing"],
     [Plan EXCEPT !.refused = TRUE],
     [Plan EXCEPT !.ops = [NoOps EXCEPT !.launch = 2, !.pause = 1, !.resume = 2], !.gated = {1}],
     [Plan EXCEPT !.ops = [NoOps EXCEPT !.launch = 2, !.cancel = 1], !.polite = FALSE]}

(* Story 1 needs an approval, story 2 edits the same file one layer later.  *)
MCGated == {[Plan EXCEPT !.files[2] = {"f"}, !.gated = {1}, !.ops.resume = 1]}
=============================================================================
