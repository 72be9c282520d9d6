------------------------------ MODULE Scheduler ------------------------------
(* SchedulerService: the stories of an epic in layers.  Stories are named   *)
(* by numbers in the order of their keys.                                   *)
EXTENDS Naturals, FiniteSets

(* The next larger story, if any, among those that touch the same file.     *)
Successor(s, S) == {t \in S : t > s /\ ~\E u \in S : s < u /\ u < t}

(* Mutant of AddFileConflictEdges. *)
FileConflictNextKeyOnly(files) ==
    {e \in (DOMAIN files) \X (DOMAIN files) :
       e[2] = e[1] + 1 /\ files[e[1]] \cap files[e[2]] # {}}

(* addFileConflictEdges: a chain through the stories of each file.  The     *)
(* edges form a set, so an edge that is there already is not counted twice. *)
AddFileConflictEdges(files) ==
    LET touching(f) == {s \in DOMAIN files : f \in files[s]} IN
    {e \in (DOMAIN files) \X (DOMAIN files) :
       \E f \in files[e[1]] : e[2] \in Successor(e[1], touching(f))}

DependsOnEdges(deps) == {e \in (DOMAIN deps) \X (DOMAIN deps) : e[1] \in deps[e[2]]}

Edges(deps, files) == DependsOnEdges(deps) \cup AddFileConflictEdges(files)

(* Kahn's layers: layer i + 1 holds the stories whose predecessors all lie  *)
(* in earlier layers.                                                       *)
ZeroInDegree(todo, edges) == {s \in todo : ~\E p \in todo : <<p, s>> \in edges}

Remaining(all, edges) ==
    LET rest[i \in 0..Cardinality(all)] ==
          IF i = 0 THEN all ELSE rest[i - 1] \ ZeroInDegree(rest[i - 1], edges)
    IN rest

Cycle == "DAG_CYCLE_DETECTED"

(* Mutant of BuildDAG. *)
BuildDAGLastLayer(deps, files) ==
    LET all == DOMAIN deps
        rest == Remaining(all, Edges(deps, files))
    IN [layer |-> [s \in all |-> CHOOSE i \in 0..Cardinality(all) :
                     i = Cardinality(all) \/ s \in rest[i] \ rest[i + 1]]]

(* The layer of each story, or the error when stories are left of which     *)
(* none has in-degree zero.                                                 *)
BuildDAG(deps, files) ==
    LET all == DOMAIN deps
        rest == Remaining(all, Edges(deps, files))
    IN IF rest[Cardinality(all)] # {}
       THEN [error |-> Cycle]
       ELSE [layer |-> [s \in all |-> CHOOSE i \in 0..(Cardinality(all) - 1) :
                                        s \in rest[i] \ rest[i + 1]]]
=============================================================================
