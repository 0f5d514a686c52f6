----------------------------- MODULE CycleSearch -----------------------------
(***************************************************************************)
(* The two graph algorithms of tasks_dependencies/queries.py, loop         *)
(* iteration by loop iteration: `cycle_path`, the breadth-first search     *)
(* that decides whether a proposed edge predecessor -> successor closes a  *)
(* cycle and reports the cycle, and `has_cycle`, Kahn's algorithm behind   *)
(* the readiness key dependency_graph_acyclic.  The second runs here on    *)
(* the graph with the proposed edge in it, so that the two can be compared.*)
(***************************************************************************)
EXTENDS Naturals, Sequences, FiniteSets

CONSTANTS Nodes, NoNode

ASSUME NodesAssumption == Nodes \subseteq Nat /\ IsFiniteSet(Nodes) /\ NoNode \notin Nodes

INSTANCE GraphRules

VARIABLES
  edges, predecessor, successor,   \* the arguments
  pc,
  queue, parent, cursor, path,     \* cycle_path
  indegree, ready, removed         \* has_cycle

vars == <<edges, predecessor, successor, pc, queue, parent, cursor, path,
          indegree, ready, removed>>

arguments == <<edges, predecessor, successor>>
kahn == <<indegree, ready, removed>>

Successors(E, n) == {e[2] : e \in {d \in E : d[1] = n}}

Rank(ids, n) == Cardinality({k \in ids : k <= n})

\* The ids of a set in the order of their text.
Sorted(ids) == [i \in 1 .. Cardinality(ids) |-> CHOOSE n \in ids : Rank(ids, n) = i]

-----------------------------------------------------------------------------
(* cycle_path *)

\* Mutant: a node is marked when it is taken, not when it is queued, so that a
\* later parent replaces the first.
ExpandLate ==
  /\ pc = "SEARCH" /\ queue # <<>> /\ Head(queue) # predecessor
  /\ LET node == Head(queue)
         next == Successors(edges, node) \ {successor}
     IN  /\ parent' = [n \in DOMAIN parent \cup next |->
                         IF n \in next THEN node ELSE parent[n]]
         /\ queue' = Tail(queue) \o Sorted(next \ DOMAIN parent)
  /\ UNCHANGED <<arguments, pc, cursor, path, kahn>>

Expand ==
  /\ pc = "SEARCH" /\ queue # <<>> /\ Head(queue) # predecessor
  /\ LET node == Head(queue)
         next == Successors(edges, node) \ DOMAIN parent
     IN  /\ parent' = [n \in DOMAIN parent \cup next |->
                         IF n \in next THEN node ELSE parent[n]]
         /\ queue' = Tail(queue) \o Sorted(next)
  /\ UNCHANGED <<arguments, pc, cursor, path, kahn>>

Reached ==
  /\ pc = "SEARCH" /\ queue # <<>> /\ Head(queue) = predecessor
  /\ pc' = "TRACE" /\ cursor' = predecessor
  /\ UNCHANGED <<arguments, queue, parent, path, kahn>>

Exhausted ==
  /\ pc = "SEARCH" /\ queue = <<>>
  /\ pc' = "ANSWERED"
  /\ UNCHANGED <<arguments, queue, parent, cursor, path, kahn>>

\* The path back to the successor, and the predecessor in front of it.
Trace ==
  /\ pc = "TRACE"
  /\ IF cursor # NoNode
     THEN /\ path' = <<cursor>> \o path /\ cursor' = parent[cursor]
          /\ UNCHANGED pc
     ELSE /\ path' = <<predecessor>> \o path /\ pc' = "ANSWERED"
          /\ UNCHANGED cursor
  /\ UNCHANGED <<arguments, queue, parent, kahn>>

-----------------------------------------------------------------------------
(* has_cycle *)

Proposed == edges \cup {<<predecessor, successor>>}

Touched == UNION {{e[1], e[2]} : e \in Proposed}

\* Mutant: the wrong end of each edge is counted.
CountOutdegrees ==
  /\ pc = "ANSWERED"
  /\ pc' = "KAHN"
  /\ indegree' = [n \in Touched |-> Cardinality({e \in Proposed : e[1] = n})]
  /\ ready' = {n \in Touched : \A e \in Proposed : e[1] # n}
  /\ UNCHANGED <<arguments, queue, parent, cursor, path, removed>>

CountIndegrees ==
  /\ pc = "ANSWERED"
  /\ pc' = "KAHN"
  /\ indegree' = [n \in Touched |-> Cardinality({e \in Proposed : e[2] = n})]
  /\ ready' = {n \in Touched : \A e \in Proposed : e[2] # n}
  /\ UNCHANGED <<arguments, queue, parent, cursor, path, removed>>

RemoveNode(n) ==
  /\ pc = "KAHN" /\ n \in ready
  /\ indegree' = [x \in Touched |->
                    IF x \in Successors(Proposed, n) THEN indegree[x] - 1 ELSE indegree[x]]
  /\ ready' = (ready \ {n}) \cup {x \in Successors(Proposed, n) : indegree'[x] = 0}
  /\ removed' = removed \cup {n}
  /\ UNCHANGED <<arguments, pc, queue, parent, cursor, path>>

\* Mutant: the loop waits for every node to be removed.
FinishWhenAllRemoved ==
  /\ pc = "KAHN" /\ removed = Touched
  /\ pc' = "DONE"
  /\ UNCHANGED <<arguments, queue, parent, cursor, path, kahn>>

Finish ==
  /\ pc = "KAHN" /\ ready = {}
  /\ pc' = "DONE"
  /\ UNCHANGED <<arguments, queue, parent, cursor, path, kahn>>

Init ==
  /\ edges \in SUBSET {e \in Nodes \X Nodes : e[1] # e[2]}
  /\ predecessor \in Nodes /\ successor \in Nodes
  /\ pc = "SEARCH"
  /\ queue = <<successor>> /\ parent = [n \in {successor} |-> NoNode]
  /\ cursor = NoNode /\ path = <<>>
  /\ indegree = <<>> /\ ready = {} /\ removed = {}

Next ==
  \/ Expand \/ Reached \/ Exhausted \/ Trace
  \/ CountIndegrees \/ (\E n \in Nodes : RemoveNode(n)) \/ Finish

Spec == Init /\ [][Next]_vars /\ WF_vars(Next)

-----------------------------------------------------------------------------
(* Properties *)

Answered == pc \in {"ANSWERED", "KAHN", "DONE"}

\* w is a walk of k edges from a to b.
Walk(w, k, a, b) ==
  /\ w[0] = a /\ w[k] = b
  /\ \A i \in 1 .. k : <<w[i - 1], w[i]>> \in edges

\* cycle_path answers with a path exactly when the new edge would close a
\* cycle, and the path is that cycle: a walk along the graph's edges from the
\* predecessor over the new edge and back, and a shortest one.
FindsShortestCycle ==
  Answered =>
    /\ path # <<>> <=> Reaches(edges, successor, predecessor)
    /\ path # <<>> =>
         /\ path[1] = predecessor /\ path[2] = successor /\ path[Len(path)] = predecessor
         /\ \A i \in 2..(Len(path) - 1) : <<path[i], path[i + 1]>> \in edges
         /\ \A k \in 0..(Len(path) - 3) :
              ~\E w \in [0..k -> Nodes] : Walk(w, k, successor, predecessor)

\* has_cycle agrees with the definition, and so with the check at write time:
\* over a graph that was acyclic it is true exactly when cycle_path found the
\* cycle.
ReadinessAgrees ==
  pc = "DONE" =>
    /\ removed # Touched <=> ~AcyclicGraph(Proposed)
    /\ AcyclicGraph(edges) => (removed # Touched <=> path # <<>>)

\* Both searches end, whatever the graph.
SearchesEnd == <>(pc = "DONE")
=============================================================================
