---------------------------- MODULE DependencyGraph ----------------------------
(***************************************************************************)
(* The writes of one Event's dependency graph: Task dependencies and       *)
(* Milestone gates added and removed, Milestones created with their        *)
(* contributions and gates, workbooks accepted with their predecessors.    *)
(* Every one is a transaction under READ COMMITTED that takes the Event's  *)
(* advisory lock (lock_event_dependency_graph) somewhere on its way, and   *)
(* the program's claim is that no interleaving of them commits a cycle.    *)
(*                                                                         *)
(* An edge <<a, b>> says that b waits for a: Task -> Task, Milestone ->    *)
(* Task (a gate) and Task -> Milestone (a required contribution; the       *)
(* others are no edges).  The strength plays no part in the cycle check.   *)
(* CycleSearch shows that the breadth-first search of `cycle_path` decides *)
(* Reaches.                                                                *)
(***************************************************************************)
EXTENDS FiniteSets

CONSTANTS
  Tasks, Milestones,
  Planned,       \* the Tasks that exist at first
  Txns, NoTxn

ASSUME GraphAssumption ==
  /\ Tasks \cap Milestones = {}
  /\ Planned \subseteq Tasks
  /\ NoTxn \notin Txns

VARIABLES
  nodes, edges,   \* committed
  graphLock,      \* holder of pg_advisory_xact_lock(dependency_graph:<event>)
  txn

vars == <<nodes, edges, graphLock, txn>>

Nodes == Tasks \cup Milestones

INSTANCE GraphRules

\* `new` are the rows a transaction creates, `given` the contributions it
\* writes unchecked, `todo` the edges it has still to check, `asked` those it
\* was asked for, `insert` and `delete` what it has flushed.
Txn ==
  [op : {"NONE", "ADD", "REMOVE", "CREATE", "IMPORT"}, new : SUBSET Nodes,
   given : SUBSET (Nodes \X Nodes), todo : SUBSET (Nodes \X Nodes),
   asked : SUBSET (Nodes \X Nodes), insert : SUBSET (Nodes \X Nodes),
   delete : SUBSET (Nodes \X Nodes)]

Idle ==
  [op |-> "NONE", new |-> {}, given |-> {}, todo |-> {}, asked |-> {},
   insert |-> {}, delete |-> {}]

-----------------------------------------------------------------------------
Begin(p, op, new, given, todo, delete) ==
  /\ txn[p] = Idle
  /\ txn' = [txn EXCEPT ![p] =
               [op |-> op, new |-> new, given |-> given, todo |-> todo,
                asked |-> todo, insert |-> {}, delete |-> delete]]
  /\ UNCHANGED <<nodes, edges, graphLock>>

\* Both ends are visible rows of the Event, read before the lock.
AddDependency(p, a, b) ==
  /\ a \in nodes /\ b \in nodes \cap Tasks /\ a # b
  /\ Begin(p, "ADD", {}, {}, {<<a, b>>}, {})

\* The edge's row is taken FOR UPDATE before the graph lock; whoever waits for
\* it finds it deleted.
RemoveDependency(p, e) ==
  /\ e \in edges /\ e[2] \in Tasks
  /\ \A q \in Txns : e \notin txn[q].delete
  /\ Begin(p, "REMOVE", {}, {}, {}, {e})

Unused(new) == \A q \in Txns : new \cap (nodes \cup txn[q].new) = {}

CreateMilestone(p, m, contributors, gated) ==
  /\ Unused({m})
  /\ Begin(p, "CREATE", {m}, contributors \X {m}, {m} \X gated, {})

\* Predecessors are resolved by title among the Tasks this workbook creates.
AcceptImport(p, new, predecessors) ==
  /\ new # {} /\ Unused(new)
  /\ Begin(p, "IMPORT", new, {}, predecessors, {})

TakeGraphLock(p) ==
  /\ txn[p].op # "NONE" /\ graphLock = NoTxn
  /\ graphLock' = p
  /\ txn' = [txn EXCEPT ![p].insert = @ \cup txn[p].given]
  /\ UNCHANGED <<nodes, edges>>

\* The live edges a statement of p sees: committed ones and its own.
Seen(p) == edges \cup txn[p].insert

\* Mutant: the check runs before the lock is taken.
LinkEdgeUnlocked(p, e) ==
  /\ e \in txn[p].todo
  /\ e \notin Seen(p) /\ ~Reaches(Seen(p), e[2], e[1])
  /\ txn' = [txn EXCEPT ![p].todo = @ \ {e}, ![p].insert = @ \cup {e}]
  /\ UNCHANGED <<nodes, edges, graphLock>>

LinkEdge(p, e) ==
  /\ graphLock = p /\ e \in txn[p].todo
  /\ e \notin Seen(p) /\ ~Reaches(Seen(p), e[2], e[1])
  /\ txn' = [txn EXCEPT ![p].todo = @ \ {e}, ![p].insert = @ \cup {e}]
  /\ UNCHANGED <<nodes, edges, graphLock>>

\* Mutant: an import also drops an edge whose ends are already connected.
SkipConnectedEdge(p, e) ==
  /\ graphLock = p /\ e \in txn[p].todo /\ txn[p].op = "IMPORT"
  /\ Reaches(Seen(p), e[2], e[1]) \/ Reaches(Seen(p), e[1], e[2])
  /\ txn' = [txn EXCEPT ![p].todo = @ \ {e}]
  /\ UNCHANGED <<nodes, edges, graphLock>>

\* An import leaves such an edge to a reviewer; the API refuses the request
\* and rolls it back, which is an Abort.
SkipEdge(p, e) ==
  /\ graphLock = p /\ e \in txn[p].todo /\ txn[p].op = "IMPORT"
  /\ e \in Seen(p) \/ Reaches(Seen(p), e[2], e[1])
  /\ txn' = [txn EXCEPT ![p].todo = @ \ {e}]
  /\ UNCHANGED <<nodes, edges, graphLock>>

End(p) ==
  /\ txn' = [txn EXCEPT ![p] = Idle]
  /\ graphLock' = IF graphLock = p THEN NoTxn ELSE graphLock

\* A workbook without predecessors never takes the lock.
Commit(p) ==
  /\ txn[p].op # "NONE" /\ txn[p].todo = {}
  /\ graphLock = p \/ (txn[p].op = "IMPORT" /\ txn[p].asked = {})
  /\ nodes' = nodes \cup txn[p].new
  /\ edges' = (edges \ txn[p].delete) \cup txn[p].insert
  /\ End(p)

Abort(p) ==
  /\ txn[p].op # "NONE"
  /\ End(p)
  /\ UNCHANGED <<nodes, edges>>

Init ==
  /\ nodes = Planned
  /\ edges = {}
  /\ graphLock = NoTxn
  /\ txn = [p \in Txns |-> Idle]

Request(p) ==
  \/ \E a \in Nodes, b \in Tasks : AddDependency(p, a, b)
  \/ \E e \in edges : RemoveDependency(p, e)
  \/ \E m \in Milestones, contributors \in SUBSET (nodes \cap Tasks),
        gated \in SUBSET (nodes \cap Tasks) :
       CreateMilestone(p, m, contributors, gated)
  \/ \E new \in SUBSET (Tasks \ nodes) : \E predecessors \in SUBSET (new \X new) :
       AcceptImport(p, new, predecessors)

Step(p) ==
  \/ TakeGraphLock(p)
  \/ \E e \in txn[p].todo : LinkEdge(p, e) \/ SkipEdge(p, e)
  \/ Commit(p)
  \/ Abort(p)

Next == \E p \in Txns : Request(p) \/ Step(p)

Spec == Init /\ [][Next]_vars

-----------------------------------------------------------------------------
(* Properties *)

TypeOK ==
  /\ nodes \subseteq Nodes
  /\ edges \subseteq Nodes \X Nodes
  /\ graphLock \in Txns \cup {NoTxn}
  /\ txn \in [Txns -> Txn]

\* No interleaving of edits, Milestone creations and imports commits a cycle
\* through dependencies, gates and required contributions (the comment of
\* lock_event_dependency_graph; find_cycle_path; the readiness key
\* dependency_graph_acyclic).
Acyclic == AcyclicGraph(edges)

\* An accepted workbook loses none of its predecessors without need: each one
\* is linked, or would close a cycle with what is committed
\* (process_accepted_import).
ImportKeepsEdges ==
  [][\A p \in Txns :
       txn[p].op = "IMPORT" /\ txn'[p] = Idle /\ nodes' # nodes =>
         \A e \in txn[p].asked : e \in edges' \/ ~AcyclicGraph(edges' \cup {e})]_vars
=============================================================================
