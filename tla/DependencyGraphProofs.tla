------------------------- MODULE DependencyGraphProofs -------------------------
(***************************************************************************)
(* No cycle is ever committed, for any number of Tasks, Milestones and     *)
(* concurrent requests.  The invariant looks inside the transactions: the  *)
(* one that holds the graph lock has an acyclic graph under its hands, no  *)
(* other has flushed an edge, and rows that are not committed have no      *)
(* committed edges, so the contributions of a new Milestone need no check. *)
(* And an import that ends has linked what it was asked to, or left out    *)
(* what would close a cycle with the edges it found.                       *)
(***************************************************************************)
EXTENDS DependencyGraph, TLAPS

-----------------------------------------------------------------------------
(* The graph *)

\* A part of an acyclic graph is acyclic.
LEMMA SubgraphAcyclic ==
  ASSUME NEW E, NEW F, F \subseteq E, AcyclicGraph(E)
  PROVE  AcyclicGraph(F)
  BY DEF AcyclicGraph

\* Adding a -> b closes no cycle when a cannot be reached from b: what lets
\* cycle_path look for one path only.
LEMMA SafeEdge ==
  ASSUME NEW E, AcyclicGraph(E), NEW a \in Nodes, NEW b \in Nodes, ~Reaches(E, b, a)
  PROVE  AcyclicGraph(E \cup {<<a, b>>})
<1>1. PICK R \in SUBSET Nodes :
        b \in R /\ (\A e \in E : e[1] \in R => e[2] \in R) /\ a \notin R
  BY DEF Reaches
<1>2. SUFFICES ASSUME NEW S \in (SUBSET Nodes) \ {{}}
      PROVE \E n \in S : \A e \in E \cup {<<a, b>>} : ~(e[1] = n /\ e[2] \in S)
  BY DEF AcyclicGraph
<1>3. CASE S \cap R = {}
  <2>1. PICK n \in S : \A e \in E : ~(e[1] = n /\ e[2] \in S)
    BY DEF AcyclicGraph
  <2>2. b \notin S
    BY <1>1, <1>3
  <2> QED
    BY <2>1, <2>2
<1>4. CASE S \cap R # {}
  <2>1. PICK n \in S \cap R : \A e \in E : ~(e[1] = n /\ e[2] \in S \cap R)
    BY <1>4 DEF AcyclicGraph
  <2>2. \A e \in E : ~(e[1] = n /\ e[2] \in S)
    BY <1>1, <2>1
  <2> QED
    BY <1>1, <2>1, <2>2
<1> QED
  BY <1>3, <1>4

\* A new Milestone that nothing follows yet may take any contributions.
LEMMA SafeContributions ==
  ASSUME NEW E, AcyclicGraph(E), NEW m, NEW C, C \subseteq (Nodes \ {m}) \X {m},
         \A e \in E : e[1] # m
  PROVE  AcyclicGraph(E \cup C)
<1>1. SUFFICES ASSUME NEW S \in (SUBSET Nodes) \ {{}}
      PROVE \E n \in S : \A e \in E \cup C : ~(e[1] = n /\ e[2] \in S)
  BY DEF AcyclicGraph
<1>2. CASE m \in S
  BY <1>2
<1>3. CASE m \notin S
  <2>1. PICK n \in S : \A e \in E : ~(e[1] = n /\ e[2] \in S)
    BY DEF AcyclicGraph
  <2> QED
    BY <1>3, <2>1
<1> QED
  BY <1>2, <1>3

-----------------------------------------------------------------------------
(* The invariant *)

Within(E, N) == \A e \in E : e[1] \in N /\ e[2] \in N

\* What holds of one transaction.
TxnOK(p) ==
  /\ txn[p].new \cap nodes = {}
  /\ Within(txn[p].given, nodes \cup txn[p].new)
  /\ Within(txn[p].todo, nodes \cup txn[p].new)
  /\ Within(txn[p].insert, nodes \cup txn[p].new)
  /\ txn[p].given # {} =>
       \E m \in txn[p].new \cap Milestones : txn[p].given \subseteq Tasks \X {m}
  /\ graphLock # p => txn[p].insert = {}
  /\ graphLock = p => AcyclicGraph(edges \cup txn[p].insert)

GraphInv ==
  /\ TypeOK
  /\ AcyclicGraph(edges)
  /\ Within(edges, nodes)
  /\ \A p \in Txns : TxnOK(p)
  /\ \A p, q \in Txns : p # q => txn[p].new \cap txn[q].new = {}

LEMMA InitGraphInv == Init => GraphInv
<1> SUFFICES ASSUME Init PROVE GraphInv
  OBVIOUS
<1>1. TypeOK
  BY GraphAssumption DEF Init, TypeOK, Nodes, Txn, Idle
<1>2. AcyclicGraph(edges)
  BY DEF Init, AcyclicGraph
<1>3. \A p \in Txns : TxnOK(p)
  BY GraphAssumption DEF Init, TxnOK, Idle, Within
<1> QED
  BY <1>1, <1>2, <1>3 DEF GraphInv, Init, Within, Idle

\* What a request brings along: rows nobody has, edges between rows it can
\* see, contributions to a Milestone of its own.
GoodRequest(new, given, todo, delete) ==
  /\ new \subseteq Nodes /\ given \subseteq Nodes \X Nodes
  /\ todo \subseteq Nodes \X Nodes /\ delete \subseteq Nodes \X Nodes
  /\ Unused(new)
  /\ Within(given, nodes \cup new) /\ Within(todo, nodes \cup new)
  /\ given # {} => \E m \in new \cap Milestones : given \subseteq Tasks \X {m}

\* A request changes nothing but its own, idle transaction.
LEMMA BeginGraphInv ==
  ASSUME GraphInv, NEW p \in Txns, NEW op, NEW new, NEW given, NEW todo, NEW delete,
         op \in {"ADD", "REMOVE", "CREATE", "IMPORT"},
         GoodRequest(new, given, todo, delete),
         Begin(p, op, new, given, todo, delete)
  PROVE  GraphInv'
<1>1. TypeOK'
  BY DEF GraphInv, TypeOK, Begin, Txn, Nodes, GoodRequest
<1>2. AcyclicGraph(edges)' /\ Within(edges, nodes)'
  BY DEF GraphInv, Begin, AcyclicGraph, Within
<1>3. ASSUME NEW q \in Txns PROVE TxnOK(q)'
  <2>1. CASE q = p
    <3>1. txn'[q] = [op |-> op, new |-> new, given |-> given, todo |-> todo,
                     asked |-> todo, insert |-> {}, delete |-> delete]
      BY <2>1 DEF Begin, GraphInv, TypeOK
    <3>2. new \cap nodes = {}
      BY DEF Unused, GoodRequest
    <3>3. edges \cup {} = edges
      OBVIOUS
    <3> QED
      BY <3>1, <3>2, <3>3 DEF Begin, TxnOK, Within, GraphInv, AcyclicGraph, GoodRequest
  <2>2. CASE q # p
    <3>1. txn'[q] = txn[q]
      BY <2>2 DEF Begin, GraphInv, TypeOK
    <3> QED
      BY <3>1 DEF Begin, TxnOK, Within, GraphInv, AcyclicGraph
  <2> QED
    BY <2>1, <2>2
<1>4. ASSUME NEW q \in Txns, NEW r \in Txns, q # r
      PROVE  txn'[q].new \cap txn'[r].new = {}
  <2>1. \A x \in Txns : txn'[x].new = IF x = p THEN new ELSE txn[x].new
    BY DEF Begin, GraphInv, TypeOK
  <2> QED
    BY <1>4, <2>1 DEF Unused, GraphInv, GoodRequest
<1> QED
  BY <1>1, <1>2, <1>3, <1>4 DEF GraphInv

LEMMA RequestGraphInv ==
  ASSUME GraphInv, NEW p \in Txns, Request(p)
  PROVE  GraphInv'
<1>1. ASSUME NEW a \in Nodes, NEW b \in Tasks, AddDependency(p, a, b)
      PROVE  GraphInv'
  <2>1. GoodRequest({}, {}, {<<a, b>>}, {})
    BY <1>1 DEF AddDependency, GoodRequest, Unused, Within, Nodes
  <2> QED
    BY <1>1, <2>1, BeginGraphInv DEF AddDependency
<1>2. ASSUME NEW e \in edges, RemoveDependency(p, e)
      PROVE  GraphInv'
  <2>1. GoodRequest({}, {}, {}, {e})
    BY DEF GoodRequest, Unused, Within, GraphInv, TypeOK
  <2> QED
    BY <1>2, <2>1, BeginGraphInv DEF RemoveDependency
<1>3. ASSUME NEW m \in Milestones, NEW contributors \in SUBSET (nodes \cap Tasks),
             NEW gated \in SUBSET (nodes \cap Tasks),
             CreateMilestone(p, m, contributors, gated)
      PROVE  GraphInv'
  <2>1. GoodRequest({m}, contributors \X {m}, {m} \X gated, {})
    BY <1>3 DEF CreateMilestone, GoodRequest, Within, Nodes
  <2> QED
    BY <1>3, <2>1, BeginGraphInv DEF CreateMilestone
<1>4. ASSUME NEW new \in SUBSET (Tasks \ nodes), NEW predecessors \in SUBSET (new \X new),
             AcceptImport(p, new, predecessors)
      PROVE  GraphInv'
  <2>1. GoodRequest(new, {}, predecessors, {})
    BY <1>4 DEF AcceptImport, GoodRequest, Within, Nodes
  <2> QED
    BY <1>4, <2>1, BeginGraphInv DEF AcceptImport
<1> QED
  BY <1>1, <1>2, <1>3, <1>4 DEF Request

\* The holder of the lock flushes its unchecked contributions.
LEMMA TakeGraphLockInv ==
  ASSUME GraphInv, NEW p \in Txns, TakeGraphLock(p)
  PROVE  GraphInv'
<1>1. txn' = [txn EXCEPT ![p].insert = txn[p].given]
  <2>1. txn[p].insert = {}
    <3>1. graphLock # p
      BY GraphAssumption DEF TakeGraphLock
    <3> QED
      BY <3>1 DEF GraphInv, TxnOK
  <2>2. txn[p].insert \cup txn[p].given = txn[p].given
    BY <2>1
  <2> QED
    BY <2>2 DEF TakeGraphLock
<1>2. TypeOK'
  BY <1>1 DEF GraphInv, TypeOK, TakeGraphLock, Txn
<1>3. AcyclicGraph(edges)' /\ Within(edges, nodes)'
  BY DEF GraphInv, TakeGraphLock, AcyclicGraph, Within
<1>4. AcyclicGraph(edges \cup txn[p].given)
  <2>1. CASE txn[p].given = {}
    <3>1. edges \cup txn[p].given = edges
      BY <2>1
    <3> QED
      BY <3>1 DEF GraphInv
  <2>2. CASE txn[p].given # {}
    <3>1. PICK m \in txn[p].new \cap Milestones : txn[p].given \subseteq Tasks \X {m}
      BY <2>2 DEF GraphInv, TxnOK
    <3>2. \A e \in edges : e[1] # m
      <4>1. txn[p].new \cap nodes = {}
        BY DEF GraphInv, TxnOK
      <4>2. Within(edges, nodes)
        BY DEF GraphInv
      <4> QED
        BY <3>1, <4>1, <4>2 DEF Within
    <3>3. txn[p].given \subseteq (Nodes \ {m}) \X {m}
      BY <3>1, GraphAssumption DEF Nodes
    <3> QED
      BY <3>2, <3>3, SafeContributions DEF GraphInv
  <2> QED
    BY <2>1, <2>2
<1>5. ASSUME NEW q \in Txns PROVE TxnOK(q)'
  <2>1. CASE q = p
    <3>1. /\ txn'[q].new = txn[q].new /\ txn'[q].given = txn[q].given
          /\ txn'[q].todo = txn[q].todo /\ txn'[q].insert = txn[q].given
      BY <1>1, <2>1 DEF GraphInv, TypeOK, Txn
    <3>2. AcyclicGraph(edges \cup txn[q].insert)'
      <4>1. (edges \cup txn[q].insert)' = edges \cup txn[p].given
        BY <2>1, <3>1 DEF TakeGraphLock
      <4> QED
        BY <1>4, <4>1 DEF AcyclicGraph
    <3> QED
      BY <2>1, <3>1, <3>2 DEF TakeGraphLock, TxnOK, Within, GraphInv
  <2>2. CASE q # p
    <3>1. txn'[q] = txn[q] /\ graphLock # q
      BY <1>1, <2>2, GraphAssumption DEF GraphInv, TypeOK, TakeGraphLock
    <3>2. graphLock' # q
      BY <2>2 DEF TakeGraphLock
    <3> QED
      BY <3>1, <3>2 DEF TakeGraphLock, TxnOK, Within, GraphInv
  <2> QED
    BY <2>1, <2>2
<1>6. \A x \in Txns : txn'[x].new = txn[x].new
  BY <1>1 DEF GraphInv, TypeOK, Txn
<1> QED
  BY <1>2, <1>3, <1>5, <1>6 DEF GraphInv

\* The holder works through its list: an edge joins what it has flushed only
\* if the two graphs together stay acyclic.
LEMMA EdgeGraphInv ==
  ASSUME GraphInv, NEW p \in Txns, NEW e \in txn[p].todo, LinkEdge(p, e) \/ SkipEdge(p, e)
  PROVE  GraphInv'
<1>1. e \in Nodes \X Nodes /\ graphLock = p
  BY DEF GraphInv, TypeOK, Txn, LinkEdge, SkipEdge
<1>2. PICK added \in SUBSET {e} :
        /\ txn'[p].op = txn[p].op
        /\ txn'[p].new = txn[p].new /\ txn'[p].given = txn[p].given
        /\ txn'[p].todo = txn[p].todo \ {e}
        /\ txn'[p].insert = txn[p].insert \cup added
        /\ AcyclicGraph(edges \cup (txn[p].insert \cup added))
  <2>1. CASE LinkEdge(p, e)
    <3>1. e = <<e[1], e[2]>> /\ e[1] \in Nodes /\ e[2] \in Nodes
      BY <1>1
    <3>2. AcyclicGraph(Seen(p))
      BY <1>1 DEF Seen, GraphInv, TxnOK
    <3>3. ~Reaches(Seen(p), e[2], e[1])
      BY <2>1 DEF LinkEdge
    <3>4. AcyclicGraph(Seen(p) \cup {e})
      BY <3>1, <3>2, <3>3, SafeEdge
    <3>5. edges \cup (txn[p].insert \cup {e}) = Seen(p) \cup {e}
      BY DEF Seen
    <3>6. AcyclicGraph(edges \cup (txn[p].insert \cup {e}))
      BY <3>4, <3>5
    <3>7. /\ txn'[p].op = txn[p].op
          /\ txn'[p].new = txn[p].new /\ txn'[p].given = txn[p].given
          /\ txn'[p].todo = txn[p].todo \ {e}
          /\ txn'[p].insert = txn[p].insert \cup {e}
      BY <2>1 DEF LinkEdge, GraphInv, TypeOK, Txn
    <3> QED
      BY <3>6, <3>7
  <2>2. CASE SkipEdge(p, e)
    <3>1. /\ txn'[p].op = txn[p].op
          /\ txn'[p].new = txn[p].new /\ txn'[p].given = txn[p].given
          /\ txn'[p].todo = txn[p].todo \ {e}
          /\ txn'[p].insert = txn[p].insert
      BY <2>2 DEF SkipEdge, GraphInv, TypeOK, Txn
    <3>2. AcyclicGraph(edges \cup txn[p].insert)
      BY <1>1 DEF GraphInv, TxnOK
    <3>3. txn[p].insert = txn[p].insert \cup {}
      OBVIOUS
    <3> QED
      BY <3>1, <3>2, <3>3
  <2> QED
    BY <2>1, <2>2
<1>3. UNCHANGED <<nodes, edges, graphLock>> /\ \A q \in Txns \ {p} : txn'[q] = txn[q]
  BY DEF LinkEdge, SkipEdge, GraphInv, TypeOK
<1>4. TypeOK'
  <2>1. CASE LinkEdge(p, e)
    <3>1. /\ txn[p] \in Txn /\ {e} \subseteq Nodes \X Nodes
          /\ txn' = [txn EXCEPT ![p] = [txn[p] EXCEPT !.todo = @ \ {e}, !.insert = @ \cup {e}]]
      BY <1>1, <2>1 DEF LinkEdge, GraphInv, TypeOK
    <3>2. [txn[p] EXCEPT !.todo = @ \ {e}, !.insert = @ \cup {e}] \in Txn
      BY <3>1 DEF Txn
    <3> QED
      BY <1>3, <3>1, <3>2 DEF GraphInv, TypeOK
  <2>2. CASE SkipEdge(p, e)
    BY <2>2 DEF SkipEdge, GraphInv, TypeOK, Txn
  <2> QED
    BY <2>1, <2>2
<1>5. AcyclicGraph(edges)' /\ Within(edges, nodes)'
  BY <1>3 DEF GraphInv, AcyclicGraph, Within
<1>6. ASSUME NEW q \in Txns PROVE TxnOK(q)'
  <2>1. CASE q = p
    <3>1. AcyclicGraph(edges \cup txn[q].insert)'
      <4>1. (edges \cup txn[q].insert)' = edges \cup (txn[p].insert \cup added)
        BY <1>2, <1>3, <2>1
      <4> QED
        BY <1>2, <4>1 DEF AcyclicGraph
    <3>2. Within(txn[q].insert, nodes \cup txn[q].new)'
      <4>1. /\ Within(txn[p].insert, nodes \cup txn[p].new)
            /\ Within(txn[p].todo, nodes \cup txn[p].new)
        BY DEF GraphInv, TxnOK
      <4> QED
        BY <1>2, <1>3, <2>1, <4>1 DEF Within
    <3> QED
      BY <1>1, <1>2, <1>3, <2>1, <3>1, <3>2 DEF TxnOK, Within, GraphInv
  <2>2. CASE q # p
    <3>1. txn'[q] = txn[q] /\ graphLock # q
      BY <1>1, <1>3, <2>2
    <3> QED
      BY <1>3, <3>1 DEF TxnOK, Within, GraphInv
  <2> QED
    BY <2>1, <2>2
<1>7. \A x \in Txns : txn'[x].new = txn[x].new
  BY <1>2, <1>3
<1> QED
  BY <1>4, <1>5, <1>6, <1>7 DEF GraphInv

\* The end of a transaction, committed or not, leaves the others as they were
\* and with the graph lock only if they had it.
LEMMA EndGraphInv ==
  ASSUME GraphInv, NEW p \in Txns, End(p),
         nodes' \in SUBSET Nodes, nodes \subseteq nodes', nodes' \subseteq nodes \cup txn[p].new,
         edges' \subseteq Nodes \X Nodes, Within(edges', nodes'), AcyclicGraph(edges'),
         graphLock # p => edges' \subseteq edges
  PROVE  GraphInv'
<1>1. TypeOK'
  BY DEF End, GraphInv, TypeOK, Txn, Idle
<1>2. ASSUME NEW q \in Txns PROVE TxnOK(q)'
  <2>1. CASE q = p
    <3>1. txn'[q] = Idle /\ graphLock' # q
      BY <2>1, GraphAssumption DEF End, GraphInv, TypeOK
    <3> QED
      BY <3>1 DEF Idle, TxnOK, Within
  <2>2. CASE q # p
    <3>1. txn'[q] = txn[q] /\ (graphLock' = q <=> graphLock = q)
      BY <2>2, GraphAssumption DEF End, GraphInv, TypeOK
    <3>2. txn[q].new \cap nodes' = {}
      BY <2>2 DEF GraphInv, TxnOK
    <3>3. graphLock = q => AcyclicGraph(edges' \cup txn[q].insert)
      <4>1. ASSUME graphLock = q
            PROVE  /\ edges' \cup txn[q].insert \subseteq edges \cup txn[q].insert
                   /\ AcyclicGraph(edges \cup txn[q].insert)
        BY <4>1, <2>2 DEF GraphInv, TxnOK
      <4> QED
        BY <4>1, SubgraphAcyclic
    <3>4. AcyclicGraph(edges' \cup txn[q].insert) <=> AcyclicGraph(edges \cup txn[q].insert)'
      BY <3>1 DEF AcyclicGraph
    <3>5. /\ Within(txn[q].given, nodes \cup txn[q].new)'
          /\ Within(txn[q].todo, nodes \cup txn[q].new)'
          /\ Within(txn[q].insert, nodes \cup txn[q].new)'
      <4>1. \A n \in nodes \cup txn[q].new : n \in (nodes \cup txn[q].new)'
        BY <3>1
      <4>2. TxnOK(q)
        BY DEF GraphInv
      <4> QED
        BY <3>1, <4>1, <4>2 DEF TxnOK, Within
    <3> QED
      BY <3>1, <3>2, <3>3, <3>4, <3>5 DEF TxnOK, GraphInv
  <2> QED
    BY <2>1, <2>2
<1>3. \A x \in Txns : txn'[x].new = IF x = p THEN {} ELSE txn[x].new
  BY DEF End, GraphInv, TypeOK, Idle
<1>4. AcyclicGraph(edges)' /\ Within(edges, nodes)'
  BY DEF AcyclicGraph, Within
<1> QED
  BY <1>1, <1>2, <1>3, <1>4 DEF GraphInv

LEMMA CommitGraphInv ==
  ASSUME GraphInv, NEW p \in Txns, Commit(p)
  PROVE  GraphInv'
<1>1. /\ nodes' = nodes \cup txn[p].new
      /\ edges' = (edges \ txn[p].delete) \cup txn[p].insert
      /\ End(p)
  BY DEF Commit
<1>2. nodes' \in SUBSET Nodes /\ edges' \subseteq Nodes \X Nodes
  BY <1>1 DEF GraphInv, TypeOK, Txn
<1>3. Within(edges', nodes')
  BY <1>1 DEF GraphInv, TxnOK, Within
<1>4. AcyclicGraph(edges')
  <2>1. CASE graphLock = p
    <3>1. edges' \subseteq edges \cup txn[p].insert
      BY <1>1
    <3>2. AcyclicGraph(edges \cup txn[p].insert)
      BY <2>1 DEF GraphInv, TxnOK
    <3> QED
      BY <3>1, <3>2, SubgraphAcyclic
  <2>2. CASE graphLock # p
    BY <1>1, <2>2, SubgraphAcyclic DEF GraphInv, TxnOK
  <2> QED
    BY <2>1, <2>2
<1>5. graphLock # p => edges' \subseteq edges
  BY <1>1 DEF GraphInv, TxnOK
<1> QED
  BY <1>1, <1>2, <1>3, <1>4, <1>5, EndGraphInv

LEMMA NextGraphInv == GraphInv /\ [Next]_vars => GraphInv'
<1> SUFFICES ASSUME GraphInv, [Next]_vars PROVE GraphInv'
  OBVIOUS
<1>1. ASSUME NEW p \in Txns, Request(p) PROVE GraphInv'
  BY <1>1, RequestGraphInv
<1>2. ASSUME NEW p \in Txns, Step(p) PROVE GraphInv'
  <2>1. CASE TakeGraphLock(p)
    BY <2>1, TakeGraphLockInv
  <2>2. CASE \E e \in txn[p].todo : LinkEdge(p, e) \/ SkipEdge(p, e)
    BY <2>2, EdgeGraphInv
  <2>3. CASE Commit(p)
    BY <2>3, CommitGraphInv
  <2>4. CASE Abort(p)
    BY <2>4, EndGraphInv DEF Abort, GraphInv, TypeOK, AcyclicGraph, Within
  <2> QED
    BY <1>2, <2>1, <2>2, <2>3, <2>4 DEF Step
<1>3. CASE UNCHANGED vars
  BY <1>3 DEF vars, GraphInv, TypeOK, TxnOK, AcyclicGraph, Within
<1> QED
  BY <1>1, <1>2, <1>3 DEF Next

\* The invariant holds throughout.
THEOREM GraphInvariant == Spec => []GraphInv
  BY InitGraphInv, NextGraphInv, PTL DEF Spec

\* No interleaving of dependency edits, Milestone creations and imports ever
\* commits a cycle, however many Tasks, Milestones and requests there are.
THEOREM AlwaysAcyclic == Spec => []Acyclic
<1>1. GraphInv => Acyclic
  BY DEF GraphInv, Acyclic
<1> QED
  BY <1>1, GraphInvariant, PTL

-----------------------------------------------------------------------------
(* Imports *)

\* An edge is unwanted when its end reaches its beginning: the nodes that
\* reach the beginning are then a set nobody leaves.
LEMMA ClosesCycle ==
  ASSUME NEW E, E \subseteq Nodes \X Nodes, NEW a \in Nodes, NEW b \in Nodes, Reaches(E, b, a)
  PROVE  ~AcyclicGraph(E \cup {<<a, b>>})
<1> DEFINE S == {n \in Nodes : Reaches(E, n, a)}
<1>1. a \in S /\ b \in S
  BY DEF Reaches
<1>2. \A e \in E : e[2] \in S => e[1] \in S
  BY DEF Reaches
<1>3. ASSUME NEW n \in S, n # a
      PROVE  \E e \in E : e[1] = n /\ e[2] \in S
  <2> DEFINE R == (Nodes \ S) \cup {n}
  <2>1. SUFFICES ASSUME \A e \in E : e[1] = n => e[2] \notin S PROVE FALSE
    OBVIOUS
  <2>2. \A e \in E : e[1] \in R => e[2] \in R
    BY <2>1, <1>2
  <2>3. n \in R /\ R \in SUBSET Nodes /\ Reaches(E, n, a)
    OBVIOUS
  <2> HIDE DEF R
  <2>4. a \in R
    BY <2>2, <2>3 DEF Reaches
  <2> QED
    BY <2>4, <1>1, <1>3 DEF R
<1> HIDE DEF S
<1>4. ASSUME NEW n \in S
      PROVE  \E e \in E \cup {<<a, b>>} : e[1] = n /\ e[2] \in S
  <2>1. CASE n = a
    <3>1. <<a, b>>[1] = n /\ <<a, b>>[2] \in S
      BY <2>1, <1>1
    <3> QED
      BY <3>1
  <2>2. CASE n # a
    BY <2>2, <1>3
  <2> QED
    BY <2>1, <2>2
<1>5. S \in (SUBSET Nodes) \ {{}}
  BY <1>1 DEF S
<1> QED
  BY <1>4, <1>5 DEF AcyclicGraph

\* Of the edges an import was asked for, each that it is through with is there
\* or would close a cycle.
Placed(p, e) == e \in Seen(p) \/ ~AcyclicGraph(Seen(p) \cup {e})
ImportOK(p) ==
  txn[p].op = "IMPORT" =>
    /\ txn[p].delete = {}
    /\ graphLock # p => txn[p].todo = txn[p].asked
    /\ \A e \in txn[p].asked \ txn[p].todo : Placed(p, e)

ImportInv == GraphInv /\ \A p \in Txns : ImportOK(p)

\* What `Placed` says survives as long as the edges seen only grow.
LEMMA PlacedGrows ==
  ASSUME NEW p \in Txns, NEW e, Placed(p, e), Seen(p) \subseteq Seen(p)'
  PROVE  Placed(p, e)'
<1>1. PICK F, G : F = Seen(p) /\ G = Seen(p)' /\ F \subseteq G
  OBVIOUS
<1>2. (F \cup {e}) \subseteq (G \cup {e})
  BY <1>1
<1>3. AcyclicGraph(G \cup {e}) => AcyclicGraph(F \cup {e})
  BY <1>2, SubgraphAcyclic
<1>4. Placed(p, e)' <=> e \in G \/ ~AcyclicGraph(G \cup {e})
  BY <1>1 DEF Placed, AcyclicGraph
<1> QED
  BY <1>1, <1>3, <1>4 DEF Placed

\* Another's step leaves an import as it is.
LEMMA ImportAside ==
  ASSUME ImportInv, NEW p \in Txns, txn'[p] = txn[p],
         graphLock = p <=> graphLock' = p,
         graphLock = p => edges \subseteq edges'
  PROVE  ImportOK(p)'
<1> SUFFICES ASSUME txn[p].op = "IMPORT" PROVE ImportOK(p)'
  BY DEF ImportOK
<1>1. CASE graphLock # p
  BY <1>1 DEF ImportInv, ImportOK
<1>2. CASE graphLock = p
  <2>1. Seen(p) \subseteq Seen(p)'
    BY <1>2 DEF Seen
  <2>2. \A e \in txn[p].asked \ txn[p].todo : Placed(p, e)'
    BY <2>1, PlacedGrows DEF ImportInv, ImportOK
  <2> QED
    BY <1>2, <2>2 DEF ImportInv, ImportOK
<1> QED
  BY <1>1, <1>2

LEMMA EdgeImportOK ==
  ASSUME ImportInv, NEW p \in Txns, NEW e \in txn[p].todo, LinkEdge(p, e) \/ SkipEdge(p, e)
  PROVE  ImportOK(p)'
<1> SUFFICES ASSUME txn[p].op = "IMPORT" PROVE ImportOK(p)'
  <2>1. txn'[p].op = txn[p].op
    BY DEF LinkEdge, SkipEdge, ImportInv, GraphInv, TypeOK, Txn
  <2> QED
    BY <2>1 DEF ImportOK
<1>1. /\ graphLock = p /\ UNCHANGED <<edges, graphLock>>
      /\ txn[p] \in Txn /\ e \in Nodes \X Nodes
      /\ Seen(p) \subseteq Nodes \X Nodes
  BY DEF LinkEdge, SkipEdge, ImportInv, GraphInv, TypeOK, Txn, Seen
<1>2. /\ txn'[p].asked = txn[p].asked /\ txn'[p].delete = txn[p].delete
      /\ txn'[p].todo = txn[p].todo \ {e} /\ txn[p].insert \subseteq txn'[p].insert
  BY DEF LinkEdge, SkipEdge, ImportInv, GraphInv, TypeOK, Txn
<1>3. Seen(p) \subseteq Seen(p)'
  BY <1>1, <1>2 DEF Seen
<1>4. Placed(p, e)'
  <2>1. CASE LinkEdge(p, e)
    <3>1. e \in txn'[p].insert
      BY <2>1 DEF LinkEdge, ImportInv, GraphInv, TypeOK, Txn
    <3> QED
      BY <3>1 DEF Placed, Seen
  <2>2. CASE SkipEdge(p, e)
    <3>1. e \in Seen(p) \/ Reaches(Seen(p), e[2], e[1])
      BY <2>2 DEF SkipEdge
    <3>2. e = <<e[1], e[2]>> /\ e[1] \in Nodes /\ e[2] \in Nodes
      BY <1>1
    <3>3. Reaches(Seen(p), e[2], e[1]) => ~AcyclicGraph(Seen(p) \cup {e})
      BY <1>1, <3>2, ClosesCycle
    <3> QED
      BY <3>1, <3>3, <1>3, PlacedGrows DEF Placed
  <2> QED
    BY <2>1, <2>2
<1>5. ASSUME NEW f \in (txn[p].asked \ txn[p].todo) \cup {e} PROVE Placed(p, f)'
  BY <1>3, <1>4, PlacedGrows DEF ImportInv, ImportOK
<1> QED
  BY <1>1, <1>2, <1>5 DEF ImportInv, ImportOK

\* Only the holder of the lock, and imports that bring no edges, commit.
LEMMA CommitKeepsEdges ==
  ASSUME ImportInv, NEW p \in Txns, Commit(p), graphLock # p
  PROVE  edges' = edges
BY DEF Commit, ImportInv, ImportOK, GraphInv, TxnOK

LEMMA ImportInvStep == ImportInv /\ [Next]_vars => ImportInv'
<1> SUFFICES ASSUME ImportInv, [Next]_vars PROVE ImportInv'
  OBVIOUS
<1>1. GraphInv'
  BY NextGraphInv DEF ImportInv
<1>2. ASSUME NEW p \in Txns, Request(p), NEW q \in Txns PROVE ImportOK(q)'
  <2>1. PICK op, new, given, todo, delete :
          Begin(p, op, new, given, todo, delete) /\ (op = "IMPORT" => delete = {})
    <3>1. CASE \E a \in Nodes, b \in Tasks : AddDependency(p, a, b)
      BY <3>1 DEF AddDependency
    <3>2. CASE \E e \in edges : RemoveDependency(p, e)
      <4>1. PICK e \in edges : Begin(p, "REMOVE", {}, {}, {}, {e})
        BY <3>2 DEF RemoveDependency
      <4>2. "REMOVE" # "IMPORT"
        OBVIOUS
      <4> QED
        BY <4>1, <4>2
    <3>3. CASE \E m \in Milestones, contributors \in SUBSET (nodes \cap Tasks),
                  gated \in SUBSET (nodes \cap Tasks) :
                 CreateMilestone(p, m, contributors, gated)
      BY <3>3 DEF CreateMilestone
    <3>4. CASE \E new \in SUBSET (Tasks \ nodes) : \E predecessors \in SUBSET (new \X new) :
                 AcceptImport(p, new, predecessors)
      BY <3>4 DEF AcceptImport
    <3> QED
      BY <1>2, <3>1, <3>2, <3>3, <3>4 DEF Request
  <2>2. CASE q = p
    <3>1. /\ txn'[q].op = op /\ txn'[q].delete = delete
          /\ txn'[q].todo = todo /\ txn'[q].asked = todo
      BY <2>1, <2>2 DEF Begin, ImportInv, GraphInv, TypeOK
    <3> QED
      BY <2>1, <3>1 DEF ImportOK
  <2>3. CASE q # p
    BY <2>1, <2>3, ImportAside DEF Begin, ImportInv, GraphInv, TypeOK
  <2> QED
    BY <2>2, <2>3
<1>3. ASSUME NEW p \in Txns, TakeGraphLock(p), NEW q \in Txns PROVE ImportOK(q)'
  <2>1. CASE q = p
    <3>1. /\ txn'[p].op = txn[p].op /\ txn'[p].delete = txn[p].delete
          /\ txn'[p].todo = txn[p].todo /\ txn'[p].asked = txn[p].asked /\ graphLock # p
      BY <1>3, GraphAssumption DEF TakeGraphLock, ImportInv, GraphInv, TypeOK
    <3> QED
      BY <2>1, <3>1 DEF ImportInv, ImportOK
  <2>2. CASE q # p
    BY <1>3, <2>2, GraphAssumption, ImportAside DEF TakeGraphLock, ImportInv, GraphInv, TypeOK
  <2> QED
    BY <2>1, <2>2
<1>4. ASSUME NEW p \in Txns, NEW e \in txn[p].todo, LinkEdge(p, e) \/ SkipEdge(p, e), NEW q \in Txns
      PROVE  ImportOK(q)'
  <2>1. CASE q = p
    BY <1>4, <2>1, EdgeImportOK
  <2>2. CASE q # p
    BY <1>4, <2>2, ImportAside DEF LinkEdge, SkipEdge, ImportInv, GraphInv, TypeOK
  <2> QED
    BY <2>1, <2>2
<1>5. ASSUME NEW p \in Txns, Commit(p) \/ Abort(p), NEW q \in Txns PROVE ImportOK(q)'
  <2>1. End(p) /\ (graphLock # p => edges' = edges)
    BY <1>5, CommitKeepsEdges DEF Commit, Abort
  <2>2. CASE q = p
    BY <2>1, <2>2 DEF End, Idle, ImportOK, ImportInv, GraphInv, TypeOK
  <2>3. CASE q # p
    <3>1. txn'[q] = txn[q] /\ (graphLock = q <=> graphLock' = q)
      BY <2>1, <2>3, GraphAssumption DEF End, ImportInv, GraphInv, TypeOK
    <3> QED
      BY <2>1, <2>3, <3>1, ImportAside
  <2> QED
    BY <2>2, <2>3
<1>6. ASSUME UNCHANGED vars, NEW q \in Txns PROVE ImportOK(q)'
  BY <1>6, ImportAside DEF vars
<1> QED
  BY <1>1, <1>2, <1>3, <1>4, <1>5, <1>6 DEF Next, Step, ImportInv

\* An accepted workbook loses no predecessor without need: each one is linked
\* or would close a cycle with what is committed (process_accepted_import).
THEOREM ImportsKeepEdges == Spec => ImportKeepsEdges
<1>1. Init => ImportInv
  BY InitGraphInv DEF Init, ImportInv, ImportOK, Idle
<1>2. ASSUME ImportInv, [Next]_vars, NEW p \in Txns,
             txn[p].op = "IMPORT", txn'[p] = Idle, nodes' # nodes,
             NEW e \in txn[p].asked
      PROVE  e \in edges' \/ ~AcyclicGraph(edges' \cup {e})
  <2>1. txn'[p] # txn[p]
    BY <1>2 DEF Idle
  <2>2. Commit(p)
    <3>1. ASSUME NEW q \in Txns, Request(q) PROVE nodes' = nodes
      BY <3>1 DEF Request, AddDependency, RemoveDependency, CreateMilestone, AcceptImport, Begin
    <3>2. ASSUME NEW q \in Txns, NEW f \in txn[q].todo, LinkEdge(q, f) \/ SkipEdge(q, f)
          PROVE  nodes' = nodes
      BY <3>2 DEF LinkEdge, SkipEdge
    <3>3. PICK q \in Txns : Commit(q)
      BY <1>2, <3>1, <3>2 DEF Next, Step, TakeGraphLock, Abort, vars
    <3>4. q = p
      BY <2>1, <3>3 DEF Commit, End, ImportInv, GraphInv, TypeOK
    <3> QED
      BY <3>3, <3>4
  <2>3. edges' = Seen(p) /\ txn[p].todo = {}
    BY <1>2, <2>2 DEF Commit, Seen, ImportInv, ImportOK
  <2> QED
    BY <1>2, <2>3 DEF ImportInv, ImportOK, Placed
<1>3. ImportInv /\ [Next]_vars =>
        [\A p \in Txns :
           txn[p].op = "IMPORT" /\ txn'[p] = Idle /\ nodes' # nodes =>
             \A e \in txn[p].asked : e \in edges' \/ ~AcyclicGraph(edges' \cup {e})]_vars
  BY <1>2
<1> QED
  BY <1>1, <1>3, ImportInvStep, PTL DEF Spec, ImportKeepsEdges
===============================================================================
