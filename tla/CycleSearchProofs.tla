--------------------------- MODULE CycleSearchProofs ---------------------------
(***************************************************************************)
(* Both graph algorithms are right over every finite graph.  cycle_path:   *)
(* what has been queued can be reached and what has been taken has its     *)
(* successors queued, at depths that never fall along the queue, so that   *)
(* the first path found is a shortest one.  has_cycle: what Kahn's         *)
(* algorithm has removed is acyclic, and in what it cannot remove every    *)
(* node follows another.                                                   *)
(***************************************************************************)
EXTENDS CycleSearch, FiniteSetTheorems, WellFoundedInduction, TLAPS

-----------------------------------------------------------------------------
(* The graph *)

\* Adding a -> b closes no cycle when a cannot be reached from b ...
LEMMA SafeEdge ==
  ASSUME NEW E, AcyclicGraph(E), NEW a \in Nodes, NEW b \in Nodes, ~Reaches(E, b, a)
  PROVE  AcyclicGraph(E \cup {<<a, b>>})
<1>1. PICK R \in SUBSET Nodes :
        b \in R /\ (\A e \in E : e[1] \in R => e[2] \in R) /\ a \notin R
  BY DEF Reaches
<1>2. SUFFICES ASSUME NEW S \in (SUBSET Nodes) \ {{}}
      PROVE \E n \in S : \A e \in E \cup {<<a, b>>} : ~(e[1] = n /\ e[2] \in S)
  BY DEF AcyclicGraph
<1>3. CASE S \cap R = {}
  <2>1. PICK n \in S : \A e \in E : ~(e[1] = n /\ e[2] \in S)
    BY DEF AcyclicGraph
  <2> QED
    BY <1>1, <1>3, <2>1
<1>4. CASE S \cap R # {}
  <2>1. PICK n \in S \cap R : \A e \in E : ~(e[1] = n /\ e[2] \in S \cap R)
    BY <1>4 DEF AcyclicGraph
  <2> QED
    BY <1>1, <2>1
<1> QED
  BY <1>3, <1>4

\* ... and one when it can: the nodes that reach a are a set nobody leaves.
LEMMA ClosesCycle ==
  ASSUME NEW E, E \subseteq Nodes \X Nodes, NEW a \in Nodes, NEW b \in Nodes, Reaches(E, b, a)
  PROVE  ~AcyclicGraph(E \cup {<<a, b>>})
<1> DEFINE S == {n \in Nodes : Reaches(E, n, a)}
<1>1. a \in S /\ b \in S
  BY DEF Reaches
<1>2. \A e \in E : e[2] \in S => e[1] \in S
  BY DEF Reaches
<1>3. ASSUME NEW n \in S, n # a
      PROVE  \E e \in E : e[1] = n /\ e[2] \in S
  <2> DEFINE R == (Nodes \ S) \cup {n}
  <2>1. SUFFICES ASSUME \A e \in E : e[1] = n => e[2] \notin S PROVE FALSE
    OBVIOUS
  <2>2. \A e \in E : e[1] \in R => e[2] \in R
    BY <2>1, <1>2
  <2>3. n \in R /\ R \in SUBSET Nodes /\ Reaches(E, n, a)
    OBVIOUS
  <2> HIDE DEF R
  <2>4. a \in R
    BY <2>2, <2>3 DEF Reaches
  <2> QED
    BY <2>4, <1>1, <1>3 DEF R
<1> HIDE DEF S
<1>4. ASSUME NEW n \in S
      PROVE  \E e \in E \cup {<<a, b>>} : e[1] = n /\ e[2] \in S
  <2>1. CASE n = a
    <3>1. <<a, b>>[1] = n /\ <<a, b>>[2] \in S
      BY <2>1, <1>1
    <3> QED
      BY <3>1
  <2>2. CASE n # a
    BY <2>2, <1>3
  <2> QED
    BY <2>1, <2>2
<1>5. S \in (SUBSET Nodes) \ {{}}
  BY <1>1 DEF S
<1> QED
  BY <1>4, <1>5 DEF AcyclicGraph

\* Of the subsets of a finite set, a family has a smallest member: what stands
\* in for an induction over finite sets.
LEMMA MinimalSet ==
  ASSUME NEW S, IsFiniteSet(S), NEW F \in SUBSET (SUBSET S), F # {}
  PROVE  \E T \in F : \A U \in F : U \subseteq T => U = T
<1>1. IsWellFoundedOn(StrictSubsetOrdering(S), SUBSET S)
  BY FS_StrictSubsetOrderingWellFounded, FS_FiniteSubsetsOfFinite
<1>2. PICK T \in F : \A U \in F : ~(<<U, T>> \in StrictSubsetOrdering(S))
  BY <1>1, WFMin
<1> QED
  BY <1>2 DEF StrictSubsetOrdering

\* Where every node has one before it, a smallest such set is a cycle: in it
\* every node also has one after it.
LEMMA NoSource ==
  ASSUME NEW E, NEW S \in SUBSET Nodes, S # {}, \A n \in S : \E e \in E : e[2] = n /\ e[1] \in S
  PROVE  ~AcyclicGraph(E)
<1> DEFINE Entered(T) == \A n \in T : \E e \in E : e[2] = n /\ e[1] \in T
           F == {T \in SUBSET S : T # {} /\ Entered(T)}
<1>1. PICK T \in F : \A U \in F : U \subseteq T => U = T
  <2>1. F \in SUBSET (SUBSET S) /\ F # {} /\ IsFiniteSet(S)
    BY FS_Subset, NodesAssumption
  <2> HIDE DEF F
  <2> QED
    BY <2>1, MinimalSet
<1>2. ASSUME NEW n \in T, \A e \in E : ~(e[1] = n /\ e[2] \in T)
      PROVE  FALSE
  <2> DEFINE U == T \ {n}
  <2>1. PICK e \in E : e[2] = n /\ e[1] \in T
    BY <1>1
  <2>2. e[1] # n
    BY <1>2, <2>1
  <2>3. U # {} /\ U \in SUBSET S
    BY <2>1, <2>2
  <2>4. Entered(U)
    BY <1>1, <1>2
  <2>5. U \in F /\ U \subseteq T /\ U # T
    BY <2>3, <2>4
  <2> QED
    BY <2>5, <1>1
<1>3. T \in (SUBSET Nodes) \ {{}}
  BY <1>1
<1> QED
  BY <1>2, <1>3 DEF AcyclicGraph

-----------------------------------------------------------------------------
(* has_cycle *)

Arguments ==
  edges \in SUBSET (Nodes \X Nodes) /\ predecessor \in Nodes /\ successor \in Nodes

\* The edges into x from what is not yet removed.
Into(x) == {e \in Proposed : e[2] = x /\ e[1] \notin removed}

KahnInv ==
  /\ Arguments
  /\ removed \subseteq Touched
  /\ pc \notin {"KAHN", "DONE"} => removed = {}
  /\ pc \in {"KAHN", "DONE"} =>
       /\ indegree = [x \in Touched |-> Cardinality(Into(x))]
       /\ ready = {x \in Touched \ removed : Into(x) = {}}
       /\ \A x \in removed : Into(x) = {}
       /\ AcyclicGraph({e \in Proposed : e[2] \in removed})
  /\ pc = "DONE" => ready = {}

LEMMA ProposedFacts ==
  ASSUME Arguments
  PROVE  /\ Proposed \in SUBSET (Nodes \X Nodes) /\ Touched \in SUBSET Nodes
         /\ \A x : IsFiniteSet(Into(x))
         /\ \A e \in Proposed : e[1] \in Touched /\ e[2] \in Touched
<1>1. Proposed \in SUBSET (Nodes \X Nodes) /\ IsFiniteSet(Proposed)
  <2>1. IsFiniteSet(Nodes \X Nodes)
    BY NodesAssumption, FS_Product
  <2>2. Proposed \in SUBSET (Nodes \X Nodes)
    BY DEF Arguments, Proposed
  <2> QED
    BY <2>1, <2>2, FS_Subset
<1>2. \A x : Into(x) \in SUBSET Proposed
  BY DEF Into
<1>3. \A x : IsFiniteSet(Into(x))
  BY <1>1, <1>2, FS_Subset
<1>4. Touched \in SUBSET Nodes /\ \A e \in Proposed : e[1] \in Touched /\ e[2] \in Touched
  BY <1>1 DEF Touched
<1> QED
  BY <1>1, <1>3, <1>4

LEMMA KahnCount ==
  ASSUME KahnInv, CountIndegrees
  PROVE  KahnInv'
<1>1. /\ UNCHANGED <<edges, predecessor, successor, removed>> /\ pc' = "KAHN" /\ removed = {}
      /\ indegree' = [n \in Touched |-> Cardinality({e \in Proposed : e[2] = n})]
      /\ ready' = {n \in Touched : \A e \in Proposed : e[2] # n}
  BY DEF CountIndegrees, arguments, KahnInv
<1>2. Proposed' = Proposed /\ Touched' = Touched
  BY <1>1 DEF Proposed, Touched
<1>3. \A x : Into(x)' = {e \in Proposed : e[2] = x}
  BY <1>1, <1>2 DEF Into
<1>4. AcyclicGraph({e \in Proposed : e[2] \in {}})
  BY DEF AcyclicGraph
<1>5. indegree' = [x \in Touched |-> Cardinality(Into(x)')]
  BY <1>1, <1>3
<1>6. ready' = {x \in Touched : Into(x)' = {}}
  BY <1>1, <1>3
<1>7. AcyclicGraph({e \in Proposed : e[2] \in removed})'
  BY <1>1, <1>2, <1>4 DEF AcyclicGraph
<1> QED
  BY <1>1, <1>2, <1>5, <1>6, <1>7 DEF KahnInv, Arguments

LEMMA KahnRemove ==
  ASSUME KahnInv, NEW n \in Nodes, RemoveNode(n)
  PROVE  KahnInv'
<1>1. /\ UNCHANGED <<edges, predecessor, successor, pc>> /\ pc = "KAHN"
      /\ n \in Touched \ removed /\ Into(n) = {} /\ removed' = removed \cup {n}
      /\ indegree' = [x \in Touched |->
                        IF x \in Successors(Proposed, n) THEN indegree[x] - 1 ELSE indegree[x]]
      /\ ready' = (ready \ {n}) \cup {x \in Successors(Proposed, n) : indegree'[x] = 0}
  BY DEF RemoveNode, arguments, KahnInv
<1>2. Proposed' = Proposed /\ Touched' = Touched
  BY <1>1 DEF Proposed, Touched
<1>3. /\ indegree = [x \in Touched |-> Cardinality(Into(x))]
      /\ ready = {x \in Touched \ removed : Into(x) = {}}
      /\ \A x \in removed : Into(x) = {}
      /\ AcyclicGraph({e \in Proposed : e[2] \in removed})
      /\ Arguments
  BY <1>1 DEF KahnInv
<1>4. \A x : x \in Successors(Proposed, n) <=> <<n, x>> \in Proposed
  <2>1. \A e \in Proposed : e = <<e[1], e[2]>>
    BY <1>3, ProposedFacts
  <2> QED
    BY <2>1 DEF Successors
<1>5. \A x : Into(x)' = Into(x) \ {<<n, x>>}
  <2>1. \A e \in Proposed : e = <<e[1], e[2]>>
    BY <1>3, ProposedFacts
  <2>2. \A x : Into(x)' = {e \in Proposed : e[2] = x /\ e[1] \notin removed \cup {n}}
    BY <1>1, <1>2 DEF Into
  <2> QED
    BY <2>1, <2>2 DEF Into
<1>6. ASSUME NEW x \in Touched
      PROVE  /\ indegree'[x] = Cardinality(Into(x)')
             /\ x \in Successors(Proposed, n) => <<n, x>> \in Into(x)
             /\ x \notin Successors(Proposed, n) => Into(x)' = Into(x)
             /\ indegree'[x] = 0 <=> Into(x)' = {}
  <2>1. IsFiniteSet(Into(x)) /\ IsFiniteSet(Into(x)')
    BY <1>3, <1>5, ProposedFacts, FS_RemoveElement
  <2>2. CASE x \in Successors(Proposed, n)
    <3>1. <<n, x>> \in Into(x)
      BY <1>1, <1>4, <2>2 DEF Into
    <3>2. Cardinality(Into(x) \ {<<n, x>>}) = Cardinality(Into(x)) - 1
      BY <2>1, <3>1, FS_RemoveElement
    <3>3. indegree'[x] = Cardinality(Into(x)')
      BY <1>1, <1>3, <1>5, <2>2, <3>2
    <3> QED
      BY <2>1, <2>2, <3>1, <3>3, FS_EmptySet
  <2>3. CASE x \notin Successors(Proposed, n)
    <3>1. Into(x)' = Into(x)
      BY <1>4, <1>5, <2>3 DEF Into
    <3>2. indegree'[x] = Cardinality(Into(x)')
      BY <1>1, <1>3, <2>3, <3>1
    <3> QED
      BY <2>1, <2>3, <3>1, <3>2, FS_EmptySet
  <2> QED
    BY <2>2, <2>3
<1>7. indegree' = [x \in Touched |-> Cardinality(Into(x)')]
  BY <1>1, <1>6
<1>8. \A x \in removed \cup {n} : Into(x)' = {}
  BY <1>1, <1>3, <1>5
<1>9. ready' = {x \in Touched \ (removed \cup {n}) : Into(x)' = {}}
  <2>1. Successors(Proposed, n) \subseteq Touched
    <3>1. \A x \in Successors(Proposed, n) : <<n, x>> \in Proposed /\ <<n, x>>[2] = x
      BY <1>4
    <3> QED
      BY <3>1, <1>3, ProposedFacts
  <2>2. ASSUME NEW x \in Successors(Proposed, n) PROVE x \notin removed \cup {n}
    BY <1>1, <1>3, <1>6, <2>1
  <2>3. ASSUME NEW x \in Touched
        PROVE  x \in ready' <=> x \notin removed \cup {n} /\ Into(x)' = {}
    <3>1. CASE x \in Successors(Proposed, n)
      BY <1>1, <1>3, <1>6, <2>2, <3>1
    <3>2. CASE x \notin Successors(Proposed, n)
      BY <1>1, <1>3, <1>6, <3>2
    <3> QED
      BY <3>1, <3>2
  <2>4. ready' \subseteq Touched
    BY <1>1, <1>3, <2>1
  <2> QED
    BY <2>3, <2>4
<1>10. AcyclicGraph({e \in Proposed : e[2] \in removed \cup {n}})
  <2> DEFINE E == {e \in Proposed : e[2] \in removed}
             F == {e \in Proposed : e[2] \in removed \cup {n}}
  <2>1. SUFFICES ASSUME NEW S \in (SUBSET Nodes) \ {{}}
        PROVE \E x \in S : \A e \in F : ~(e[1] = x /\ e[2] \in S)
    BY DEF AcyclicGraph
  <2>2. \A e \in F : e[1] \in removed
    BY <1>1, <1>3 DEF Into
  <2>3. CASE n \in S
    <3>1. \A e \in F : e[1] # n
      BY <1>1, <2>2
    <3> QED
      BY <2>3, <3>1
  <2>4. CASE n \notin S
    <3>1. PICK x \in S : \A e \in E : ~(e[1] = x /\ e[2] \in S)
      BY <1>3 DEF AcyclicGraph
    <3> QED
      BY <2>4, <3>1
  <2> QED
    BY <2>3, <2>4
<1>11. AcyclicGraph({e \in Proposed : e[2] \in removed})'
  BY <1>1, <1>2, <1>10 DEF AcyclicGraph
<1> QED
  BY <1>1, <1>2, <1>3, <1>7, <1>8, <1>9, <1>11 DEF KahnInv, Arguments

LEMMA KahnNext == KahnInv /\ [Next]_vars => KahnInv'
<1> SUFFICES ASSUME KahnInv, [Next]_vars PROVE KahnInv'
  OBVIOUS
<1>1. ASSUME UNCHANGED <<arguments, kahn>>, pc \notin {"KAHN", "DONE"}, pc' \notin {"KAHN", "DONE"}
      PROVE  KahnInv'
  <2>1. Arguments' /\ removed' = removed /\ Touched' = Touched
    BY <1>1 DEF KahnInv, Arguments, arguments, kahn, Touched, Proposed
  <2> QED
    BY <1>1, <2>1 DEF KahnInv
<1>2. ASSUME UNCHANGED <<arguments, kahn>>, pc \in {"KAHN", "DONE"}, pc' \in {"KAHN", "DONE"},
             pc' = "DONE" => ready = {}
      PROVE  KahnInv'
  <2>1. UNCHANGED <<edges, predecessor, successor, indegree, ready, removed>>
    BY <1>2 DEF arguments, kahn
  <2>2. Proposed' = Proposed /\ Touched' = Touched
    BY <2>1 DEF Proposed, Touched
  <2>3. \A x : Into(x)' = Into(x)
    BY <2>1, <2>2 DEF Into
  <2>4. AcyclicGraph({e \in Proposed : e[2] \in removed})'
    BY <1>2, <2>1, <2>2 DEF KahnInv, AcyclicGraph
  <2> QED
    BY <1>2, <2>1, <2>2, <2>3, <2>4 DEF KahnInv, Arguments
<1>3. CASE Expand \/ Reached \/ Exhausted \/ Trace
  BY <1>1, <1>3 DEF Expand, Reached, Exhausted, Trace
<1>4. CASE Finish
  BY <1>2, <1>4 DEF Finish
<1>5. CASE UNCHANGED vars
  <2>1. UNCHANGED <<arguments, kahn, pc>>
    BY <1>5 DEF vars, arguments, kahn
  <2>2. pc = "DONE" => ready = {}
    BY DEF KahnInv
  <2> QED
    BY <1>1, <1>2, <2>1, <2>2
<1> QED
  BY <1>3, <1>4, <1>5, KahnCount, KahnRemove DEF Next

LEMMA KahnInit == Init => KahnInv
BY DEF Init, KahnInv, Arguments

LEMMA KahnDecides ==
  ASSUME KahnInv, pc = "DONE"
  PROVE  removed # Touched <=> ~AcyclicGraph(Proposed)
<1>1. /\ Proposed \in SUBSET (Nodes \X Nodes) /\ Touched \in SUBSET Nodes
      /\ \A e \in Proposed : e[1] \in Touched /\ e[2] \in Touched
  BY ProposedFacts DEF KahnInv
<1>2. ASSUME removed = Touched PROVE AcyclicGraph(Proposed)
  <2>1. {e \in Proposed : e[2] \in removed} = Proposed
    BY <1>1, <1>2
  <2> QED
    BY <2>1 DEF KahnInv
<1>3. ASSUME removed # Touched PROVE ~AcyclicGraph(Proposed)
  <2> DEFINE S == Touched \ removed
  <2>1. S \in SUBSET Nodes /\ S # {}
    BY <1>1, <1>3 DEF KahnInv
  <2>2. \A x \in S : \E e \in Proposed : e[2] = x /\ e[1] \in S
    BY <1>1 DEF KahnInv, Into
  <2> HIDE DEF S
  <2> QED
    BY <2>1, <2>2, NoSource
<1> QED
  BY <1>2, <1>3

-----------------------------------------------------------------------------
(* The order of ids *)

LEMMA IdsAreNumbers ==
  ASSUME NEW ids \in SUBSET Nodes
  PROVE  IsFiniteSet(ids) /\ \A n \in ids : n \in Nat
BY FS_Subset, NodesAssumption

LEMMA Ranks ==
  ASSUME NEW ids \in SUBSET Nodes, NEW n \in ids
  PROVE  Rank(ids, n) \in 1 .. Cardinality(ids)
<1> DEFINE upTo == {k \in ids : k <= n}
<1>1. IsFiniteSet(ids) /\ upTo \in SUBSET ids /\ n \in upTo
  BY IdsAreNumbers
<1> HIDE DEF upTo
<1>2. IsFiniteSet(upTo) /\ Cardinality(upTo) <= Cardinality(ids)
  BY <1>1, FS_Subset
<1>3. Cardinality(upTo) \in Nat /\ Cardinality(ids) \in Nat /\ Cardinality(upTo) # 0
  BY <1>1, <1>2, FS_CardinalityType, FS_EmptySet
<1>4. Cardinality(upTo) \in 1 .. Cardinality(ids)
  BY <1>2, <1>3
<1> QED
  BY <1>4 DEF Rank, upTo

LEMMA RanksDiffer ==
  ASSUME NEW ids \in SUBSET Nodes, NEW x \in ids, NEW y \in ids, x < y
  PROVE  Rank(ids, x) # Rank(ids, y)
<1> DEFINE X == {k \in ids : k <= x}
           Y == {k \in ids : k <= y}
<1>1. IsFiniteSet(ids) /\ X \in SUBSET Y /\ Y \in SUBSET ids /\ X # Y
  BY IdsAreNumbers
<1> HIDE DEF X, Y
<1>2. IsFiniteSet(Y)
  BY <1>1, FS_Subset
<1>3. Cardinality(X) # Cardinality(Y)
  BY <1>1, <1>2, FS_Subset
<1> QED
  BY <1>3 DEF X, Y, Rank

\* Sorted lists its ids, all of them and no others.
LEMMA SortedLists ==
  ASSUME NEW ids \in SUBSET Nodes
  PROVE  /\ Sorted(ids) \in Seq(Nodes)
         /\ {Sorted(ids)[i] : i \in 1 .. Len(Sorted(ids))} = ids
<1> DEFINE rank == [n \in ids |-> Rank(ids, n)]
<1>1. PICK size \in Nat : size = Cardinality(ids)
  BY IdsAreNumbers, FS_CardinalityType
<1>2. \A n \in ids : Rank(ids, n) \in 1 .. size
  BY <1>1, Ranks
<1>3. ASSUME NEW x \in ids, NEW y \in ids, Rank(ids, x) = Rank(ids, y) PROVE x = y
  <2>1. ~(x < y) /\ ~(y < x)
    BY <1>3, RanksDiffer
  <2> QED
    BY <2>1, IdsAreNumbers
<1>4. rank \in Injection(ids, 1 .. size)
  BY <1>2, <1>3 DEF Injection, IsInjective
<1>5. IsFiniteSet(1 .. size) /\ Cardinality(1 .. size) = size
  BY FS_Interval
<1>6. rank \in Surjection(ids, 1 .. size)
  BY <1>1, <1>4, <1>5, FS_Injection
<1>7. \A i \in 1 .. size : \E n \in ids : Rank(ids, n) = i
  BY <1>6 DEF Surjection
<1>8. PICK s : s = Sorted(ids)
  OBVIOUS
<1>9. s = [i \in 1 .. size |-> CHOOSE n \in ids : Rank(ids, n) = i]
  BY <1>1, <1>8 DEF Sorted
<1>10. \A i \in 1 .. size : s[i] \in ids /\ Rank(ids, s[i]) = i
  BY <1>7, <1>9
<1>11. \A n \in ids : s[Rank(ids, n)] = n /\ Rank(ids, n) \in 1 .. size
  BY <1>2, <1>3, <1>10
<1>12. s \in [1 .. size -> Nodes]
  BY <1>9, <1>10
<1>13. s \in Seq(Nodes) /\ Len(s) = size
  BY <1>12
<1>14. {s[i] : i \in 1 .. size} = ids
  BY <1>10, <1>11
<1> QED
  BY <1>8, <1>13, <1>14

-----------------------------------------------------------------------------
(* cycle_path *)

Found == DOMAIN parent
Waiting == {queue[i] : i \in 1 .. Len(queue)}

SearchShape ==
  /\ queue \in Seq(Nodes) /\ Waiting \subseteq Found /\ Found \subseteq Nodes
  /\ parent \in [Found -> Found \cup {NoNode}]
  /\ successor \in Found /\ parent[successor] = NoNode
  /\ \A n \in Found \ {successor} : parent[n] \in Found /\ <<parent[n], n>> \in edges
  /\ \A n \in Found : Reaches(edges, successor, n)
  /\ \A n \in Found \ Waiting : n # predecessor /\ Successors(edges, n) \subseteq Found

\* d gives every node found its distance from the successor.
Depth(d) ==
  /\ d \in [Found -> Nat] /\ d[successor] = 0
  /\ \A n \in Found \ {successor} : d[n] = d[parent[n]] + 1
  /\ \A n \in Found \ Waiting : \A x \in Successors(edges, n) : d[x] <= d[n] + 1
  /\ \A i, j \in 1 .. Len(queue) : i <= j => d[queue[i]] <= d[queue[j]]
  /\ queue # <<>> =>
       \A n \in Found : /\ d[n] <= d[queue[1]] + 1
                        /\ n \notin Waiting => d[n] <= d[queue[1]]

\* Of the way back: it leads from the cursor to the predecessor.
Traced(d) ==
  /\ queue # <<>> /\ queue[1] = predecessor
  /\ path \in Seq(Found)
  /\ IF path = <<>> THEN cursor = predecessor
     ELSE path[Len(path)] = predecessor /\ cursor = parent[path[1]]
  /\ \A i \in 1 .. Len(path) - 1 : <<path[i], path[i + 1]>> \in edges
  /\ IF cursor = NoNode THEN Len(path) = d[predecessor] + 1
                        ELSE cursor \in Found /\ d[predecessor] = Len(path) + d[cursor]

SearchInv ==
  /\ Arguments
  /\ pc \in {"SEARCH", "TRACE"} =>
       SearchShape /\ \E d : Depth(d) /\ (pc = "TRACE" => Traced(d))
  /\ pc = "SEARCH" => path = <<>>
  /\ FindsShortestCycle

LEMMA InitSearch == Init => SearchInv
<1> SUFFICES ASSUME Init PROVE SearchInv
  OBVIOUS
<1>1. queue = <<successor>> /\ parent = [n \in {successor} |-> NoNode] /\ Arguments
  BY DEF Init, Arguments
<1>2. Found = {successor} /\ Waiting = {successor}
  BY <1>1 DEF Found, Waiting
<1>3. Reaches(edges, successor, successor)
  BY DEF Reaches
<1>4. SearchShape
  BY <1>1, <1>2, <1>3 DEF SearchShape, Arguments
<1>5. Depth([n \in {successor} |-> 0])
  BY <1>1, <1>2 DEF Depth
<1> QED
  BY <1>1, <1>4, <1>5 DEF Init, SearchInv, FindsShortestCycle, Answered

LEMMA Dequeue ==
  ASSUME NEW q \in Seq(Nodes), q # <<>>, NEW s \in Seq(Nodes), NEW r, r = Tail(q) \o s
  PROVE  /\ Head(q) = q[1] /\ Len(q) \in Nat /\ Len(q) >= 1
         /\ r \in Seq(Nodes) /\ Len(r) = (Len(q) - 1) + Len(s)
         /\ \A i \in 1 .. Len(q) - 1 : r[i] = q[i + 1]
         /\ \A i \in 1 .. Len(s) : r[(Len(q) - 1) + i] = s[i]
<1>1. Len(q) \in Nat /\ Len(q) >= 1 /\ Len(s) \in Nat /\ Head(q) = q[1]
  OBVIOUS
<1>2. PICK t \in Seq(Nodes) : t = Tail(q)
  <2>1. Tail(q) \in Seq(Nodes)
    OBVIOUS
  <2> QED
    BY <2>1
<1>3. Len(t) = Len(q) - 1 /\ \A i \in 1 .. Len(q) - 1 : t[i] = q[i + 1]
  BY <1>2
<1>4. r \in Seq(Nodes) /\ Len(r) = Len(t) + Len(s)
  BY <1>2
<1>5. \A i \in 1 .. Len(t) : r[i] = t[i]
  BY <1>2
<1>6. \A i \in 1 .. Len(s) : r[Len(t) + i] = s[i]
  BY <1>1, <1>2
<1> QED
  BY <1>1, <1>3, <1>4, <1>5, <1>6

LEMMA ExpandFacts ==
  ASSUME SearchInv, Expand
  PROVE  /\ UNCHANGED <<edges, predecessor, successor, pc, path>> /\ pc = "SEARCH"
         /\ SearchShape /\ queue[1] \in Found /\ queue[1] # predecessor /\ queue # <<>>
         /\ Found' = Found \cup Successors(edges, queue[1]) /\ Found' \subseteq Nodes
         /\ \A n \in Found' : parent'[n] = IF n \in Found THEN parent[n] ELSE queue[1]
         /\ parent' = [n \in Found' |-> parent'[n]]
         /\ queue' \in Seq(Nodes) /\ Len(queue) \in Nat /\ Len(queue) >= 1
         /\ Len(queue) - 1 <= Len(queue')
         /\ \A i \in 1 .. Len(queue') :
              IF i <= Len(queue) - 1 THEN queue'[i] = queue[i + 1] ELSE queue'[i] \in Found' \ Found
         /\ Waiting' \subseteq Found'
         /\ Found' \ Waiting' \subseteq (Found \ Waiting) \cup {queue[1]}
<1>1. /\ UNCHANGED <<edges, predecessor, successor, pc, path>> /\ pc = "SEARCH"
      /\ queue # <<>> /\ Head(queue) # predecessor
  BY DEF Expand, arguments
<1>2. SearchShape /\ Arguments
  BY <1>1 DEF SearchInv
<1>3. PICK h, next, s :
        h = Head(queue) /\ next = Successors(edges, h) \ DOMAIN parent /\ s = Sorted(next)
  OBVIOUS
<1>4. /\ parent' = [n \in DOMAIN parent \cup next |-> IF n \in next THEN h ELSE parent[n]]
      /\ queue' = Tail(queue) \o s
  BY <1>3 DEF Expand
<1>5. next \in SUBSET Nodes /\ next \cap Found = {} /\ Found \cup next = Found \cup Successors(edges, h)
  BY <1>2, <1>3 DEF Successors, Arguments, Found
<1>6. s \in Seq(Nodes) /\ {s[i] : i \in 1 .. Len(s)} = next
  BY <1>3, <1>5, SortedLists
<1>7. /\ h = queue[1] /\ Len(queue) \in Nat /\ Len(queue) >= 1
      /\ queue' \in Seq(Nodes) /\ Len(queue') = (Len(queue) - 1) + Len(s)
      /\ \A i \in 1 .. Len(queue) - 1 : queue'[i] = queue[i + 1]
      /\ \A i \in 1 .. Len(s) : queue'[(Len(queue) - 1) + i] = s[i]
  BY <1>1, <1>2, <1>3, <1>4, <1>6, Dequeue DEF SearchShape
<1>8. Found' = Found \cup next /\ Found' \subseteq Nodes
  BY <1>2, <1>4, <1>5 DEF Found, SearchShape
<1>9. /\ \A n \in Found' : parent'[n] = IF n \in Found THEN parent[n] ELSE queue[1]
      /\ parent' = [n \in Found' |-> parent'[n]]
  BY <1>4, <1>5, <1>7, <1>8 DEF Found
<1>10. Len(s) \in Nat
  BY <1>6
<1>11. ASSUME NEW i \in 1 .. Len(queue')
       PROVE  IF i <= Len(queue) - 1 THEN queue'[i] = queue[i + 1] ELSE queue'[i] \in next
  <2>1. CASE i <= Len(queue) - 1
    BY <1>7, <2>1
  <2>2. CASE ~(i <= Len(queue) - 1)
    <3>1. PICK j \in 1 .. Len(s) : i = (Len(queue) - 1) + j
      <4>1. i - (Len(queue) - 1) \in 1 .. Len(s)
        BY <1>7, <1>10, <2>2
      <4>2. i = (Len(queue) - 1) + (i - (Len(queue) - 1))
        BY <1>7
      <4> QED
        BY <4>1, <4>2
    <3>2. queue'[i] = s[j] /\ s[j] \in next
      BY <1>6, <1>7, <3>1
    <3> QED
      BY <2>2, <3>2
  <2> QED
    BY <2>1, <2>2
<1>12. queue[1] \in Found /\ Waiting = {queue[i] : i \in 1 .. Len(queue)} /\ Waiting \subseteq Found
  BY <1>2, <1>7 DEF SearchShape, Waiting
<1>13. Waiting' \subseteq Found'
  <2>1. ASSUME NEW i \in 1 .. Len(queue') PROVE queue'[i] \in Found'
    <3>1. i <= Len(queue) - 1 => i + 1 \in 1 .. Len(queue)
      BY <1>7
    <3> QED
      BY <1>8, <1>11, <1>12, <3>1
  <2> QED
    BY <2>1 DEF Waiting
<1>14. ASSUME NEW n \in Found' \ Waiting' PROVE n \in (Found \ Waiting) \cup {queue[1]}
  <2>1. n \notin next
    <3>1. SUFFICES ASSUME n \in next PROVE FALSE
      OBVIOUS
    <3>2. PICK i \in 1 .. Len(s) : n = s[i]
      BY <1>6, <3>1
    <3>3. (Len(queue) - 1) + i \in 1 .. Len(queue') /\ queue'[(Len(queue) - 1) + i] = n
      BY <1>7, <1>10, <3>2
    <3> QED
      BY <3>3 DEF Waiting
  <2>2. ASSUME n \in Waiting, n # queue[1] PROVE FALSE
    <3>1. PICK i \in 1 .. Len(queue) : n = queue[i]
      BY <2>2, <1>12
    <3>2. i # 1
      BY <2>2, <3>1
    <3>3. i - 1 \in 1 .. Len(queue) - 1 /\ (i - 1) + 1 = i
      BY <1>7, <3>2
    <3>4. i - 1 \in 1 .. Len(queue') /\ queue'[i - 1] = n
      BY <1>7, <1>10, <3>1, <3>3
    <3> QED
      BY <3>4 DEF Waiting
  <2> QED
    BY <2>1, <2>2, <1>8
<1>15. Len(queue) - 1 <= Len(queue')
  BY <1>7, <1>10
<1> QED
  BY <1>1, <1>2, <1>5, <1>7, <1>8, <1>9, <1>11, <1>12, <1>13, <1>14, <1>15

LEMMA ExpandShape ==
  ASSUME SearchInv, Expand
  PROVE  SearchShape'
<1>1. PICK h : h = queue[1]
  OBVIOUS
<1>2. /\ UNCHANGED <<edges, predecessor, successor>> /\ SearchShape /\ Arguments
      /\ h \in Found /\ h # predecessor
      /\ Found' = Found \cup Successors(edges, h) /\ Found' \subseteq Nodes
      /\ \A n \in Found' : parent'[n] = IF n \in Found THEN parent[n] ELSE h
      /\ parent' = [n \in Found' |-> parent'[n]]
      /\ queue' \in Seq(Nodes) /\ Waiting' \subseteq Found'
      /\ Found' \ Waiting' \subseteq (Found \ Waiting) \cup {h}
  BY <1>1, ExpandFacts DEF SearchInv
<1>3. ASSUME NEW x \in Found' \ Found
      PROVE  <<h, x>> \in edges /\ Reaches(edges, successor, x)
  <2>1. PICK e \in edges : e[1] = h /\ e[2] = x /\ e = <<h, x>>
    BY <1>2 DEF Successors, Arguments
  <2>2. Reaches(edges, successor, h)
    BY <1>2 DEF SearchShape
  <2>3. Reaches(edges, successor, x)
    BY <2>1, <2>2 DEF Reaches
  <2> QED
    BY <2>1, <2>3
<1>4. \A n \in Found' : Reaches(edges, successor, n)
  BY <1>2, <1>3 DEF SearchShape
<1>5. ASSUME NEW n \in Found' \ {successor}
      PROVE  parent'[n] \in Found' /\ <<parent'[n], n>> \in edges
  BY <1>2, <1>3 DEF SearchShape
<1>6. parent' \in [Found' -> Found' \cup {NoNode}] /\ successor \in Found' /\ parent'[successor] = NoNode
  BY <1>2, <1>5 DEF SearchShape
<1>7. \A n \in Found' \ Waiting' : n # predecessor /\ Successors(edges, n) \subseteq Found'
  BY <1>2 DEF SearchShape
<1>8. UNCHANGED <<edges, predecessor, successor>>
  BY <1>2
<1>9. \A n \in Found' : Reaches(edges, successor, n)'
  BY <1>4, <1>8 DEF Reaches
<1>10. \A n : Successors(edges, n)' = Successors(edges, n)
  BY <1>8 DEF Successors
<1> QED
  BY <1>2, <1>5, <1>6, <1>7, <1>8, <1>9, <1>10 DEF SearchShape

LEMMA ExpandDepth ==
  ASSUME SearchInv, Expand, NEW d, Depth(d)
  PROVE  \E b : Depth(b)'
<1>1. PICK h : h = queue[1]
  OBVIOUS
<1>2. /\ UNCHANGED <<edges, predecessor, successor>> /\ SearchShape /\ queue # <<>>
      /\ h \in Found
      /\ Found' = Found \cup Successors(edges, h)
      /\ \A n \in Found' : parent'[n] = IF n \in Found THEN parent[n] ELSE h
      /\ queue' \in Seq(Nodes) /\ Len(queue) \in Nat /\ Len(queue) >= 1
      /\ \A i \in 1 .. Len(queue') :
           IF i <= Len(queue) - 1 THEN queue'[i] = queue[i + 1] ELSE queue'[i] \in Found' \ Found
      /\ Waiting' \subseteq Found'
      /\ Found' \ Waiting' \subseteq (Found \ Waiting) \cup {h}
  BY <1>1, ExpandFacts
<1>3. /\ d \in [Found -> Nat] /\ d[h] \in Nat /\ d[successor] = 0 /\ successor \in Found
      /\ \A n \in Found \ {successor} : d[n] = d[parent[n]] + 1 /\ parent[n] \in Found
      /\ \A n \in Found \ Waiting : \A x \in Successors(edges, n) : d[x] <= d[n] + 1 /\ x \in Found
      /\ \A i, j \in 1 .. Len(queue) : i <= j => d[queue[i]] <= d[queue[j]]
      /\ \A n \in Found : d[n] <= d[h] + 1 /\ (n \notin Waiting => d[n] <= d[h])
      /\ \A i \in 1 .. Len(queue) : queue[i] \in Found
  <2>1. /\ successor \in Found /\ \A n \in Found \ {successor} : parent[n] \in Found
        /\ \A n \in Found \ Waiting : Successors(edges, n) \subseteq Found
        /\ Waiting \subseteq Found
    BY <1>2 DEF SearchShape
  <2>5. \A i \in 1 .. Len(queue) : queue[i] \in Found
    BY <2>1 DEF Waiting
  <2>2. /\ d \in [Found -> Nat] /\ d[successor] = 0
        /\ \A n \in Found \ {successor} : d[n] = d[parent[n]] + 1
        /\ \A n \in Found \ Waiting : \A x \in Successors(edges, n) : d[x] <= d[n] + 1
        /\ \A i, j \in 1 .. Len(queue) : i <= j => d[queue[i]] <= d[queue[j]]
    BY DEF Depth
  <2>3. \A n \in Found : d[n] <= d[h] + 1 /\ (n \notin Waiting => d[n] <= d[h])
    BY <1>1, <1>2 DEF Depth
  <2>4. d[h] \in Nat
    BY <1>2, <2>2
  <2> QED
    BY <2>1, <2>2, <2>3, <2>4, <2>5
<1>4. PICK b : b = [n \in Found' |-> IF n \in Found THEN d[n] ELSE d[h] + 1]
  OBVIOUS
<1>5. /\ b \in [Found' -> Nat] /\ \A n \in Found : b[n] = d[n] /\ d[n] \in Nat
      /\ \A n \in Found' \ Found : b[n] = d[h] + 1
  BY <1>2, <1>3, <1>4
<1>6. \A n \in Found' : b[n] \in Nat /\ b[n] <= d[h] + 1
  BY <1>3, <1>5
<1>7. \A n \in Found' \ {successor} : b[n] = b[parent'[n]] + 1
  BY <1>2, <1>3, <1>5
<1>8. ASSUME NEW n \in Found' \ Waiting'
      PROVE  b[n] <= d[h] /\ \A x \in Successors(edges, n) : b[x] <= b[n] + 1
  <2>1. CASE n = h
    BY <1>2, <1>3, <1>5, <1>6, <2>1
  <2>2. CASE n \in Found \ Waiting
    BY <1>2, <1>3, <1>5, <2>2
  <2> QED
    BY <1>2, <2>1, <2>2
<1>9. ASSUME NEW i \in 1 .. Len(queue')
      PROVE  /\ queue'[i] \in Found' /\ d[h] <= b[queue'[i]]
             /\ i <= Len(queue) - 1 => b[queue'[i]] = d[queue[i + 1]] /\ i + 1 \in 1 .. Len(queue)
             /\ ~(i <= Len(queue) - 1) => b[queue'[i]] = d[h] + 1
  <2>1. CASE i <= Len(queue) - 1
    <3>1. i + 1 \in 1 .. Len(queue) /\ 1 \in 1 .. Len(queue) /\ 1 <= i + 1
      BY <1>2, <2>1
    <3>2. queue'[i] = queue[i + 1] /\ queue[i + 1] \in Found
      BY <1>2, <1>3, <2>1, <3>1
    <3>3. d[queue[1]] <= d[queue[i + 1]]
      BY <1>3, <3>1
    <3> QED
      BY <1>1, <1>2, <1>5, <2>1, <3>1, <3>2, <3>3
  <2>2. CASE ~(i <= Len(queue) - 1)
    <3>1. queue'[i] \in Found' \ Found
      BY <1>2, <2>2
    <3>2. b[queue'[i]] = d[h] + 1 /\ d[h] <= d[h] + 1
      BY <1>3, <1>5, <3>1
    <3> QED
      BY <2>2, <3>1, <3>2
  <2> QED
    BY <2>1, <2>2
<1>10. ASSUME NEW i \in 1 .. Len(queue'), NEW j \in 1 .. Len(queue'), i <= j
       PROVE  b[queue'[i]] <= b[queue'[j]]
  <2>1. CASE j <= Len(queue) - 1
    <3>1. i <= Len(queue) - 1 /\ i + 1 <= j + 1
      BY <1>2, <1>10, <2>1
    <3> QED
      BY <1>3, <1>9, <2>1, <3>1
  <2>2. CASE ~(j <= Len(queue) - 1)
    BY <1>6, <1>9, <2>2
  <2> QED
    BY <2>1, <2>2
<1>11. ASSUME queue' # <<>>, NEW n \in Found'
       PROVE  /\ b[n] <= b[queue'[1]] + 1
              /\ n \notin Waiting' => b[n] <= b[queue'[1]]
  <2>1. 1 \in 1 .. Len(queue')
    BY <1>2, <1>11
  <2>2. queue'[1] \in Found' /\ d[h] <= b[queue'[1]]
    BY <1>9, <2>1
  <2>3. PICK x, y, z \in Nat : x = b[n] /\ y = b[queue'[1]] /\ z = d[h]
    BY <1>3, <1>6, <2>2
  <2>4. x <= z + 1 /\ z <= y /\ (n \notin Waiting' => x <= z)
    BY <1>6, <1>8, <2>2, <2>3
  <2> QED
    BY <2>3, <2>4
<1>12. b[successor] = 0 /\ successor' = successor
  BY <1>2, <1>3, <1>5
<1>13. \A n : Successors(edges, n)' = Successors(edges, n)
  BY <1>2 DEF Successors
<1>14. PICK c : c = b /\ c = b'
  OBVIOUS
<1> QED
  BY <1>5, <1>7, <1>8, <1>10, <1>11, <1>12, <1>13 DEF Depth

LEMMA LeastNumber ==
  ASSUME NEW k \in Nat, NEW B \in SUBSET (0 .. k), B # {}
  PROVE  \E b \in B : \A c \in B : b <= c
<1> DEFINE F == {0 .. b : b \in B}
<1>1. \A T \in F : \E b \in B : T = 0 .. b
  OBVIOUS
<1>2. PICK S : S = 0 .. k
  OBVIOUS
<1>3. \A b \in B : 0 .. b \in F
  OBVIOUS
<1>4. IsFiniteSet(S) /\ F # {} /\ \A T \in F : T \subseteq S
  <2>1. IsFiniteSet(S)
    BY <1>2, FS_Interval
  <2>2. \A b \in B : 0 .. b \subseteq S
    BY <1>2
  <2> QED
    BY <2>1, <2>2
<1> HIDE DEF F
<1>5. PICK T \in F : \A U \in F : U \subseteq T => U = T
  BY <1>4, MinimalSet
<1>6. PICK b \in B : T = 0 .. b
  BY <1>1, <1>5
<1>7. ASSUME NEW c \in B PROVE b <= c
  <2>1. SUFFICES ASSUME c < b PROVE FALSE
    OBVIOUS
  <2>2. 0 .. c \subseteq T /\ 0 .. c \in F
    BY <1>3, <1>6, <2>1
  <2>3. 0 .. c = 0 .. b
    BY <1>5, <1>6, <2>2
  <2>4. b \in 0 .. b /\ b \notin 0 .. c
    BY <2>1
  <2> QED
    BY <2>3, <2>4
<1> QED
  BY <1>7

\* No walk is shorter than the depth at which the predecessor is found.
LEMMA NoShorterWalk ==
  ASSUME SearchShape, NEW d, Depth(d), queue # <<>>, queue[1] = predecessor,
         NEW k \in Nat, k < d[predecessor], NEW w \in [0 .. k -> Nodes],
         Walk(w, k, successor, predecessor)
  PROVE  FALSE
<1>1. /\ d \in [Found -> Nat] /\ d[successor] = 0
      /\ \A n \in Found \ Waiting : \A x \in Successors(edges, n) : d[x] <= d[n] + 1
      /\ \A i, j \in 1 .. Len(queue) : i <= j => d[queue[i]] <= d[queue[j]]
  BY DEF Depth
<1>2. /\ successor \in Found /\ Waiting \subseteq Found /\ queue \in Seq(Nodes)
      /\ \A n \in Found \ Waiting : Successors(edges, n) \subseteq Found
  BY DEF SearchShape
<1>3. 1 \in 1 .. Len(queue) /\ predecessor \in Found
  <2>1. 1 \in 1 .. Len(queue)
    BY <1>2
  <2> QED
    BY <1>2, <2>1 DEF Waiting
<1>4. ASSUME NEW n \in Found, d[n] < d[predecessor] PROVE n \notin Waiting
  <2>1. SUFFICES ASSUME n \in Waiting PROVE FALSE
    OBVIOUS
  <2>2. PICK i \in 1 .. Len(queue) : n = queue[i]
    BY <2>1 DEF Waiting
  <2>3. d[queue[1]] <= d[queue[i]]
    BY <1>1, <1>3, <2>2
  <2>4. d[n] \in Nat /\ d[predecessor] \in Nat
    BY <1>1, <1>3
  <2> QED
    BY <1>4, <2>2, <2>3, <2>4
<1> DEFINE Ok(i) == w[i] \in Found /\ d[w[i]] <= i
           Bad == {i \in 0 .. k : ~Ok(i)}
<1>5. Ok(0)
  BY <1>1, <1>2 DEF Walk
<1>6. ASSUME NEW i \in 1 .. k, Ok(i - 1) PROVE Ok(i)
  <2>1. PICK x, y : x = w[i - 1] /\ y = w[i]
    OBVIOUS
  <2>2. x \in Found /\ d[x] <= i - 1 /\ d[x] \in Nat /\ d[predecessor] \in Nat
    BY <1>1, <1>3, <1>6, <2>1
  <2>3. d[x] < d[predecessor]
    BY <2>2
  <2>4. x \notin Waiting /\ y \in Successors(edges, x)
    <3>1. <<x, y>> \in edges
      BY <2>1 DEF Walk
    <3> QED
      BY <1>4, <2>2, <2>3, <3>1 DEF Successors
  <2>5. y \in Found /\ d[y] <= d[x] + 1 /\ d[y] \in Nat
    BY <1>1, <1>2, <2>2, <2>4
  <2> QED
    BY <2>1, <2>2, <2>5
<1>7. Bad = {}
  <2>1. SUFFICES ASSUME Bad # {} PROVE FALSE
    OBVIOUS
  <2>2. PICK b \in Bad : \A c \in Bad : b <= c
    <3>1. Bad \in SUBSET (0 .. k)
      OBVIOUS
    <3> HIDE DEF Bad
    <3> QED
      BY <2>1, <3>1, LeastNumber
  <2>3. b # 0 /\ b \in 0 .. k /\ ~Ok(b)
    BY <1>5
  <2> HIDE DEF Ok
  <2>4. b - 1 \in 0 .. k /\ b - 1 \notin Bad /\ b \in 1 .. k
    BY <2>2, <2>3
  <2> QED
    BY <1>6, <2>3, <2>4
<1>8. Ok(k) /\ w[k] = predecessor
  <2>1. k \in 0 .. k
    OBVIOUS
  <2> HIDE DEF Ok
  <2> QED
    BY <1>7, <2>1 DEF Walk
<1>9. d[predecessor] \in Nat
  BY <1>1, <1>3
<1> QED
  BY <1>8, <1>9

LEMMA Prepend ==
  ASSUME NEW S, NEW s \in Seq(S), NEW x \in S, NEW r, r = <<x>> \o s
  PROVE  /\ r \in Seq(S) /\ Len(s) \in Nat /\ Len(r) = Len(s) + 1 /\ r[1] = x /\ r # <<>>
         /\ \A i \in 1 .. Len(s) : r[i + 1] = s[i]
OBVIOUS

LEMMA TraceStep ==
  ASSUME SearchInv, Trace
  PROVE  SearchInv'
<1>1. /\ pc = "TRACE"
      /\ UNCHANGED <<edges, predecessor, successor, queue, parent>>
      /\ SearchShape /\ Arguments
  BY DEF Trace, arguments, SearchInv
<1>2. PICK d : Depth(d) /\ Traced(d)
  BY <1>1 DEF SearchInv
<1>3. /\ predecessor \in Found /\ queue # <<>> /\ queue[1] = predecessor
      /\ d[predecessor] \in Nat /\ d \in [Found -> Nat] /\ NoNode \notin Found
      /\ path \in Seq(Found) /\ Len(path) \in Nat
  <2>1. queue # <<>> /\ queue[1] = predecessor /\ path \in Seq(Found)
    BY <1>2 DEF Traced
  <2>2. 1 \in 1 .. Len(queue) /\ Waiting \subseteq Found /\ Found \subseteq Nodes
    BY <1>1, <2>1 DEF SearchShape
  <2>3. predecessor \in Found
    BY <2>1, <2>2 DEF Waiting
  <2>4. NoNode \notin Found
    BY <2>2, NodesAssumption
  <2>5. d \in [Found -> Nat]
    BY <1>2 DEF Depth
  <2> QED
    BY <2>1, <2>3, <2>4, <2>5
<1>4. SearchShape' /\ Arguments' /\ Found' = Found
  <2>1. Waiting' = Waiting /\ Found' = Found
    BY <1>1 DEF Waiting, Found
  <2>2. \A n : Successors(edges, n)' = Successors(edges, n)
    BY <1>1 DEF Successors
  <2>3. \A n : Reaches(edges, successor, n)' <=> Reaches(edges, successor, n)
    BY <1>1 DEF Reaches
  <2>4. SearchShape'
    BY <1>1, <2>1, <2>2, <2>3 DEF SearchShape
  <2> QED
    BY <1>1, <2>1, <2>4 DEF Arguments
<1>5. CASE cursor # NoNode
  <2>1. PICK c : c = cursor
    OBVIOUS
  <2>2. path' = <<c>> \o path /\ cursor' = parent[c] /\ pc' = "TRACE" /\ c # NoNode
    BY <1>1, <1>5, <2>1 DEF Trace
  <2>3. c \in Found /\ d[predecessor] = Len(path) + d[c]
    BY <1>2, <1>5, <2>1 DEF Traced
  <2>4. /\ path' \in Seq(Found) /\ Len(path') = Len(path) + 1 /\ path'[1] = c /\ path' # <<>>
        /\ \A i \in 1 .. Len(path) : path'[i + 1] = path[i]
    BY <1>3, <2>2, <2>3, Prepend
  <2>5. path'[Len(path')] = predecessor
    <3>1. CASE path = <<>>
      BY <1>2, <2>1, <2>4, <3>1 DEF Traced
    <3>2. CASE path # <<>>
      <4>1. path[Len(path)] = predecessor /\ Len(path) \in 1 .. Len(path)
        BY <1>2, <1>3, <3>2 DEF Traced
      <4> QED
        BY <2>4, <4>1
    <3> QED
      BY <3>1, <3>2
  <2>6. ASSUME NEW i \in 1 .. Len(path') - 1 PROVE <<path'[i], path'[i + 1]>> \in edges
    <3>1. i \in 1 .. Len(path) /\ path'[i + 1] = path[i] /\ path # <<>>
      BY <1>3, <2>4
    <3>2. CASE i = 1
      <4>1. c = parent[path[1]] /\ path[1] \in Found
        BY <1>2, <1>3, <2>1, <3>1 DEF Traced
      <4>2. path[1] # successor
        BY <1>1, <2>2, <4>1 DEF SearchShape
      <4>3. <<c, path[1]>> \in edges
        BY <1>1, <4>1, <4>2 DEF SearchShape
      <4> QED
        BY <2>4, <3>1, <3>2, <4>3
    <3>3. CASE i # 1
      <4>1. i - 1 \in 1 .. Len(path) - 1 /\ (i - 1) + 1 = i /\ i - 1 \in 1 .. Len(path)
        BY <1>3, <2>4, <3>3
      <4>2. <<path[i - 1], path[i]>> \in edges
        BY <1>2, <4>1 DEF Traced
      <4>3. path'[i] = path[i - 1]
        BY <2>4, <4>1
      <4> QED
        BY <3>1, <4>2, <4>3
    <3> QED
      BY <3>2, <3>3
  <2>7. IF parent[c] = NoNode THEN Len(path') = d[predecessor] + 1
        ELSE parent[c] \in Found /\ d[predecessor] = Len(path') + d[parent[c]]
    <3>1. CASE c = successor
      BY <1>1, <1>2, <1>3, <2>3, <2>4, <3>1 DEF SearchShape, Depth
    <3>2. CASE c # successor
      <4>1. parent[c] \in Found /\ d[c] = d[parent[c]] + 1
        BY <1>1, <1>2, <2>3, <3>2 DEF SearchShape, Depth
      <4>2. parent[c] # NoNode /\ d[parent[c]] \in Nat
        BY <1>3, <4>1
      <4> QED
        BY <1>3, <2>3, <2>4, <4>1, <4>2
    <3> QED
      BY <3>1, <3>2
  <2>8. PICK b : b = d /\ b = d'
    OBVIOUS
  <2>9. Traced(b)'
    BY <1>1, <1>3, <1>4, <2>2, <2>4, <2>5, <2>6, <2>7, <2>8 DEF Traced
  <2>10. Depth(b)'
    <3>1. Waiting' = Waiting
      BY <1>1 DEF Waiting
    <3>2. \A n : Successors(edges, n)' = Successors(edges, n)
      BY <1>1 DEF Successors
    <3> QED
      BY <1>1, <1>2, <1>4, <2>8, <3>1, <3>2 DEF Depth
  <2> QED
    BY <1>4, <2>2, <2>9, <2>10 DEF SearchInv, FindsShortestCycle, Answered
<1>6. CASE cursor = NoNode
  <2>1. path' = <<predecessor>> \o path /\ pc' = "ANSWERED"
    BY <1>1, <1>6 DEF Trace
  <2>2. Len(path) = d[predecessor] + 1 /\ path # <<>>
    BY <1>2, <1>3, <1>6 DEF Traced
  <2>3. /\ path[Len(path)] = predecessor /\ parent[path[1]] = NoNode /\ path[1] \in Found
        /\ \A i \in 1 .. Len(path) - 1 : <<path[i], path[i + 1]>> \in edges
    BY <1>2, <1>3, <1>6, <2>2 DEF Traced
  <2>4. path[1] = successor
    BY <1>1, <1>3, <2>3 DEF SearchShape
  <2>5. /\ Len(path') = Len(path) + 1 /\ path'[1] = predecessor /\ path' # <<>>
        /\ \A i \in 1 .. Len(path) : path'[i + 1] = path[i]
    BY <1>3, <2>1, Prepend
  <2>6. path'[2] = successor /\ path'[Len(path')] = predecessor
    <3>1. 1 \in 1 .. Len(path) /\ Len(path) \in 1 .. Len(path) /\ 1 + 1 = 2
      BY <1>3, <2>2
    <3> QED
      BY <2>3, <2>4, <2>5, <3>1
  <2>7. ASSUME NEW i \in 2 .. Len(path') - 1 PROVE <<path'[i], path'[i + 1]>> \in edges
    <3>1. /\ i - 1 \in 1 .. Len(path) - 1 /\ i - 1 \in 1 .. Len(path) /\ i \in 1 .. Len(path)
          /\ (i - 1) + 1 = i
      BY <1>3, <2>5
    <3>2. <<path[i - 1], path[i]>> \in edges /\ path'[i] = path[i - 1] /\ path'[i + 1] = path[i]
      <4>1. <<path[i - 1], path[(i - 1) + 1]>> \in edges
        BY <2>3, <3>1
      <4> QED
        BY <2>5, <3>1, <4>1
    <3> QED
      BY <3>2
  <2>8. ASSUME NEW k \in 0 .. Len(path') - 3, NEW w \in [0 .. k -> Nodes],
               Walk(w, k, successor, predecessor)
        PROVE  FALSE
    <3>1. k \in Nat /\ k < d[predecessor]
      BY <1>3, <2>2, <2>5
    <3> QED
      BY <1>1, <1>2, <1>3, <2>8, <3>1, NoShorterWalk
  <2>9. Reaches(edges, successor, predecessor)
    BY <1>1, <1>3 DEF SearchShape
  <2>10. FindsShortestCycle'
    <3>1. Reaches(edges, successor, predecessor)'
      BY <1>1, <2>9 DEF Reaches
    <3>2. \A k \in 0 .. Len(path') - 3 :
            ~\E w \in [0 .. k -> Nodes] : Walk(w, k, successor, predecessor)'
      BY <1>1, <2>8 DEF Walk
    <3> QED
      BY <1>1, <2>5, <2>6, <2>7, <3>1, <3>2 DEF FindsShortestCycle
  <2> QED
    BY <1>4, <2>1, <2>10 DEF SearchInv
<1> QED
  BY <1>5, <1>6

LEMMA SearchUnchanged ==
  ASSUME UNCHANGED <<edges, predecessor, successor, queue, parent>>
  PROVE  /\ SearchShape' <=> SearchShape
         /\ \A d : Depth(d)' <=> Depth(d)
         /\ Arguments' <=> Arguments
<1>1. Waiting' = Waiting /\ Found' = Found
  BY DEF Waiting, Found
<1>2. \A n : Successors(edges, n)' = Successors(edges, n)
  BY DEF Successors
<1>3. \A n : Reaches(edges, successor, n)' <=> Reaches(edges, successor, n)
  BY DEF Reaches
<1>4. SearchShape' <=> SearchShape
  BY <1>1, <1>2, <1>3 DEF SearchShape
<1>5. \A d : Depth(d)' <=> Depth(d)
  BY <1>1, <1>2 DEF Depth
<1> QED
  BY <1>4, <1>5 DEF Arguments

LEMMA ReachedStep ==
  ASSUME SearchInv, Reached
  PROVE  SearchInv'
<1>1. /\ pc = "SEARCH" /\ pc' = "TRACE" /\ path = <<>> /\ cursor' = predecessor
      /\ UNCHANGED <<edges, predecessor, successor, queue, parent, path>>
      /\ queue # <<>> /\ Head(queue) = predecessor /\ SearchShape /\ Arguments
  BY DEF Reached, arguments, SearchInv
<1>2. PICK d : Depth(d)
  BY <1>1 DEF SearchInv
<1>3. queue[1] = predecessor /\ predecessor \in Found
  <2>1. queue \in Seq(Nodes) /\ Waiting \subseteq Found
    BY <1>1 DEF SearchShape
  <2>2. queue[1] = predecessor /\ 1 \in 1 .. Len(queue)
    BY <1>1, <2>1
  <2> QED
    BY <2>1, <2>2 DEF Waiting
<1>4. d[predecessor] \in Nat /\ predecessor # NoNode
  BY <1>1, <1>2, <1>3, NodesAssumption DEF Depth, Arguments
<1>5. PICK b : b = d /\ b = d'
  OBVIOUS
<1>6. Traced(b)'
  BY <1>1, <1>3, <1>4, <1>5 DEF Traced, Found
<1>7. SearchShape' /\ Depth(b)' /\ Arguments'
  BY <1>1, <1>2, <1>5, SearchUnchanged
<1> QED
  BY <1>1, <1>6, <1>7 DEF SearchInv, FindsShortestCycle, Answered

LEMMA ExhaustedStep ==
  ASSUME SearchInv, Exhausted
  PROVE  SearchInv'
<1>1. /\ pc = "SEARCH" /\ pc' = "ANSWERED" /\ path = <<>> /\ queue = <<>>
      /\ UNCHANGED <<edges, predecessor, successor, queue, parent, path>>
      /\ SearchShape /\ Arguments
  BY DEF Exhausted, arguments, SearchInv
<1>2. Waiting = {}
  BY <1>1 DEF Waiting
<1>3. ~Reaches(edges, successor, predecessor)
  <2>1. /\ Found \in SUBSET Nodes /\ successor \in Found /\ predecessor \notin Found
        /\ \A n \in Found : Successors(edges, n) \subseteq Found
    BY <1>1, <1>2 DEF SearchShape
  <2>2. \A e \in edges : e[1] \in Found => e[2] \in Found
    BY <2>1 DEF Successors
  <2> HIDE DEF Found
  <2> QED
    BY <2>1, <2>2 DEF Reaches
<1>4. ~Reaches(edges, successor, predecessor)'
  BY <1>1, <1>3 DEF Reaches
<1> QED
  BY <1>1, <1>4 DEF SearchInv, FindsShortestCycle, Arguments

LEMMA SearchNext == SearchInv /\ [Next]_vars => SearchInv'
<1> SUFFICES ASSUME SearchInv, [Next]_vars PROVE SearchInv'
  OBVIOUS
<1>1. CASE Expand
  <2>1. PICK d : Depth(d)
    BY <1>1 DEF SearchInv, Expand
  <2>2. SearchShape' /\ \E b : Depth(b)'
    BY <1>1, <2>1, ExpandShape, ExpandDepth
  <2>3. UNCHANGED <<edges, predecessor, successor, pc, path>> /\ pc = "SEARCH"
    BY <1>1 DEF Expand, arguments
  <2> QED
    BY <2>2, <2>3 DEF SearchInv, FindsShortestCycle, Answered, Arguments
<1>2. ASSUME UNCHANGED <<edges, predecessor, successor, path>>,
             Answered, Answered'
      PROVE  SearchInv'
  <2>1. Reaches(edges, successor, predecessor)' <=> Reaches(edges, successor, predecessor)
    BY <1>2 DEF Reaches
  <2>2. \A k, w : Walk(w, k, successor, predecessor)' <=> Walk(w, k, successor, predecessor)
    BY <1>2 DEF Walk
  <2>3. FindsShortestCycle'
    BY <1>2, <2>1, <2>2 DEF SearchInv, FindsShortestCycle
  <2> QED
    BY <1>2, <2>3 DEF SearchInv, Arguments, Answered
<1>3. CASE CountIndegrees \/ Finish \/ \E n \in Nodes : RemoveNode(n)
  BY <1>2, <1>3 DEF CountIndegrees, Finish, RemoveNode, arguments, Answered
<1>4. CASE UNCHANGED vars
  <2>1. UNCHANGED <<edges, predecessor, successor, queue, parent, cursor, path, pc>>
    BY <1>4 DEF vars
  <2>2. CASE Answered
    BY <1>2, <2>1, <2>2 DEF Answered
  <2>3. CASE ~Answered
    <3>1. \A d : Traced(d)' <=> Traced(d)
      BY <2>1 DEF Traced, Found
    <3>2. PICK d : (pc \in {"SEARCH", "TRACE"} => Depth(d) /\ (pc = "TRACE" => Traced(d)))
      BY DEF SearchInv
    <3>3. PICK b : b = d /\ b = d'
      OBVIOUS
    <3> QED
      BY <2>1, <2>3, <3>1, <3>2, <3>3, SearchUnchanged DEF SearchInv, FindsShortestCycle, Answered
  <2> QED
    BY <2>2, <2>3
<1> QED
  BY <1>1, <1>3, <1>4, ReachedStep, ExhaustedStep, TraceStep DEF Next

LEMMA SearchInvariant == Spec => [](SearchInv /\ KahnInv)
BY InitSearch, SearchNext, KahnInit, KahnNext, PTL DEF Spec

-----------------------------------------------------------------------------
(* The theorems *)

\* cycle_path answers with a shortest walk back from the successor to the
\* predecessor whenever there is one, over every finite graph.
THEOREM ShortestCycleFound == Spec => []FindsShortestCycle
<1>1. SearchInv => FindsShortestCycle
  BY DEF SearchInv
<1> QED
  BY <1>1, SearchInvariant, PTL

\* has_cycle decides whether the graph with the new edge in it has a cycle, and
\* agrees with cycle_path over every graph that was acyclic before: the check
\* at write time and the readiness key cannot contradict one another.
THEOREM ReadinessDecides == Spec => []ReadinessAgrees
<1>1. ASSUME SearchInv, KahnInv, pc = "DONE"
      PROVE  ReadinessAgrees
  <2>1. removed # Touched <=> ~AcyclicGraph(Proposed)
    BY <1>1, KahnDecides
  <2>2. path # <<>> <=> Reaches(edges, successor, predecessor)
    BY <1>1 DEF SearchInv, FindsShortestCycle, Answered
  <2>3. ASSUME AcyclicGraph(edges)
        PROVE  ~AcyclicGraph(Proposed) <=> Reaches(edges, successor, predecessor)
    BY <1>1, <2>3, SafeEdge, ClosesCycle DEF Proposed, SearchInv, Arguments
  <2> QED
    BY <2>1, <2>2, <2>3 DEF ReadinessAgrees
<1>2. SearchInv /\ KahnInv => ReadinessAgrees
  BY <1>1 DEF ReadinessAgrees
<1> QED
  BY <1>2, SearchInvariant, PTL
================================================================================
