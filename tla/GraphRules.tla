------------------------------ MODULE GraphRules ------------------------------
\* Reachability and acyclicity of a set of edges over Nodes, as definitions to
\* hold the program's searches against.
CONSTANT Nodes

\* b can be reached from a: it is in every set that has a and its successors.
Reaches(E, a, b) ==
  \A S \in SUBSET Nodes :
    a \in S /\ (\A e \in E : e[1] \in S => e[2] \in S) => b \in S

\* Every nonempty set of nodes has one that none of them follows.
AcyclicGraph(E) ==
  \A S \in (SUBSET Nodes) \ {{}} :
    \E n \in S : \A e \in E : ~(e[1] = n /\ e[2] \in S)
===============================================================================
