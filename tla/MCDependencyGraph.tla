--------------------------- MODULE MCDependencyGraph ---------------------------
\* An instance of DependencyGraph: three Tasks that imports
\* create, one Milestone, two concurrent requests.
EXTENDS DependencyGraph, TLC

Interchangeable == Permutations(Tasks \ Planned) \cup Permutations(Txns)
===============================================================================
