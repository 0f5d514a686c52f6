SPECIFICATION Spec
CONSTANTS
  Tasks = {t1, t2, t3}
  Milestones = {m1}
  Planned = {}
  Txns = {p, q}
  NoTxn = NoTxn
SYMMETRY Interchangeable
INVARIANTS
  Acyclic
PROPERTIES
  ImportKeepsEdges
