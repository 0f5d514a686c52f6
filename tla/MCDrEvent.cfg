SPECIFICATION Spec
CONSTANTS
  parent = parent
  child = child
  a1 = a1
  a2 = a2
  u1 = u1
  u2 = u2
  u3 = u3
  p1 = p1
  p2 = p2
  Events = {parent, child}
  Apps = {a1, a2}
  Users = {u1, u2, u3}
  Txns = {p1, p2}
  EventOf <- MCEventOf
  None = None
CHECK_DEADLOCK FALSE
SYMMETRY Sym
INVARIANTS
  AppsFollowEvent
  PendingMatchesStatus
  CompletedWasValidated
PROPERTIES
  ParentClosesLast
  EndedEventsRest
