SPECIFICATION Spec
CONSTANTS
  t1 = t1
  owning = owning
  c = c
  x = x
  None = None
  Blockers = {1, 2}
  Tasks = {t1}
  Users = {c, x}
  Teams = {owning}
  TaskOf <- MCTaskOf
  OwningTeam <- MCOwningTeam
  AssigneeOf <- MCAssigneeOf
  RoleHolders = {c}
  Executors = {x}
  MembersOf <- MCMembersOf
  ManagerOf <- MCManagerOf
  FirstParticipants = {c}
  Sweeps = {s1, s2}
  MaxCrashes = 1
INVARIANTS
  EscalatedOnce
  AlertMeansUnrouted
  OwnerSeesEvent
PROPERTIES
  DueIsEscalated
