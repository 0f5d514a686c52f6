SPECIFICATION Spec
CONSTANTS
  t1 = t1
  t2 = t2
  m1 = m1
  m2 = m2
  NoUser = NoUser
  NoTask = NoTask
  Tasks = {t1}
  Blockers = {b1, b2}
  Validations = {v1, v2}
  Evidence = {e1, e2}
  Milestones = {}
  Users = {c, m, x}
  Coordinators = {c}
  Leads = {}
  Owners = {}
  Managers = {m}
  Executors = {x}
  TeamMembers = {m, x}
  Upstream <- NoFunction
  Gates <- NoFunction
  OtherStream <- NoFunction
  Contributors <- NoMilestone
  Required <- NoMilestone
  Automatic = {}
  Timed = {}
  MaxNeed = 2
  MaxVersion = 6
SYMMETRY Interchangeable
INVARIANTS
  VersionIdentifiesRow
  BlockedHasActiveBlocker
  OneOpenValidation
  CompletionBarHeld
  NoSelfCompletion
CHECK_DEADLOCK FALSE
PROPERTIES
  NoSilentResume
  PrecedenceOnlyOverAssignments
