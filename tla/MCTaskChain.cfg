SPECIFICATION Spec
CHECK_DEADLOCK FALSE
CONSTANTS
  t1 = t1
  t2 = t2
  m1 = m1
  m2 = m2
  NoUser = NoUser
  NoTask = NoTask
  Tasks = {t1, t2}
  Blockers = {b1}
  Validations = {v1, v2}
  Evidence = {}
  Milestones = {m1, m2}
  Users = {c, l}
  Coordinators = {c}
  Leads = {l}
  Owners = {l}
  Managers = {}
  Executors = {}
  TeamMembers = {}
  Upstream <- ChainUpstream
  Gates <- ChainGates
  OtherStream <- ChainOtherStream
  Contributors <- ChainContributors
  Required <- ChainRequired
  Automatic = {m1}
  Timed = {m2}
  MaxNeed = 0
  MaxVersion = 4
SYMMETRY Interchangeable
INVARIANTS
  UpstreamRespected
  MilestoneEarned
  MilestonesUpToDate
