SPECIFICATION MCSpec
CONSTANTS
  s1 = s1
  SessionIds = {s1}
  c1 = c1
  c2 = c2
  Calls = {c1, c2}
  IdleTime = 1
  FullTime = 2
  MaxClock = 2
  MaxTouches = 3
  r1 = r1
  r2 = r2
  r3 = r3
  t1 = t1
  Users = {r1, r2}
  Tokens = {t1}
  Threshold = 3
  Window = 2
  Duration = 4
  TokenLife = 2
  MaxLag = 1
  LastMinute = 4
  MaxSecrets = 2
  v1 = v1
  v2 = v2
  Admins = {r1, r2}
  Settings = {v1, v2}
  DefaultSetting = v1
  app = app
  tier0 = tier0
  tier1 = tier1
  Editors = {r1, r2}
  Rows = {app, tier0, tier1}
  Batches <- BatchesSent
  MaxVersion = 2
  key = key
  body1 = body1
  body2 = body2
  Keys = {key}
  Bodies = {body1, body2}
  Requests = {r1, r2, r3}
  None = None
  Lifetime = 1
  MaxTime = 1
SYMMETRY Alike
CHECK_DEADLOCK FALSE
INVARIANTS
  ServedOnlyLive
  StoresAgree
  FailuresBounded
  SpentOnce
  OneCurrentValue
  MirrorInStep
PROPERTIES
  FactorStays
  EditsAreCompareAndSet
  PromiseKept
