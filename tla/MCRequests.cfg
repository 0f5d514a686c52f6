SPECIFICATION MCSpec
CONSTANTS
  j1 = j1
  j2 = j2
  w1 = w1
  NoJob = NoJob
  Jobs = {j1, j2}
  Workers = {w1}
  MaxRedeliveries = 2
  e1 = e1
  r1 = r1
  r2 = r2
  Planned = Planned
  Items = {e1}
  Callers = {r1, r2}
  MaxUploads = 2
  MaxFailures = 2
  key = key
  body1 = body1
  body2 = body2
  Keys = {key}
  Bodies = {body1, body2}
  Requests = {r1, r2}
  None = None
  Lifetime = 1
  MaxTime = 1
CHECK_DEADLOCK FALSE
INVARIANTS
  VerdictNamesBlob
PROPERTIES
  PendingIsParsed
  FinalVerdict
  VerdictLands
  RequestsEnd
