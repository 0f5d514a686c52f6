SPECIFICATION OwnerSpec
CONSTANTS
  r1 = r1
  r2 = r2
  OwnerEditors = {r1, r2}
CHECK_DEADLOCK FALSE
INVARIANTS
  PrimaryPresent
