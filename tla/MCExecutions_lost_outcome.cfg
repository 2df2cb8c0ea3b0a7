SPECIFICATION Spec
CONSTANTS
  s1 = s1
  s2 = s2
  s3 = s3
  c1 = c1
  c2 = c2
  r1 = r1
  r2 = r2
  Submitters = {s1, s2, s3}
  Cancellers = {c1, c2}
  Repairers = {r1}
  Casts <- MCCancelCast
  ForeignRepairers = {}
  InputOf <- MCInputOf
  CheckpointRetries = 1
  VendorRetries = 0
  MaxLate = 0
  Crashes = FALSE
  StepFaults = TRUE
CHECK_DEADLOCK FALSE
INVARIANTS
  TrueOutcomeLands
