SPECIFICATION Spec
CONSTANTS
  s1 = s1
  s2 = s2
  s3 = s3
  c1 = c1
  c2 = c2
  r1 = r1
  r2 = r2
  Submitters = {s1, s2, s3}
  Cancellers = {c1, c2}
  Repairers = {r1, r2}
  Casts <- MCCasts
  ForeignRepairers = {r2}
  InputOf <- MCInputOf
  CheckpointRetries = 1
  VendorRetries = 1
  MaxLate = 1
  Crashes = TRUE
  StepFaults = TRUE
CHECK_DEADLOCK FALSE
SYMMETRY MCSymmetry
INVARIANTS
  TypeOK
  CancelOwnership
  AckedCancelSticks
  AtMostOneRun
  SuccessIsBacked
  NativeSuccessIsRecorded
PROPERTIES
  NoStepAfterConfirmedCancel
  ImplementsOutcome
  KeepsItsPromises
