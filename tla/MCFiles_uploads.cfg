\* Racing uploads, deletions, revocations and cleanups of one path.
SPECIFICATION Spec
CONSTANTS
  r1 = r1 r2 = r2 r3 = r3 r4 = r4 r5 = r5 r6 = r6
  Requests = {r1, r2, r3, r4, r5, r6}
  Seed = Seed
  None = None
  Casts <- MCCasts
CHECK_DEADLOCK FALSE
INVARIANT TypeOK
INVARIANT OneBodyPerToken
INVARIANT ReadyHasItsBytes
PROPERTY RevocationStops
