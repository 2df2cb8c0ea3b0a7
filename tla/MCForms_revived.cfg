\* A rotation writes the grant, and the deletion of the sessions fails.
SPECIFICATION Spec
CONSTANTS
  h1 = h1 h2 = h2 e1 = e1 p1 = p1 o1 = o1 k1 = k1 k2 = k2 v1 = v1 v2 = v2
  s1 = s1 s2 = s2 s3 = s3 r1 = r1 r2 = r2
  Handles = {h1, h2}
  Embeds = {e1}
  Publications = {p1}
  Operators = {o1}
  FormIds = {"f", "g"}
  Prints = {"a", "b"}
  Keys = {k1, k2}
  Values = {v1, v2}
  Submits = {s1, s2, s3}
  Rebinds = {r1, r2}
  SweepLimit = 1
  None = None
  Casts <- MCCasts
CHECK_DEADLOCK FALSE
INVARIANT NeverRevived
