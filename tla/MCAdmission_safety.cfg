SPECIFICATION Spec
CONSTANTS
  e1 = e1
  e2 = e2
  e3 = e3
  r1 = r1
  r2 = r2
  r3 = r3
  r4 = r4
  r5 = r5
  o1 = o1
  o2 = o2
  Ids = {e1, e2, e3}
  Requests = {r1, r2, r3, r4, r5}
  IdOf <- MCIdOf
  RouteOf <- MCRouteOf
  Operators = {o1, o2}
  EditOf <- MCEditOf
  Casts <- MCCasts
  MaxLimit = 2
CHECK_DEADLOCK FALSE
INVARIANTS
  TypeOK
  WithinLimit
PROPERTIES
  ProviderRunsOnce
  ImplementsRows
