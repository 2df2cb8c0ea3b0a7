SPECIFICATION Spec
CONSTANTS
  r1 = r1
  r2 = r2
  r3 = r3
  v1 = v1
  c1 = c1
  c2 = c2
  o1 = o1
  o2 = o2
  Refreshers = {r1, r2, r3}
  Revokers = {v1}
  Consents = {c1, c2}
  Operators = {o1, o2}
  FlightOf <- MCFlightOf
  Decides <- MCDecides
  Casts <- MCCasts
  MaxTokens = 4
CHECK_DEADLOCK FALSE
INVARIANTS
  TypeOK
  OneWinnerPerGeneration
  RevokedIsConfirmed
  FailuresCounted
  HealthyIsLive
PROPERTIES
  RevokedIsTerminal
