\* Emissions, replays, retries and vendor deliveries of one event.
SPECIFICATION Spec
CONSTANTS
  c1 = c1 c2 = c2 c3 = c3 x1 = x1 x2 = x2 v = v w = w p = p
  platform = platform webhook = webhook
  u1 = u1 u2 = u2 g1 = g1 g2 = g2
  Sources = {platform, webhook}
  Platform = platform
  Observer = webhook
  Subs <- MCSubs
  SourceOf <- MCSourceOf
  EventIds = {"e"}
  Contents = {x1, x2, v, w, p}
  Announced <- MCAnnounced
  Owners = {u1, u2, endpoint}
  Sagas = {g1, g2}
  Accepts <- MCAccepts
  Rows <- MCRows
  Endpoint = endpoint
  VendorSaga = g2
  None = None
  Limit = 2
  Callers = {c1, c2, c3}
  Casts <- MCCasts
CHECK_DEADLOCK FALSE
INVARIANT TypeOK
INVARIANT RunsAsLogged
INVARIANT ReceiptsAreTrue
INVARIANT VendorRecordsAreTrue
