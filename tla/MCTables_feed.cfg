\* Racing single and batch writes, deletions of the table, one subscriber.
SPECIFICATION Spec
CONSTANTS
  r1 = r1 r2 = r2 r3 = r3 s1 = s1 u1 = u1 u2 = u2
  Docs = {1, 2, 3}
  Users = {u1, u2}
  Owner = u1
  Requests = {r1, r2, r3}
  Readers = {s1}
  Limit = 1
  Times = {1, 2}
  Seed = Seed
  None = None
  Casts <- MCCasts
CHECK_DEADLOCK FALSE
INVARIANT TypeOK
INVARIANT FeedComplete
INVARIANT OkIsEarned
