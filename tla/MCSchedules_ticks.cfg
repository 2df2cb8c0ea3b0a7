SPECIFICATION FairSpec
CONSTANTS
  t1 = t1
  t2 = t2
  Ids <- MCIds
  OrgOf <- MCOrgOf
  Owners = {"u", "v"}
  Plans <- MCPlans
  Year = 2
  Inputs = {"a", "b"}
  Ticks = {t1, t2}
  MaxOrgs = 1
  PerOrg = 1
  QuarantineAfter = 2
  Horizon = 2
  Cycle = 2
  Casts <- MCCasts
INVARIANTS TypeOK NoWindowSkipped ParksAreEarned
PROPERTY DueSettles
