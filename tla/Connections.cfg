SPECIFICATION Spec
CONSTANTS
  t1 = t1
  t2 = t2
  p1 = p1
  p2 = p2
  school = school
  company = company
  Alias = {school, company}
  Tenant = {t1, t2}
  App = {p1, p2}
  Home <- MCHome
  Session = {"s1"}
  MaxUploads = 2
  MaxCommands = 3
  MaxCrashes = 1
SYMMETRY MCSymmetry
INVARIANTS TypeOK Consented TokenOfTenant SameConnections
PROPERTY LatestAnswer
CHECK_DEADLOCK FALSE
