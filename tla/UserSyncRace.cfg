SPECIFICATION Spec
CONSTANTS
  anna = anna
  bert = bert
  m1 = m1
  m2 = m2
  a = a
  b = b
  User = {anna, bert}
  Mail = {m1, m2}
  Tenant = {a}
  Default = a
  Seats = {a}
  Races = TRUE
  MaxChanges = 3
  MaxCrashes = 0
SYMMETRY Symmetry
INVARIANTS
  Deprovisioned
\* when the changes are used up and handled, nothing more happens
CHECK_DEADLOCK FALSE
