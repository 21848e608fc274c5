SPECIFICATION Spec
CONSTANTS
  g1 = g1
  g2 = g2
  g3 = g3
  anna = anna
  bert = bert
  n1 = n1
  n2 = n2
  n3 = n3
  Group = {g1}
  Name = {n1, n2}
  User = {anna, bert}
  Nesting = FALSE
  Teams = FALSE
  Locks = TRUE
  MaxChanges = 3
  MaxCrashes = 0
SYMMETRY Symmetry
INVARIANTS
  GroupsClean
\* when the changes are used up and handled, nothing more happens
CHECK_DEADLOCK FALSE
