SPECIFICATION Spec
CONSTANTS
  g1 = g1
  g2 = g2
  g3 = g3
  anna = anna
  bert = bert
  n1 = n1
  n2 = n2
  n3 = n3
  Group = {g1}
  Name = {n1}
  User = {anna, bert}
  Nesting = FALSE
  Teams = TRUE
  Locks = TRUE
  MaxChanges = 4
  MaxCrashes = 1
SYMMETRY Symmetry
\* no property speaks of what follows when a call failed or changes overtook
CONSTRAINT Calm
INVARIANTS
  TeamInSync
\* when the changes are used up and handled, nothing more happens
CHECK_DEADLOCK FALSE
