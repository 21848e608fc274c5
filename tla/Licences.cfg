SPECIFICATION Spec
CONSTANTS
  u1 = u1
  u2 = u2
  g1 = g1
  g2 = g2
  word = word
  teams = teams
  visio = visio
  User = {u1, u2}
  Groups <- MCGroups
  Skus <- MCSkus
  Plan = {word, teams, visio}
  PlansOf <- MCPlansOf
  Office = {word}
  Seats <- MCSeats
  Profile <- MCProfile
  MaxChanges = 4
  MaxCrashes = 1
INVARIANTS TypeOK SeatsReturned OneLicence LicenceAsDemanded
PROPERTY KeepsLicence
SYMMETRY MCSymmetry
CHECK_DEADLOCK FALSE
