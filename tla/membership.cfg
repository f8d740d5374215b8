SPECIFICATION Spec
CONSTANTS
  o1 = o1
  m1 = m1
  m2 = m2
  None = None
  Users = {o1, m1, m2}
  Founder = o1
  FirstMembers <- Household
  Invitations = {i1, i2}
  JoinRequests = {j1}
  Asks <- HouseholdAsks
  Calls = {c1, c2}
INVARIANTS OwnersGrantedByOwners DecidedOnce
PROPERTIES OwnersStay AdministratorsGuarded
SYMMETRY Symmetry
CHECK_DEADLOCK FALSE
