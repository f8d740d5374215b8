SPECIFICATION Spec
CONSTANTS
  Users = {ana, ben}
  None = none
  MaxSignIns = 2
  MaxRequests = 1
  MaxRestarts = 1
  MaxFailures = 1
SYMMETRY Alike
CONSTRAINT Whole
INVARIANTS OneIdentity PinIsOwners Mirrored
PROPERTY StartsAsRemembered
CHECK_DEADLOCK FALSE
