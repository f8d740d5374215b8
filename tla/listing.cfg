SPECIFICATION ListingSpec
CONSTANTS
  Transactions = {"t1", "t2"}
  Filters = {"all", "some"}
  Everything = "all"
  Matches <- OneListed
  Fields = {"name"}
  MaxPast = 1
  MaxMishaps = 1
INVARIANT DrawerMatchesUrl
PROPERTY DeletionStays
CHECK_DEADLOCK FALSE
CONSTRAINT Focus
