SPECIFICATION ListingSpec
CONSTANTS
  Transactions = {"t1"}
  Filters = {"all"}
  Everything = "all"
  Matches <- OnlyLinked
  Fields = {"name", "amount"}
  MaxPast = 1
  MaxMishaps = 0
PROPERTY OwnSavesStay
CHECK_DEADLOCK FALSE
