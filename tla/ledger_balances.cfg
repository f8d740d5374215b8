SPECIFICATION Spec
CONSTANTS
  a1 = a1
  a2 = a2
  a3 = a3
  v1 = v1
  v2 = v2
  None = None
  Accounts = {a1, a2, a3}
  Vaults = {v1, v2}
  VaultOf <- ThreeVaultOf
  Requests = {r1, r2}
  Keys = {k1, k2}
  Destinations <- AnyAccount
  Inputs <- BalanceInputs
  Openings = {2}
  FirstOpening <- ThreeOpenings
  VaultOpening <- TwoOpenings
  Statuses = {TRUE}
  Categories = {c1}
  Editors = {e1}
  Admins = {}
  Patches = {}
  Digits = {4}
  DefaultDigits = 4
  MaxMoneyMinor = 3
  MaximumDigits = 4
  MaximumSequenceNumber = 9
  MaxLedgerVersion = 3
INVARIANTS BalancesBounded BalanceIntegrity
PROPERTIES ArchivedFrozen BooksSpec
SYMMETRY Clients
CHECK_DEADLOCK FALSE
