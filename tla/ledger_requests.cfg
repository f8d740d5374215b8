SPECIFICATION Spec
CONSTANTS
  a1 = a1
  a2 = a2
  a3 = a3
  v1 = v1
  v2 = v2
  None = None
  Accounts = {a1}
  Vaults = {v1}
  VaultOf <- OneVaultOf
  Requests = {r1, r2}
  Keys = {k1, k2}
  Destinations <- AnyAccount
  Inputs <- NumberingInputs
  Openings = {}
  FirstOpening <- OneOpening
  VaultOpening <- OneVault
  Statuses = {TRUE}
  Categories = {c1, c2}
  Editors = {}
  Admins = {d1}
  Patches <- NumberingPatches
  Digits = {1, 4}
  DefaultDigits = 4
  MaxMoneyMinor = 3
  MaximumDigits = 4
  MaximumSequenceNumber = 3
  MaxLedgerVersion = 3
INVARIANTS HighWater AutomaticNeverCollides JournalComplete SingleEffect
SYMMETRY Clients
CHECK_DEADLOCK FALSE
