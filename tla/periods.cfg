SPECIFICATION Spec
CONSTANTS
  a1 = a1
  x1 = x1
  m1 = m1
  m2 = m2
  c1 = c1
  c2 = c2
  None = None
  Members = {m1, m2}
  Approvers = {m1}
  Managers = {m1}
  Accounts = {a1}
  Strangers = {x1}
  OwnerOf <- OneOwnedBy
  Ids = {1, 2}
  Bodies <- Flows
  Categories = {c1, c2}
  Reviewers = {p1, p2}
  Runs = {q1}
  MaxLedgerVersion = 4
INVARIANTS MoneyReconciles SnapshotMeetsRevisions ClosedStaysClosed RereviewNeedsChange
CONSTRAINT Focus
SYMMETRY Swap
CHECK_DEADLOCK FALSE
