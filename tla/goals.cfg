SPECIFICATION Spec
CONSTANTS
  g1 = g1
  g2 = g2
  k1 = k1
  k2 = k2
  t1 = t1
  n1 = n1
  n2 = n2
  c1 = c1
  c2 = c2
  e1 = e1
  None = None
  GoalIds = {g1, g2}
  Targets = {3}
  Opening <- Begun
  Editable = {g2}
  Keys = {k1, k2}
  Amounts = {1, 2}
  Existing = {t1}
  Fresh = {n1, n2}
  Calls = {c1, c2}
  Requests <- Mixed
  Editors = {e1}
  Deletable = {t1, n1}
INVARIANTS WithinTarget AppliedOnce ProgressAddsUp
PROPERTIES RetryReplays
CHECK_DEADLOCK FALSE
