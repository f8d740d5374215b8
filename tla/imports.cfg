SPECIFICATION Spec
CONSTANTS
  s1 = s1
  s2 = s2
  l1 = l1
  t1 = t1
  n1 = n1
  n2 = n2
  e1 = e1
  Invalid = Invalid
  None = None
  Sessions = {s1, s2}
  Rows = {1, 2}
  Lines = {l1}
  Statements <- Statement
  Existing = {t1}
  Fresh = {n1, n2}
  Editors = {e1}
  Mutable = {t1}
INVARIANTS ClearedOnce CarriedOutOnce ResultMatchesEvidence
CHECK_DEADLOCK FALSE
SYMMETRY Symmetry
