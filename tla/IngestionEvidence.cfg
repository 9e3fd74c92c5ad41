SPECIFICATION Spec
CONSTANTS
  Sources = {s1}
  LastWindow = 1
  Due <- DueAtZero
  MaxRows = 1
  MaxCopies = 1
  MaxReceives = 2
  MaxRetries = 1
  MaxFaults = 1
  Schedulers = {p1}
  LeaseMayLapse = TRUE
  Free = Free
  Orphan = Orphan
  None = None
  Workers = {w1, w2}
  Contents = {c1, c2}
  VisibilityMayLapse = TRUE
  Nothing = Nothing
SYMMETRY Symmetry
INVARIANTS
  CompletedHasEvidence
PROPERTIES
  NoWorkDropped
  KeepsLedger
