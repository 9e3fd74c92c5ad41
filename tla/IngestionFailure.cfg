SPECIFICATION Spec
CONSTANTS
  Sources = {s1}
  LastWindow = 1
  Due <- DueAtZero
  MaxRows = 1
  MaxCopies = 1
  MaxReceives = 2
  MaxRetries = 1
  MaxFaults = 0
  Schedulers = {p1}
  LeaseMayLapse = FALSE
  Free = Free
  Orphan = Orphan
  None = None
  Workers = {w1}
  Contents = {c1}
  VisibilityMayLapse = FALSE
  Nothing = Nothing
PROPERTIES
  FailureStaysRecorded
