SPECIFICATION Spec
CONSTANTS
  Sources = {s1}
  LastWindow = 1
  Due <- DueAtZero
  MaxRows = 2
  MaxCopies = 1
  MaxReceives = 1
  MaxRetries = 0
  MaxFaults = 2
  Schedulers = {p1, p2}
  LeaseMayLapse = FALSE
  Free = Free
  Orphan = Orphan
  None = None
  Workers = {w1}
  Contents = {c1}
  VisibilityMayLapse = FALSE
  Nothing = Nothing
SYMMETRY Symmetry
INVARIANTS
  TypeOK
  OneJobPerSlot
  UnsentIsRecoverable
PROPERTIES
  TickCoversDue
