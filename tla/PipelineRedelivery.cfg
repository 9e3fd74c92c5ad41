SPECIFICATION Spec
CONSTANTS
  d1 = d1
  d2 = d2
  Raws = {r1}
  Docs = {d1}
  Unresolved = {}
  Unscorable = {}
  Verdicts <- FirstChanges
  Workers = {w1}
  MaxCopies = 1
  MaxReceives = 3
  MaxRetries = 1
  MaxFaults = 1
  NoEvent = NoEvent
CHECK_DEADLOCK FALSE
INVARIANTS
  FinishedWorkIsNotPoison
