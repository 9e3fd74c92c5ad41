SPECIFICATION Spec
CONSTANTS
  d1 = d1
  d2 = d2
  Raws = {r1}
  Docs = {d1}
  Unresolved = {d1}
  Unscorable = {d1}
  Verdicts <- FirstChanges
  Workers = {w1, w2}
  MaxCopies = 1
  MaxReceives = 2
  MaxRetries = 1
  MaxFaults = 2
  NoEvent = NoEvent
CHECK_DEADLOCK FALSE
SYMMETRY Symmetry
INVARIANTS
  TypeOK
  OneSignalPerDocument
PROPERTIES
  NothingStranded
  KeepsJourney
