SPECIFICATION FairSpec
CONSTANTS
  d1 = d1
  d2 = d2
  Raws = {r1}
  Docs = {d1, d2}
  Unresolved = {d2}
  Unscorable = {d1}
  Verdicts <- FirstChanges
  Workers = {w1}
  MaxCopies = 1
  MaxReceives = 2
  MaxRetries = 1
  MaxFaults = 1
  NoEvent = NoEvent
CHECK_DEADLOCK FALSE
PROPERTIES
  CollectedConcludes
  NormalizedConcludes
