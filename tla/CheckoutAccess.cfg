SPECIFICATION Spec
CONSTANTS
  Keys = {k1}
  Plans = {p1}
  Amounts = {a1}
  Subscribed = {k1}
  Handlers = {h1}
  MaxFaults = 0
  Nothing = Nothing
CHECK_DEADLOCK FALSE
INVARIANTS
  PaidAccessEnds
