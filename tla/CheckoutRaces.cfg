SPECIFICATION FairSpec
CONSTANTS
  Keys = {k1}
  Plans = {p1, p2}
  Amounts = {a1, a2}
  Subscribed = {k1}
  Handlers = {h1, h2}
  MaxFaults = 2
  Nothing = Nothing
CHECK_DEADLOCK FALSE
INVARIANTS
  TypeOK
  OneGrantPerQuote
  PlanIsPaidFor
PROPERTIES
  ImplementsSale
  PaidIsInvoiced
