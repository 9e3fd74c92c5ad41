SPECIFICATION Spec
CONSTANTS
  o1 = o1
  o2 = o2
  Outputs = {o1}
  Tenants = {1, 2}
  Users = {1, 2}
  Staff <- StaffOfFirst
  PrivateTo <- FirstIsPublic
  Shielded = TRUE
  Serviced = {1, 2}
  Onboarded = {1}
  Focused = {1}
  Roles = {"CTO"}
  OwnerRoles <- Unowned
  MaxMoves = 0
  Workers = {w1}
  MaxCopies = 1
  MaxReceives = 2
  MaxRetries = 0
  MaxFaults = 0
  NoEvent = NoEvent
CHECK_DEADLOCK FALSE
PROPERTIES
  DueBriefed
