SPECIFICATION FairSpec
CONSTANTS
  o1 = o1
  o2 = o2
  Outputs = {o1, o2}
  Tenants = {1, 2}
  Users = {1, 2}
  Staff <- StaffOfFirst
  PrivateTo <- FirstIsPublic
  Shielded = FALSE
  Serviced = {1, 2}
  Onboarded = {1}
  Focused = {1}
  Roles = {"CTO"}
  OwnerRoles <- Unowned
  MaxMoves = 1
  Workers = {w1, w2}
  MaxCopies = 1
  MaxReceives = 2
  MaxRetries = 0
  MaxFaults = 1
  NoEvent = NoEvent
CHECK_DEADLOCK FALSE
INVARIANTS
  TypeOK
PROPERTIES
  DueBriefed
  KeepsMemory
  KeepsBriefing
  AnnouncedIsDelivered
