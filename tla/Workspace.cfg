SPECIFICATION Spec
CONSTANTS
  lead = lead
  pilot = pilot
  newcomer = newcomer
  eLead = eLead
  ePilot = ePilot
  None = None
  Users <- MCUsers
  Members <- MCMembers
  Staff <- MCStaff
  Emails <- MCEmails
  EmailOf <- MCEmailOf
  SessionOf <- MCSessionOf
  n1 = n1
  Pilot = pilot
  PilotEmail = ePilot
  Subjects = {s1, s2}
  Sessions = {n1, n2, n3}
  Handlers = {h1, h2}
  Keys = {k1, k2}
  Releases = 2
  Admins = {lead, pilot}
  Reader = lead
  Resolvers = {lead, pilot}
  Cases = {c1}
  EventKeys = {x1}
  Instants = {1, 2}
  Allotments <- MCAllotments
  MaxFaults = 1
CHECK_DEADLOCK FALSE
INVARIANTS
  TypeOK
  AccountsAreReachable
  ConsentIsEvidenced
  StaleIsExplained
  CheckpointsFitEngagement
PROPERTIES
  KeepsAccounts
  OverStaysOver
  EditRestsOnConsent
  DecisionIsFinal
