SPECIFICATION Spec
CONSTANTS
  Emails = {ann, bob}
  AdminEmails = {ann}
  MaxUsers = 4
  MaxInvites = 1
  MaxProjects = 2
  Slugs = {s1, s2}
  GivenRoles = {"admin", "viewer"}
  Scenarios <- MCScenarios
  NoRow = NoRow
  ann = ann
  bob = bob
  s1 = s1
  s2 = s2
\* The budgets run out, and then nothing is left to do.
CHECK_DEADLOCK FALSE
INVARIANTS InvitedOnly DoneIsRecorded
SYMMETRY SlugSymmetry
PROPERTIES AdminRemains KeepsContract
