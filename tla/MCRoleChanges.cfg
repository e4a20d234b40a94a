CONSTANTS
  alice = alice
  bob = bob
  team = team
  toTeam = toTeam
  fromTeam = fromTeam
  Agent = {alice, bob}
  Role = {team}
  DA = {toTeam, fromTeam}
  GranteeOf <- MCGranteeOf
  OwnerRole <- MCOwnerRole
  DelegatedDA = {fromTeam}
  Run = {past, r1, r2}
  GrantRun = {}
  RoleRun = {r1, r2}
  Past = past
  None = None
  MaxLost = 0
  Activity = {}
  Carries <- NoActivity
  Application = {bob}
  Creation = {create}
  Update = {update}
  Deletion = {delete}
  Stored = {toTeam, fromTeam}
SPECIFICATION RoleSpec
SYMMETRY Symmetry
INVARIANTS
  RoleTypeOK
  RegistrationsCurrent
  DeletedRoleGone
CHECK_DEADLOCK FALSE
