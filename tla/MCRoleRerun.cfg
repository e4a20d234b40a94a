CONSTANTS
  alice = alice
  bob = bob
  team = team
  toTeam = toTeam
  fromTeam = fromTeam
  Agent = {alice}
  Role = {team}
  DA = {toTeam}
  GranteeOf <- OneGranteeOf
  OwnerRole <- OneOwnerRole
  DelegatedDA = {}
  Run = {past, r1}
  GrantRun = {}
  RoleRun = {r1}
  Past = past
  None = None
  MaxLost = 1
  Activity = {}
  Carries <- NoActivity
  Application = {}
  Creation = {}
  Update = {update}
  Deletion = {}
  Stored = {toTeam}
SPECIFICATION RoleSpec
INVARIANTS
  RerunIsIdempotent
CHECK_DEADLOCK FALSE
