CONSTANTS
  alice = alice
  team = team
  toTeam = toTeam
  toAlice = toAlice
  first = first
  second = second
  Agent = {alice}
  Role = {team}
  DA = {toTeam, toAlice}
  GranteeOf <- MCGranteeOf
  DelegatedDA = {toAlice}
  Run = {r1, r2}
  GrantRun = {r1, r2}
  None = None
  MaxLost = 1
  Activity = {first, second}
  Carries <- MCCarries
  Application = {}
SPECIFICATION FairSpec
INVARIANTS
  Inv
  DoneMeansInForce
  LinkedGrantsUsable
  SerialRegenerationExact
  LastPatchKept
PROPERTIES
  KeepsPromise
  RunsComplete
CHECK_DEADLOCK FALSE
