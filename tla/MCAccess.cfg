CONSTANTS
  alice = alice
  carol = carol
  bob = bob
  dave = dave
  app = app
  team = team
  friends = friends
  home = home
  away = away
  projects = projects
  tasks = tasks
  notes = notes
  otherProjects = otherProjects
  otherTasks = otherTasks
  p1 = p1
  p2 = p2
  t1 = t1
  n1 = n1
  q1 = q1
  q2 = q2
  u1 = u1
  None = None
  Self = alice
  Peer = {carol}
  Registration = {projects, tasks, notes, otherProjects, otherTasks}
  TreeOf <- MCTreeOf
  RegistryOf <- MCRegistryOf
  HolderOf <- MCHolderOf
  Instance = {p1, p2, t1, n1, q1, q2, u1}
  RegistrationOf <- MCRegistrationOf
  MembersOf <- MCMembersOf
  AdminsOf <- MCAdminsOf
  Mode = {"Read", "Update"}
  Via <- MCVia
  Authorization <- MCAuthorization
  Shared <- MCShared
  Role = {team}
  Agent = {bob, app}
  Application = {app}
  Given <- MCGiven
  Reference <- MCReference
SPECIFICATION Spec
INVARIANTS
  TypeOK
  OnlyAuthorized
  AuthorizedUsable
CHECK_DEADLOCK FALSE
