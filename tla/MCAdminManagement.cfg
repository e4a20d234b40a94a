CONSTANTS
  alice = alice
  bob = bob
  add = add
  drop = drop
  dropToo = dropToo
  Person = {alice, bob}
  Founder = {alice}
  Addition = {add}
  Removal = {drop, dropToo}
  RegistrySet = registrySet
  DataRegistry = {data}
  Run = {r1, r2}
  None = None
  Personal = FALSE
  MaxLost = 1
SPECIFICATION FairSpec
INVARIANTS
  TypeOK
  MarksMatchAuthorizations
  AccessMatchesAuthorizations
  LastAdminGuarded
PROPERTIES
  AdminRunsComplete
CHECK_DEADLOCK FALSE
