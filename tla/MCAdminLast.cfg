CONSTANTS
  alice = alice
  bob = bob
  add = add
  drop = drop
  dropToo = dropToo
  Person = {alice, bob}
  Founder = {alice, bob}
  Addition = {}
  Removal = {drop, dropToo}
  RegistrySet = registrySet
  DataRegistry = {data}
  Run = {r1, r2}
  None = None
  Personal = FALSE
  MaxLost = 0
SPECIFICATION Spec
INVARIANTS
  NeverAdminless
CHECK_DEADLOCK FALSE
