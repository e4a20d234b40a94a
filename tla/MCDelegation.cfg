CONSTANTS
  owner = owner
  alice = alice
  kim = kim
  source = source
  inheriting = inheriting
  Owner = owner
  Agent = {owner, alice, kim}
  Source = {source, inheriting}
  SourceGrant <- MCSourceGrant
  Issue = {i1, i2}
  Message <- MCMessage
  Revocation = {v1, v2}
  None = None
  MaxListed = 1
  MaxBegun = 3
  MaxLost = 1
SPECIFICATION FairSpec
INVARIANTS
  TypeOK
  RevokedByRightful
  Rooted
  InheritingRevoked
  RevokedUnlinked
PROPERTIES
  RevocationsEnd
CHECK_DEADLOCK FALSE
