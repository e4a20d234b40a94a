CONSTANTS
  Grant = {g1, g2}
  Run = {r1, r2}
  MaxAttempts = 2
SPECIFICATION FairSpec
INVARIANTS
  TypeOK
  CopiesMatchList
  ListHeals
PROPERTIES
  RunsEnd
CHECK_DEADLOCK FALSE
