CONSTANTS
  req = req
  t1 = t1
  t2 = t2
  t3 = t3
  Request = {req}
  Tree = {t1, t2, t3}
  Needs <- MCNeeds
  Unasked = {t2, t3}
  MaxScreens = 2
  MaxCopies = 2
  MaxApprovals = 2
  MaxTrouble = 1
SPECIFICATION FairSpec
INVARIANTS
  TypeOK
  ReceivedOnce
  ClosedOnce
  NewsResolves
PROPERTIES
  RunsEnd
CHECK_DEADLOCK FALSE
