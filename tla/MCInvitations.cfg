CONSTANTS
  MaxAccepts = 2
  MaxIds = 2
  MaxLinks = 2
  MaxAttempts = 2
  MaxTrouble = 1
SPECIFICATION FairSpec
INVARIANTS
  TypeOK
  InvitationKept
  RegisteredOnce
  ReadableWhenQuiet
  DoneMeansConnected
PROPERTIES
  LegsEnd
CHECK_DEADLOCK FALSE
