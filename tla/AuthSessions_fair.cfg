SPECIFICATION FairSpec
CONSTANTS
  Users = {u1}
  MaxSessions = 2
  Requests = {r1, r2}
  MaxPassword = 1
  MaxWrites = 3
  Failures = FALSE
  NoUser = NoUser
PROPERTIES
  OldSessionsDie
  RotationReaches
