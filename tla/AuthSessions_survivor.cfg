SPECIFICATION Spec
CONSTANTS
  Users = {u1}
  MaxSessions = 3
  Requests = {r1, r2}
  MaxPassword = 1
  MaxWrites = 4
  Failures = FALSE
  NoUser = NoUser
INVARIANT RevocationReachesSuccessors
