SPECIFICATION Spec
CONSTANTS
  Users = {u1}
  MaxSessions = 3
  Requests = {r1, r2}
  MaxPassword = 2
  MaxWrites = 4
  Failures = TRUE
  NoUser = NoUser
SYMMETRY Symmetry
INVARIANTS
  LineageSound
  StaleSessionsExplained
PROPERTY SignedOutStaysOut
