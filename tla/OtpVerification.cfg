SPECIFICATION FairSpec
CONSTANTS
  Emails = {e1}
  Requests = {r1, r2}
  Max_Attempts = 2
  Cooldown = 1
  Ttl = 1
  MaxTokens = 2
  MaxRegistrations = 2
  Failures = TRUE
  NoRequest = NoRequest
INVARIANTS
  AttemptsCounted
  OnePending
  GrantsEarned
  VerifiedActivates
PROPERTIES
  DeadStaysDead
  RequestsEnd
