SPECIFICATION VSpec
CONSTANTS
  t1 = t1
  t2 = t2
  p1 = p1
  Chains = {tenant, global}
  Uuids = {u1, u2, u3, u4}
  Procs = {p1}
  Threads = {t1, t2}
  ProcOf <- OneProcess
  RowLocks = TRUE
  CheckpointEvery = 2
  NoThread = NoThread
  NoHead = NoHead
  NoUuid = NoUuid
  NoChain = NoChain
  Verifiers = {v1}
  DamagedLedgers <- MCDamagedLedgers
  MaxDamage = 1
  NoDigest = NoDigest
INVARIANTS ValidMeansWhole ComplaintsExplained RefusedOnlyAfterDamage
CHECK_DEADLOCK FALSE
SYMMETRY UuidSymmetry
