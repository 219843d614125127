SPECIFICATION FairSpec
CONSTANTS
  t1 = t1
  t2 = t2
  t3 = t3
  p1 = p1
  p2 = p2
  Chains = {tenant, global}
  Uuids = {u1, u2, u3, u4}
  Procs = {p1, p2}
  Threads = {t1, t2, t3}
  ProcOf <- TwoProcesses
  RowLocks = TRUE
  CheckpointEvery = 2
  NoThread = NoThread
  NoHead = NoHead
  NoUuid = NoUuid
  NoChain = NoChain
INVARIANTS TypeOK ChainUnbroken CheckpointsExact
PROPERTIES ImplementsLog CallsEnd
CHECK_DEADLOCK FALSE
