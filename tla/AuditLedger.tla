----------------------------- MODULE AuditLedger -----------------------------
(***************************************************************************)
(* The hash-chained audit ledger: AuditService.log_event called by the     *)
(* threads of one or more server processes that share one database.        *)
(*                                                                         *)
(* A call enters the process-wide RLock, selects the chain's head row (FOR *)
(* UPDATE where the database has row locks), computes the next event from  *)
(* it and commits event, head and checkpoint in one transaction.  Every    *)
(* caller in the repository uses the default auto_commit=True, so the      *)
(* commit is part of the call.                                             *)
(*                                                                         *)
(* Data abstraction: the uuid stands for the hashed event fields that the  *)
(* caller or the clock supplies, `rest' for the columns that are stored    *)
(* but not hashed (payload_before, payload_after, details, entity_id,      *)
(* entity_name, user_id, ip_address, user_agent); a SHA-256 digest, being  *)
(* free of collisions, is represented by everything it was computed over:  *)
(* the digest of the predecessor, extended with this event's hashed        *)
(* fields.                                                                 *)
(***************************************************************************)
EXTENDS Naturals, Sequences

CONSTANTS
  Chains,            \* audit chains
  Uuids,             \* event uuids a run may use: bounds the number of events
  Procs,             \* server processes, each with its own _global_lock
  Threads,           \* request threads of all the processes
  ProcOf,            \* ProcOf[t]: the process thread t belongs to
  RowLocks,          \* does SELECT ... FOR UPDATE lock (PostgreSQL) or not (SQLite)?
  CheckpointEvery,   \* 100 in the code
  NoThread, NoHead, NoUuid, NoChain   \* absent values

ASSUME ProcOfAssumption == ProcOf \in [Threads -> Procs]
ASSUME RowLocksAssumption == RowLocks \in BOOLEAN
ASSUME CheckpointAssumption == CheckpointEvery \in Nat \ {0}
VARIABLES
  auditLog,      \* rows of audit_logs
  heads,         \* heads[c]: the row of audit_chain_heads, or NoHead
  checkpoints,   \* rows of audit_checkpoints
  lock,          \* lock[p]: the thread of p inside _global_lock
  rowLock,       \* rowLock[c]: the thread whose transaction locks c's head row
  call           \* call[t]: the log_event call thread t is executing

vars == <<auditLog, heads, checkpoints, lock, rowLock, call>>

-----------------------------------------------------------------------------
Digest == Seq(Chains \X Nat \X Uuids)

GENESIS_HASH == << >>

(* The canonical dictionary leaves `rest' out.                             *)
EventHash(c, seq, u, prev) == Append(prev, <<c, seq, u>>)

AuditLog == [chain : Chains, seq : Nat \ {0}, uuid : Uuids, rest : Uuids, prev : Digest, hash : Digest]

AuditChainHead == [seq : Nat \ {0}, uuid : Uuids, hash : Digest]

ASSUME AbsentAssumption ==
  /\ NoThread \notin Threads
  /\ NoUuid \notin Uuids
  /\ NoChain \notin Chains
  /\ NoHead \notin AuditChainHead

AuditCheckpoint == [chain : Chains, seq : Nat \ {0}, hash : Digest]

Calls == [pc : {"idle", "enter", "select", "write"},
          chain : Chains \cup {NoChain}, uuid : Uuids \cup {NoUuid},
          head : AuditChainHead \cup {NoHead}]

Idle == [pc |-> "idle", chain |-> NoChain, uuid |-> NoUuid, head |-> NoHead]

UuidsInUse == {r.uuid : r \in auditLog} \cup {call[t].uuid : t \in Threads}

Init ==
  /\ auditLog = {}
  /\ heads = [c \in Chains |-> NoHead]
  /\ checkpoints = {}
  /\ lock = [p \in Procs |-> NoThread]
  /\ rowLock = [c \in Chains |-> NoThread]
  /\ call = [t \in Threads |-> Idle]

-----------------------------------------------------------------------------
(* The event the call of thread t will write, from the head it selected.   *)
NextSequenceFromZero(t) == IF call[t].head = NoHead THEN 0 ELSE call[t].head.seq + 1
NextSequence(t) == IF call[t].head = NoHead THEN 1 ELSE call[t].head.seq + 1

PreviousHash(t) == IF call[t].head = NoHead THEN GENESIS_HASH ELSE call[t].head.hash

NewEvent(t) ==
  [chain |-> call[t].chain, seq |-> NextSequence(t), uuid |-> call[t].uuid,
   rest |-> call[t].uuid, prev |-> PreviousHash(t),
   hash |-> EventHash(call[t].chain, NextSequence(t), call[t].uuid, PreviousHash(t))]

HeadOfOneAhead(e) == [seq |-> e.seq + 1, uuid |-> e.uuid, hash |-> e.hash]
HeadOf(e) == [seq |-> e.seq, uuid |-> e.uuid, hash |-> e.hash]

CheckpointOf(e) == [chain |-> e.chain, seq |-> e.seq, hash |-> e.hash]

CheckpointsAfterFirst(e) ==
  checkpoints \cup (IF e.seq % CheckpointEvery = 1 THEN {CheckpointOf(e)} ELSE {})
CheckpointsAfter(e) ==
  checkpoints \cup (IF e.seq % CheckpointEvery = 0 THEN {CheckpointOf(e)} ELSE {})

(* uq_audit_chain_sequence, and the primary key of audit_chain_heads when  *)
(* the call found no head and so inserts one.                              *)
InsertableUnconstrained(t) == call[t].chain \in Chains
Insertable(t) ==
  /\ \A r \in auditLog : r.chain = call[t].chain => r.seq # NextSequence(t)
  /\ call[t].head = NoHead => heads[call[t].chain] = NoHead

(* Does selecting the head of chain c lock a row?                          *)
LocksRowNever(c) == FALSE
LocksRow(c) == RowLocks /\ heads[c] # NoHead

LockFreeUnchecked(t) == TRUE
LockFree(t) == lock[ProcOf[t]] = NoThread

(* The end of the with block and of the transaction.                       *)
LocksReleasedByKeepingRow(t) ==
  /\ lock' = [lock EXCEPT ![ProcOf[t]] = NoThread]
  /\ UNCHANGED rowLock
LocksReleasedBy(t) ==
  /\ lock' = [lock EXCEPT ![ProcOf[t]] = NoThread]
  /\ rowLock' = [c \in Chains |-> IF rowLock[c] = t THEN NoThread ELSE rowLock[c]]

-----------------------------------------------------------------------------
(* A request reaches its call of log_event; uuid4 never repeats a value.   *)
LogEvent(t, c, u) ==
  /\ call[t].pc = "idle"
  /\ u \notin UuidsInUse
  /\ call' = [call EXCEPT ![t] = [pc |-> "enter", chain |-> c, uuid |-> u, head |-> NoHead]]
  /\ UNCHANGED <<auditLog, heads, checkpoints, lock, rowLock>>

EnterLock(t) ==
  /\ call[t].pc = "enter"
  /\ LockFree(t)
  /\ lock' = [lock EXCEPT ![ProcOf[t]] = t]
  /\ call' = [call EXCEPT ![t].pc = "select"]
  /\ UNCHANGED <<auditLog, heads, checkpoints, rowLock>>

(* SELECT the head FOR UPDATE: waits for the row lock, then sees the last  *)
(* committed row.  There is no row to lock before the first commit.        *)
SelectHead(t) ==
  LET c == call[t].chain
  IN  /\ call[t].pc = "select"
      /\ LocksRow(c) => rowLock[c] = NoThread
      /\ rowLock' = IF LocksRow(c) THEN [rowLock EXCEPT ![c] = t] ELSE rowLock
      /\ call' = [call EXCEPT ![t].pc = "write", ![t].head = heads[c]]
      /\ UNCHANGED <<auditLog, heads, checkpoints, lock>>

(* Flush and commit: the event, the head and every CheckpointEvery-th time *)
(* a checkpoint, all or nothing; then the locks go.                        *)
CommitEvent(t) ==
  LET e == NewEvent(t)
  IN  /\ call[t].pc = "write"
      /\ Insertable(t)
      /\ auditLog' = auditLog \cup {e}
      /\ heads' = [heads EXCEPT ![e.chain] = HeadOf(e)]
      /\ checkpoints' = CheckpointsAfter(e)
      /\ call' = [call EXCEPT ![t] = Idle]
      /\ LocksReleasedBy(t)

(* The commit violates a constraint: IntegrityError leaves log_event, the  *)
(* session is closed by get_db and its transaction rolled back.            *)
CommitConflict(t) ==
  /\ call[t].pc = "write"
  /\ ~Insertable(t)
  /\ call' = [call EXCEPT ![t] = Idle]
  /\ LocksReleasedBy(t)
  /\ UNCHANGED <<auditLog, heads, checkpoints>>

(* The database fails or the connection drops under a statement of the     *)
(* call: the exception leaves log_event and everything is rolled back.     *)
ConnectionLost(t) ==
  /\ call[t].pc \in {"select", "write"}
  /\ call' = [call EXCEPT ![t] = Idle]
  /\ LocksReleasedBy(t)
  /\ UNCHANGED <<auditLog, heads, checkpoints>>

(* A process dies: its calls are gone, the database rolls their            *)
(* transactions back, and a new process starts with a free _global_lock.   *)
Crash(p) ==
  LET mine == {t \in Threads : ProcOf[t] = p}
  IN  /\ \E t \in mine : call[t].pc # "idle"
      /\ call' = [t \in Threads |-> IF t \in mine THEN Idle ELSE call[t]]
      /\ lock' = [lock EXCEPT ![p] = NoThread]
      /\ rowLock' = [c \in Chains |-> IF rowLock[c] \in mine THEN NoThread ELSE rowLock[c]]
      /\ UNCHANGED <<auditLog, heads, checkpoints>>

ThreadStep(t) ==
  \/ EnterLock(t)
  \/ SelectHead(t)
  \/ CommitEvent(t)
  \/ CommitConflict(t)

Next ==
  \/ \E t \in Threads, c \in Chains, u \in Uuids : LogEvent(t, c, u)
  \/ \E t \in Threads : ThreadStep(t) \/ ConnectionLost(t)
  \/ \E p \in Procs : Crash(p)

Spec == Init /\ [][Next]_vars

(* A thread in a call is scheduled again.  Strong fairness, for the steps  *)
(* that wait for a lock: its waiters are served in turn (the database      *)
(* queues the waiters of a row).                                           *)
FairSpec == Spec /\ \A t \in Threads : SF_vars(ThreadStep(t))

-----------------------------------------------------------------------------
TypeOK ==
  /\ auditLog \subseteq AuditLog
  /\ heads \in [Chains -> AuditChainHead \cup {NoHead}]
  /\ checkpoints \subseteq AuditCheckpoint
  /\ lock \in [Procs -> Threads \cup {NoThread}]
  /\ rowLock \in [Chains -> Threads \cup {NoThread}]
  /\ call \in [Threads -> Calls]

EventsOf(c) == {r \in auditLog : r.chain = c}

(* SEQUENCE AND LINK: the events of a chain are numbered 1, 2, 3 ... with   *)
(* no gap and no number used twice, and each one carries the digest of the *)
(* one before it (log_event's "atomic sequence/previous-hash allocation"). *)
ChainUnbroken ==
  \A r \in auditLog :
    /\ r.hash = EventHash(r.chain, r.seq, r.uuid, r.prev)
    /\ r.seq = 1 => r.prev = GENESIS_HASH
    /\ r.seq > 1 => \E q \in EventsOf(r.chain) : q.seq = r.seq - 1 /\ q.hash = r.prev
    /\ \A k \in 1 .. r.seq : \E q \in EventsOf(r.chain) : q.seq = k
    /\ \A q \in EventsOf(r.chain) : q.seq = r.seq => q = r

(* The head row always names the newest event of its chain, and a chain    *)
(* has a head exactly when it has an event: what the verifier's tail check *)
(* relies on.                                                              *)
HeadAligned ==
  \A c \in Chains :
    IF heads[c] = NoHead
      THEN EventsOf(c) = {}
      ELSE /\ \E r \in EventsOf(c) : heads[c] = [seq |-> r.seq, uuid |-> r.uuid, hash |-> r.hash]
           /\ \A r \in EventsOf(c) : r.seq <= heads[c].seq

(* A checkpoint exists for exactly the events whose number is a multiple   *)
(* of CheckpointEvery, and carries that event's digest.                    *)
CheckpointsExact ==
  checkpoints = {CheckpointOf(r) : r \in {q \in auditLog : q.seq % CheckpointEvery = 0}}

(* Once a call has selected an existing head, nobody moves that head       *)
(* before the call commits, so its commit cannot meet a constraint: true   *)
(* of row locks across processes, and of _global_lock alone when one       *)
(* process serves the database ("protected by threading._global_lock").    *)
SelectedHeadIsCurrent ==
  (RowLocks \/ \A s, t \in Threads : ProcOf[s] = ProcOf[t]) =>
    \A t \in Threads :
      (call[t].pc = "write" /\ call[t].head # NoHead) =>
        (heads[call[t].chain] = call[t].head /\ Insertable(t))

(* "Appends an immutable event to the specified audit chain atomically":   *)
(* no call that got as far as its write is turned away by a constraint.    *)
(* True where one process serves the database, by _global_lock alone; with *)
(* two, both may find no head and insert a chain's first event.            *)
AllocationNeverRefused ==
  \A t \in Threads : call[t].pc = "write" => Insertable(t)

(* The ledger as an append-only log per chain: its entries are what the    *)
(* digest in the head row commits to.                                      *)
LogOf(c) ==
  IF heads[c] = NoHead THEN << >> ELSE [i \in 1 .. heads[c].seq |-> heads[c].hash[i][3]]

Log == INSTANCE AppendOnlyLog WITH log <- [c \in Chains |-> LogOf(c)]

(* The detailed ledger implements the abstract one, through crashes and    *)
(* refused commits alike.                                                  *)
ImplementsLog == Log!Spec

(* A call of log_event always comes to an end.                             *)
CallsEnd == \A t \in Threads : call[t].pc # "idle" ~> call[t].pc = "idle"

=============================================================================
