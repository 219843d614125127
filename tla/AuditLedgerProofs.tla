-------------------------- MODULE AuditLedgerProofs --------------------------
(***************************************************************************)
(* What the audit ledger guarantees for any number of chains, events,      *)
(* processes and threads, with or without row locks: TLC checks the same   *)
(* properties on the small instances of MCAuditLedger.  The last part shows*)
(* that the ledger implements AppendOnlyLog.                               *)
(***************************************************************************)
EXTENDS AuditLedger, SequenceTheorems, TLAPS

-----------------------------------------------------------------------------
(* The event a call is about to write is well typed.                       *)
LEMMA NewEventType ==
  ASSUME TypeOK, NEW t \in Threads, call[t].chain \in Chains, call[t].uuid \in Uuids
  PROVE  /\ NewEvent(t) \in AuditLog
         /\ HeadOf(NewEvent(t)) \in AuditChainHead
         /\ CheckpointOf(NewEvent(t)) \in AuditCheckpoint
<1> DEFINE n == NextSequence(t)
           p == PreviousHash(t)
           h == EventHash(call[t].chain, n, call[t].uuid, p)
<1>1. n \in Nat \ {0} /\ p \in Digest
  <2>1. call[t].head \in AuditChainHead \cup {NoHead}
    BY DEF TypeOK, Calls
  <2>2. GENESIS_HASH \in Digest
    BY DEF GENESIS_HASH, Digest
  <2>. QED
    BY <2>1, <2>2 DEF NextSequence, PreviousHash, AuditChainHead
<1>2. h \in Digest
  BY <1>1, AppendProperties DEF EventHash, Digest
<1>. QED
  BY <1>1, <1>2 DEF NewEvent, HeadOf, CheckpointOf, AuditLog, AuditChainHead, AuditCheckpoint

(* A call that has passed its entry knows its chain and its event.         *)
CallsNamed ==
  \A t \in Threads :
    call[t].pc # "idle" => call[t].chain \in Chains /\ call[t].uuid \in Uuids

LEMMA TypeInit == Init => TypeOK /\ CallsNamed
BY AbsentAssumption DEF Init, TypeOK, CallsNamed, Idle, Calls

LEMMA TypeNext == TypeOK /\ CallsNamed /\ [Next]_vars => TypeOK' /\ CallsNamed'
<1> SUFFICES ASSUME TypeOK, CallsNamed, [Next]_vars
             PROVE  TypeOK' /\ CallsNamed'
  OBVIOUS
<1> USE ProcOfAssumption
<1>1. ASSUME NEW t \in Threads, NEW c \in Chains, NEW u \in Uuids, LogEvent(t, c, u)
      PROVE  TypeOK' /\ CallsNamed'
  BY <1>1 DEF LogEvent, TypeOK, CallsNamed, Calls
<1>2. ASSUME NEW t \in Threads, EnterLock(t)
      PROVE  TypeOK' /\ CallsNamed'
  BY <1>2 DEF EnterLock, TypeOK, CallsNamed, Calls
<1>3. ASSUME NEW t \in Threads, SelectHead(t)
      PROVE  TypeOK' /\ CallsNamed'
  <2>1. call[t].chain \in Chains
    BY <1>3 DEF SelectHead, CallsNamed
  <2>2. heads[call[t].chain] \in AuditChainHead \cup {NoHead}
    BY <2>1 DEF TypeOK
  <2>3. rowLock' \in [Chains -> Threads \cup {NoThread}]
    BY <1>3, <2>1 DEF SelectHead, TypeOK
  <2>4. call' \in [Threads -> Calls] /\ CallsNamed'
    BY ZenonT(40), <1>3, <2>2 DEF SelectHead, TypeOK, CallsNamed, Calls
  <2>. QED
    BY <1>3, <2>3, <2>4 DEF SelectHead, TypeOK
<1>4. ASSUME NEW t \in Threads, CommitEvent(t)
      PROVE  TypeOK' /\ CallsNamed'
  <2>1. /\ NewEvent(t) \in AuditLog
        /\ HeadOf(NewEvent(t)) \in AuditChainHead
        /\ CheckpointOf(NewEvent(t)) \in AuditCheckpoint
    BY <1>4, NewEventType DEF CommitEvent, CallsNamed
  <2>2. auditLog' \subseteq AuditLog /\ checkpoints' \subseteq AuditCheckpoint
    BY <1>4, <2>1 DEF CommitEvent, CheckpointsAfter, TypeOK
  <2>3. heads' \in [Chains -> AuditChainHead \cup {NoHead}]
    BY <1>4, <2>1 DEF CommitEvent, TypeOK
  <2>4. /\ lock' \in [Procs -> Threads \cup {NoThread}]
        /\ rowLock' \in [Chains -> Threads \cup {NoThread}]
    BY <1>4 DEF CommitEvent, LocksReleasedBy, TypeOK
  <2>5. call' \in [Threads -> Calls] /\ CallsNamed'
    BY <1>4 DEF CommitEvent, TypeOK, CallsNamed, Calls, Idle
  <2>. QED
    BY <2>2, <2>3, <2>4, <2>5 DEF TypeOK
<1>5. ASSUME NEW t \in Threads, CommitConflict(t)
      PROVE  TypeOK' /\ CallsNamed'
  BY <1>5 DEF CommitConflict, LocksReleasedBy, TypeOK, CallsNamed, Calls, Idle
<1>6. ASSUME NEW t \in Threads, ConnectionLost(t)
      PROVE  TypeOK' /\ CallsNamed'
  BY <1>6 DEF ConnectionLost, LocksReleasedBy, TypeOK, CallsNamed, Calls, Idle
<1>7. ASSUME NEW p \in Procs, Crash(p)
      PROVE  TypeOK' /\ CallsNamed'
  BY <1>7 DEF Crash, TypeOK, CallsNamed, Calls, Idle
<1>8. CASE UNCHANGED vars
  BY <1>8 DEF vars, TypeOK, CallsNamed
<1>. QED
  BY <1>1, <1>2, <1>3, <1>4, <1>5, <1>6, <1>7, <1>8 DEF Next, ThreadStep

(* Every variable keeps its type, whatever the interleaving.               *)
THEOREM TypeCorrect == Spec => []TypeOK
<1>1. Spec => [](TypeOK /\ CallsNamed)
  BY TypeInit, TypeNext, PTL DEF Spec
<1>. QED
  BY <1>1, PTL

-----------------------------------------------------------------------------
(* The strengthening that makes the chain properties inductive: a head a   *)
(* call has selected is the head its chain has, or once had.               *)
CallHeadsRecorded ==
  \A t \in Threads :
    call[t].head # NoHead =>
      /\ call[t].pc = "write"
      /\ \E r \in EventsOf(call[t].chain) : HeadOf(r) = call[t].head

IInv == TypeOK /\ CallsNamed /\ ChainUnbroken /\ HeadAligned /\ CallHeadsRecorded

(* Where the event about to be committed stands: right behind the newest   *)
(* event of its chain.  The unique constraint rules the other places out,  *)
(* because a number above the selected head would leave no gap below it.   *)
LEMMA NewEventPlace ==
  ASSUME IInv, NEW t \in Threads, call[t].pc = "write", Insertable(t)
  PROVE  LET e == NewEvent(t)
             c == call[t].chain
         IN  /\ c \in Chains /\ e \in AuditLog
             /\ \A r \in EventsOf(c) : r.seq < e.seq
             /\ e.seq = 1 => e.prev = GENESIS_HASH
             /\ e.seq > 1 => \E q \in EventsOf(c) : q.seq = e.seq - 1 /\ q.hash = e.prev
             /\ \A k \in 1 .. e.seq - 1 : \E q \in EventsOf(c) : q.seq = k
<1> DEFINE e == NewEvent(t)
           c == call[t].chain
<1>1. c \in Chains /\ e \in AuditLog
  BY NewEventType DEF IInv, CallsNamed
<1>2. e.seq = NextSequence(t) /\ e.prev = PreviousHash(t) /\ e.chain = c
  BY DEF NewEvent
<1>3. CASE call[t].head = NoHead
  <2>1. EventsOf(c) = {}
    BY <1>1, <1>3 DEF Insertable, IInv, HeadAligned
  <2>2. e.seq = 1 /\ e.prev = GENESIS_HASH
    BY <1>2, <1>3 DEF NextSequence, PreviousHash
  <2>. QED
    BY <1>1, <2>1, <2>2
<1>4. CASE call[t].head # NoHead
  <2>1. PICK h \in EventsOf(c) : HeadOf(h) = call[t].head
    BY <1>4 DEF IInv, CallHeadsRecorded
  <2>2. h \in auditLog /\ h.chain = c /\ h.seq \in Nat \ {0}
    BY <2>1 DEF EventsOf, IInv, TypeOK, AuditLog
  <2>3. e.seq = h.seq + 1 /\ e.prev = h.hash
    BY <1>2, <1>4, <2>1 DEF NextSequence, PreviousHash, HeadOf
  <2>4. ASSUME NEW r \in EventsOf(c)
        PROVE  r.seq < e.seq
    <3>1. r \in auditLog /\ r.chain = c /\ r.seq \in Nat \ {0}
      BY DEF EventsOf, IInv, TypeOK, AuditLog
    <3>2. SUFFICES ASSUME r.seq >= e.seq
                   PROVE  FALSE
      BY <3>1, <2>2, <2>3
    <3>3. e.seq \in 1 .. r.seq
      BY <3>1, <3>2, <2>2, <2>3
    <3>4. PICK q \in EventsOf(c) : q.seq = e.seq
      BY <3>1, <3>3 DEF IInv, ChainUnbroken
    <3>. QED
      BY <3>4, <1>2 DEF EventsOf, Insertable
  <2>5. ASSUME NEW k \in 1 .. e.seq - 1
        PROVE  \E q \in EventsOf(c) : q.seq = k
    BY <2>2, <2>3 DEF IInv, ChainUnbroken
  <2>. QED
    BY <1>1, <2>1, <2>2, <2>3, <2>4, <2>5
<1>. QED
  BY <1>3, <1>4

LEMMA ChainInit == Init => ChainUnbroken /\ HeadAligned /\ CallHeadsRecorded
BY DEF Init, ChainUnbroken, HeadAligned, CallHeadsRecorded, EventsOf, Idle

LEMMA ChainCommit ==
  ASSUME IInv, NEW t \in Threads, CommitEvent(t)
  PROVE  ChainUnbroken' /\ HeadAligned' /\ CallHeadsRecorded'
<1>0. PICK e, c : e = NewEvent(t) /\ c = call[t].chain
  OBVIOUS
<1>1. /\ c \in Chains /\ e \in AuditLog
      /\ \A r \in EventsOf(c) : r.seq < e.seq
      /\ e.seq = 1 => e.prev = GENESIS_HASH
      /\ e.seq > 1 => \E q \in EventsOf(c) : q.seq = e.seq - 1 /\ q.hash = e.prev
      /\ \A k \in 1 .. e.seq - 1 : \E q \in EventsOf(c) : q.seq = k
  BY <1>0, NewEventPlace DEF CommitEvent
<1>2. e.chain = c /\ e.hash = EventHash(e.chain, e.seq, e.uuid, e.prev)
  BY <1>0 DEF NewEvent
<1>3. auditLog' = auditLog \cup {e} /\ auditLog \subseteq AuditLog
  BY <1>0 DEF CommitEvent, IInv, TypeOK
<1>4. \A d \in Chains : EventsOf(d)' = IF d = c THEN EventsOf(d) \cup {e} ELSE EventsOf(d)
  BY <1>2, <1>3 DEF EventsOf
<1>5. e.seq \in Nat \ {0} /\ e.chain \in Chains
  BY <1>1 DEF AuditLog
<1>6. ASSUME NEW r \in auditLog'
      PROVE  /\ r.hash = EventHash(r.chain, r.seq, r.uuid, r.prev)
             /\ r.seq = 1 => r.prev = GENESIS_HASH
             /\ r.seq > 1 => \E q \in EventsOf(r.chain)' : q.seq = r.seq - 1 /\ q.hash = r.prev
             /\ \A k \in 1 .. r.seq : \E q \in EventsOf(r.chain)' : q.seq = k
             /\ \A q \in EventsOf(r.chain)' : q.seq = r.seq => q = r
  <2>1. CASE r = e
    <3>1. e \in EventsOf(c)'
      BY <1>1, <1>4
    <3>2. \A k \in 1 .. e.seq : k = e.seq \/ k \in 1 .. e.seq - 1
      BY <1>5
    <3>. QED
      BY <2>1, <3>1, <3>2, <1>1, <1>2, <1>4, <1>5
  <2>2. CASE r \in auditLog
    <3>1. r.chain \in Chains /\ r.seq \in Nat \ {0} /\ r \in EventsOf(r.chain)
      BY <2>2, <1>3 DEF AuditLog, EventsOf
    <3>2. EventsOf(r.chain) \subseteq EventsOf(r.chain)'
      BY <3>1, <1>4
    <3>3. ASSUME NEW q \in EventsOf(r.chain)', q.seq = r.seq
          PROVE  q = r
      <4>1. q # e
        BY <3>1, <3>3, <1>1, <1>2, <1>4, <1>5 DEF EventsOf
      <4>. QED
        BY <2>2, <3>1, <3>3, <4>1, <1>4 DEF IInv, ChainUnbroken
    <3>. QED
      BY <2>2, <3>2, <3>3 DEF IInv, ChainUnbroken
  <2>. QED
    BY <1>3, <2>1, <2>2
<1>7. ChainUnbroken'
  BY <1>6 DEF ChainUnbroken
<1>8. heads' = [heads EXCEPT ![c] = HeadOf(e)] /\ HeadOf(e) # NoHead
  BY <1>0, <1>2, NewEventType, AbsentAssumption DEF CommitEvent, IInv, CallsNamed
<1>9. ASSUME NEW d \in Chains
      PROVE  IF heads'[d] = NoHead
               THEN EventsOf(d)' = {}
               ELSE /\ \E r \in EventsOf(d)' : HeadOf(r) = heads'[d]
                    /\ \A r \in EventsOf(d)' : r.seq <= heads'[d].seq
  <2>1. CASE d = c
    <3>1. heads'[d] = HeadOf(e) /\ HeadOf(e).seq = e.seq
      BY <2>1, <1>1, <1>8 DEF IInv, TypeOK, HeadOf
    <3>2. e \in EventsOf(d)'
      BY <2>1, <1>4
    <3>3. ASSUME NEW r \in EventsOf(d)'
          PROVE  r.seq <= e.seq
      <4>1. CASE r = e
        BY <4>1, <1>5
      <4>2. CASE r \in EventsOf(c)
        BY <4>2, <1>1, <1>3, <1>5 DEF EventsOf, AuditLog
      <4>. QED
        BY <2>1, <4>1, <4>2, <1>4
    <3>. QED
      BY <3>1, <3>2, <3>3, <1>8
  <2>2. CASE d # c
    BY <2>2, <1>4, <1>8 DEF IInv, TypeOK, HeadAligned, HeadOf
  <2>. QED
    BY <2>1, <2>2
<1>10. HeadAligned'
  BY <1>9 DEF HeadAligned, HeadOf
<1>11. CallHeadsRecorded'
  <2>1. call' = [call EXCEPT ![t] = Idle]
    BY DEF CommitEvent
  <2>2. SUFFICES ASSUME NEW s \in Threads, call'[s].head # NoHead
                 PROVE  /\ call'[s].pc = "write"
                        /\ \E r \in auditLog' : r.chain = call'[s].chain /\ HeadOf(r) = call'[s].head
    BY DEF CallHeadsRecorded, EventsOf
  <2>3. s # t /\ call'[s] = call[s]
    BY <2>1, <2>2 DEF IInv, TypeOK, Idle
  <2>4. call[s].pc = "write" /\ \E r \in EventsOf(call[s].chain) : HeadOf(r) = call[s].head
    BY <2>2, <2>3 DEF IInv, CallHeadsRecorded
  <2>. QED
    BY <2>3, <2>4, <1>3 DEF EventsOf
<1>. QED
  BY <1>7, <1>10, <1>11

LEMMA ChainNext == IInv /\ [Next]_vars => IInv'
<1> SUFFICES ASSUME IInv, [Next]_vars
             PROVE  ChainUnbroken' /\ HeadAligned' /\ CallHeadsRecorded'
  BY TypeNext DEF IInv
<1>1. ASSUME UNCHANGED <<auditLog, heads>>
      PROVE  ChainUnbroken' /\ HeadAligned' /\ \A c : EventsOf(c)' = EventsOf(c)
  <2>1. \A c : EventsOf(c)' = EventsOf(c)
    BY <1>1 DEF EventsOf
  <2>. QED
    BY <1>1, <2>1 DEF IInv, ChainUnbroken, HeadAligned
<1>2. ASSUME NEW t \in Threads, NEW c \in Chains, NEW u \in Uuids, LogEvent(t, c, u)
      PROVE  CallHeadsRecorded'
  BY <1>1, <1>2 DEF LogEvent, CallHeadsRecorded, IInv, TypeOK
<1>3. ASSUME NEW t \in Threads, EnterLock(t)
      PROVE  CallHeadsRecorded'
  BY <1>1, <1>3 DEF EnterLock, CallHeadsRecorded, IInv, TypeOK, Calls
<1>4. ASSUME NEW t \in Threads, SelectHead(t)
      PROVE  CallHeadsRecorded'
  <2>1. UNCHANGED <<auditLog, heads>>
    BY <1>4 DEF SelectHead
  <2>2. SUFFICES ASSUME NEW s \in Threads, call'[s].head # NoHead
                 PROVE  /\ call'[s].pc = "write"
                        /\ \E r \in EventsOf(call'[s].chain) : HeadOf(r) = call'[s].head
    BY <1>1, <2>1 DEF CallHeadsRecorded
  <2>3. CASE s = t
    <3>1. call[t].chain \in Chains
      BY <1>4 DEF SelectHead, IInv, CallsNamed
    <3>2. /\ call'[t].pc = "write" /\ call'[t].chain = call[t].chain
          /\ call'[t].head = heads[call[t].chain]
      BY <1>4 DEF SelectHead, IInv, TypeOK, Calls
    <3>. QED
      BY <2>2, <2>3, <3>1, <3>2 DEF IInv, HeadAligned, HeadOf
  <2>4. CASE s # t
    BY <1>4, <2>2, <2>4 DEF SelectHead, IInv, TypeOK, CallHeadsRecorded
  <2>. QED
    BY <2>3, <2>4
<1>5. ASSUME NEW t \in Threads, CommitConflict(t)
      PROVE  CallHeadsRecorded'
  BY <1>1, <1>5 DEF CommitConflict, CallHeadsRecorded, IInv, TypeOK, Idle
<1>9. ASSUME NEW t \in Threads, ConnectionLost(t)
      PROVE  CallHeadsRecorded'
  BY <1>1, <1>9 DEF ConnectionLost, CallHeadsRecorded, IInv, TypeOK, Idle
<1>6. ASSUME NEW p \in Procs, Crash(p)
      PROVE  CallHeadsRecorded'
  BY <1>1, <1>6 DEF Crash, CallHeadsRecorded, IInv, TypeOK, Idle
<1>7. CASE UNCHANGED vars
  BY <1>1, <1>7 DEF vars, CallHeadsRecorded, IInv
<1>8. ASSUME NEW t \in Threads, ThreadStep(t)
      PROVE  ChainUnbroken' /\ HeadAligned' /\ CallHeadsRecorded'
  <2>1. CASE EnterLock(t)
    BY <2>1, <1>1, <1>3 DEF EnterLock
  <2>2. CASE SelectHead(t)
    BY <2>2, <1>1, <1>4 DEF SelectHead
  <2>3. CASE CommitEvent(t)
    BY <2>3, ChainCommit
  <2>4. CASE CommitConflict(t)
    BY <2>4, <1>1, <1>5 DEF CommitConflict
  <2>. QED
    BY <1>8, <2>1, <2>2, <2>3, <2>4 DEF ThreadStep
<1>. QED
  BY <1>1, <1>2, <1>6, <1>7, <1>8, <1>9 DEF Next, LogEvent, ConnectionLost, Crash, vars

(* SEQUENCE AND LINK hold of every ledger log_event can write, whichever   *)
(* locks exist: the unique constraint is what they rest on.                *)
THEOREM ChainCorrect == Spec => [](ChainUnbroken /\ HeadAligned)
<1>1. Init => IInv
  BY TypeInit, ChainInit DEF IInv
<1>2. Spec => []IInv
  BY <1>1, ChainNext, PTL DEF Spec
<1>3. IInv => ChainUnbroken /\ HeadAligned
  BY DEF IInv
<1>. QED
  BY <1>2, <1>3, PTL

(* A checkpoint comes into being with its event, in one commit of          *)
(* log_event, so the two cannot come apart.                                *)
THEOREM CheckpointsCorrect == Spec => []CheckpointsExact
<1>1. Init => CheckpointsExact
  BY DEF Init, CheckpointsExact
<1>2. CheckpointsExact /\ [Next]_vars => CheckpointsExact'
  <2> SUFFICES ASSUME CheckpointsExact, [Next]_vars
               PROVE  CheckpointsExact'
    OBVIOUS
  <2>1. ASSUME NEW t \in Threads, CommitEvent(t)
        PROVE  CheckpointsExact'
    <3>1. PICK e : e = NewEvent(t)
      OBVIOUS
    <3>2. /\ auditLog' = auditLog \cup {e}
          /\ checkpoints' = checkpoints \cup (IF e.seq % CheckpointEvery = 0 THEN {CheckpointOf(e)} ELSE {})
      BY <2>1, <3>1 DEF CommitEvent, CheckpointsAfter
    <3>. QED
      BY <3>2 DEF CheckpointsExact
  <2>2. CASE UNCHANGED <<auditLog, checkpoints>>
    BY <2>2 DEF CheckpointsExact
  <2>. QED
    BY <2>1, <2>2 DEF Next, ThreadStep, LogEvent, EnterLock, SelectHead, CommitConflict, ConnectionLost,
       Crash, vars
<1>. QED
  BY <1>1, <1>2, PTL DEF Spec

-----------------------------------------------------------------------------
(* What the locks add.  A call between its entry and its end holds its     *)
(* process's _global_lock, and the head row if it found one.               *)
OneProcess == \A s, t \in Threads : ProcOf[s] = ProcOf[t]

LocksHeld ==
  \A t \in Threads :
    /\ call[t].pc \in {"select", "write"} => lock[ProcOf[t]] = t
    /\ RowLocks /\ call[t].head # NoHead => rowLock[call[t].chain] = t

(* What a call has selected is still the head.                             *)
HeadsHeld ==
  \A t \in Threads :
    call[t].pc = "write" /\ (OneProcess \/ (RowLocks /\ call[t].head # NoHead)) =>
      heads[call[t].chain] = call[t].head

LockInv == IInv /\ LocksHeld /\ HeadsHeld

LEMMA LockInit == Init => LocksHeld /\ HeadsHeld
BY AbsentAssumption DEF Init, LocksHeld, HeadsHeld, Idle

(* Two calls cannot both have selected the same head row.                  *)
LEMMA LockExcludes ==
  ASSUME LockInv, NEW s \in Threads, NEW t \in Threads, s # t, call[s].pc \in {"select", "write"},
         call[t].pc \in {"select", "write"}
  PROVE  /\ ~OneProcess
         /\ RowLocks /\ call[s].head # NoHead /\ call[t].head # NoHead => call[s].chain # call[t].chain
BY DEF LockInv, LocksHeld, OneProcess

LEMMA LockNext == LockInv /\ [Next]_vars => LockInv'
<1> SUFFICES ASSUME LockInv, [Next]_vars
             PROVE  LocksHeld' /\ HeadsHeld'
  BY ChainNext DEF LockInv
<1> USE ProcOfAssumption, AbsentAssumption
<1>0. /\ TypeOK /\ CallsNamed /\ CallHeadsRecorded
      /\ \A t \in Threads : call[t].head # NoHead => call[t].pc = "write"
  BY DEF LockInv, IInv, CallHeadsRecorded
<1>1. ASSUME NEW t \in Threads, NEW c \in Chains, NEW u \in Uuids, LogEvent(t, c, u)
      PROVE  LocksHeld' /\ HeadsHeld'
  BY <1>0, <1>1 DEF LogEvent, LockInv, LocksHeld, HeadsHeld, TypeOK, Calls
<1>2. ASSUME NEW t \in Threads, EnterLock(t)
      PROVE  LocksHeld' /\ HeadsHeld'
  <2>1. /\ lock' = [lock EXCEPT ![ProcOf[t]] = t] /\ lock[ProcOf[t]] = NoThread
        /\ call' = [call EXCEPT ![t].pc = "select"] /\ call[t].pc = "enter"
        /\ UNCHANGED <<heads, rowLock>>
    BY <1>2 DEF EnterLock, LockFree
  <2>2. call[t].head = NoHead
    BY <1>0, <2>1
  <2>. QED
    BY <1>0, <2>1, <2>2 DEF LockInv, LocksHeld, HeadsHeld, TypeOK, Calls
<1>3. ASSUME NEW t \in Threads, SelectHead(t)
      PROVE  LocksHeld' /\ HeadsHeld'
  <2>1. PICK c : c = call[t].chain
    OBVIOUS
  <2>2. /\ call[t].pc = "select" /\ call[t].head = NoHead /\ c \in Chains
        /\ RowLocks /\ heads[c] # NoHead => rowLock[c] = NoThread
        /\ rowLock' = IF RowLocks /\ heads[c] # NoHead THEN [rowLock EXCEPT ![c] = t] ELSE rowLock
        /\ UNCHANGED <<heads, lock>>
    BY <1>0, <1>3, <2>1 DEF SelectHead, LocksRow, CallsNamed
  <2>3. /\ call'[t].pc = "write" /\ call'[t].chain = c /\ call'[t].head = heads[c]
        /\ \A s \in Threads : s # t => call'[s] = call[s]
    BY <1>0, <1>3, <2>1 DEF SelectHead, TypeOK, Calls
  <2>4. ASSUME NEW s \in Threads
        PROVE  /\ call'[s].pc \in {"select", "write"} => lock'[ProcOf[s]] = s
               /\ RowLocks /\ call'[s].head # NoHead => rowLock'[call'[s].chain] = s
    <3>1. CASE s = t
      BY <3>1, <1>0, <2>2, <2>3 DEF LockInv, LocksHeld, TypeOK
    <3>2. CASE s # t
      BY <3>2, <1>0, <2>2, <2>3 DEF LockInv, LocksHeld, TypeOK
    <3>. QED
      BY <3>1, <3>2
  <2>5. HeadsHeld'
    BY <2>2, <2>3 DEF LockInv, HeadsHeld, OneProcess
  <2>. QED
    BY <2>4, <2>5 DEF LocksHeld
<1>4. ASSUME NEW t \in Threads, call[t].pc \in {"select", "write"}, LocksReleasedBy(t), call' = [call EXCEPT ![t] = Idle]
      PROVE  LocksHeld'
  <2>1. ASSUME NEW s \in Threads, s # t
        PROVE  /\ call[s].pc \in {"select", "write"} => lock'[ProcOf[s]] = s
               /\ RowLocks /\ call[s].head # NoHead => rowLock'[call[s].chain] = s
    <3>1. call[s].pc \in {"select", "write"} => ProcOf[s] # ProcOf[t]
      BY <1>4, <2>1 DEF LockInv, LocksHeld
    <3>2. call[s].head # NoHead => call[s].chain \in Chains
      BY <1>0 DEF CallsNamed
    <3>. QED
      BY <1>0, <1>4, <2>1, <3>1, <3>2 DEF LocksReleasedBy, LockInv, LocksHeld, TypeOK
  <2>2. \A s \in Threads : call'[s] = IF s = t THEN Idle ELSE call[s]
    BY <1>0, <1>4 DEF TypeOK
  <2>. QED
    BY <2>1, <2>2 DEF LocksHeld, Idle
<1>5. ASSUME NEW t \in Threads, CommitEvent(t)
      PROVE  LocksHeld' /\ HeadsHeld'
  <2>1. PICK c : c = call[t].chain
    OBVIOUS
  <2>2. /\ call[t].pc = "write" /\ call' = [call EXCEPT ![t] = Idle] /\ Insertable(t)
        /\ heads' = [heads EXCEPT ![c] = HeadOf(NewEvent(t))]
    BY <1>5, <2>1 DEF CommitEvent, NewEvent
  <2>3. \A s \in Threads : call'[s] = IF s = t THEN Idle ELSE call[s]
    BY <1>0, <2>2 DEF TypeOK
  <2>4. ASSUME NEW s \in Threads, s # t, call[s].pc = "write",
               OneProcess \/ (RowLocks /\ call[s].head # NoHead)
        PROVE  heads'[call[s].chain] = call[s].head
    <3>1. heads[call[s].chain] = call[s].head /\ call[s].chain \in Chains /\ ~OneProcess
      BY <1>0, <2>2, <2>4, LockExcludes DEF LockInv, HeadsHeld, CallsNamed
    <3>2. call[s].chain # c
      <4>1. CASE call[t].head = NoHead
        BY <4>1, <2>1, <2>2, <2>4, <3>1 DEF Insertable
      <4>2. CASE call[t].head # NoHead
        BY <4>2, <2>1, <2>2, <2>4, <3>1, LockExcludes
      <4>. QED
        BY <4>1, <4>2
    <3>. QED
      BY <1>0, <2>2, <3>1, <3>2 DEF TypeOK
  <2>5. HeadsHeld'
    BY <2>3, <2>4 DEF HeadsHeld, Idle, OneProcess
  <2>. QED
    BY <1>4, <1>5, <2>5 DEF CommitEvent
<1>6. ASSUME NEW t \in Threads, CommitConflict(t)
      PROVE  LocksHeld' /\ HeadsHeld'
  <2>1. \A s \in Threads : call'[s] = IF s = t THEN Idle ELSE call[s]
    BY <1>0, <1>6 DEF CommitConflict, TypeOK
  <2>2. HeadsHeld'
    BY <1>6, <2>1 DEF CommitConflict, LockInv, HeadsHeld, Idle, OneProcess
  <2>. QED
    BY <1>4, <1>6, <2>2 DEF CommitConflict
<1>9. ASSUME NEW t \in Threads, ConnectionLost(t)
      PROVE  LocksHeld' /\ HeadsHeld'
  <2>1. \A s \in Threads : call'[s] = IF s = t THEN Idle ELSE call[s]
    BY <1>0, <1>9 DEF ConnectionLost, TypeOK
  <2>2. HeadsHeld'
    BY <1>9, <2>1 DEF ConnectionLost, LockInv, HeadsHeld, Idle, OneProcess
  <2>. QED
    BY <1>4, <1>9, <2>2 DEF ConnectionLost
<1>7. ASSUME NEW p \in Procs, Crash(p)
      PROVE  LocksHeld' /\ HeadsHeld'
  <2>1. \A s \in Threads : call'[s] = IF ProcOf[s] = p THEN Idle ELSE call[s]
    BY <1>7 DEF Crash
  <2>2. /\ lock' = [lock EXCEPT ![p] = NoThread] /\ UNCHANGED heads
        /\ rowLock' = [c \in Chains |-> IF rowLock[c] \in {t \in Threads : ProcOf[t] = p} THEN NoThread ELSE rowLock[c]]
    BY <1>7 DEF Crash
  <2>3. HeadsHeld'
    BY <2>1, <2>2 DEF LockInv, HeadsHeld, Idle, OneProcess
  <2>4. ASSUME NEW s \in Threads, ProcOf[s] # p
        PROVE  /\ call[s].pc \in {"select", "write"} => lock'[ProcOf[s]] = s
               /\ RowLocks /\ call[s].head # NoHead => rowLock'[call[s].chain] = s
    <3>1. call[s].head # NoHead => call[s].chain \in Chains
      BY <1>0 DEF CallsNamed
    <3>. QED
      BY <1>0, <2>2, <2>4, <3>1 DEF LockInv, LocksHeld, TypeOK
  <2>5. LocksHeld'
    BY <2>1, <2>4 DEF LocksHeld, Idle
  <2>. QED
    BY <2>3, <2>5
<1>8. CASE UNCHANGED vars
  BY <1>8 DEF vars, LockInv, LocksHeld, HeadsHeld, OneProcess
<1>. QED
  BY <1>1, <1>2, <1>3, <1>5, <1>6, <1>7, <1>8, <1>9 DEF Next, ThreadStep

(* The number behind the current head is free.                             *)
LEMMA HeadInsertable ==
  ASSUME LockInv, NEW t \in Threads, call[t].pc = "write", heads[call[t].chain] = call[t].head
  PROVE  Insertable(t)
<1>1. call[t].chain \in Chains
  BY DEF LockInv, IInv, CallsNamed
<1>2. CASE call[t].head = NoHead
  BY <1>1, <1>2 DEF LockInv, IInv, HeadAligned, Insertable, EventsOf
<1>3. CASE call[t].head # NoHead
  <2>1. \A r \in auditLog : r.chain = call[t].chain => r.seq <= call[t].head.seq
    BY <1>1, <1>3 DEF LockInv, IInv, HeadAligned, EventsOf
  <2>2. NextSequence(t) = call[t].head.seq + 1 /\ call[t].head.seq \in Nat
    BY <1>3 DEF NextSequence, LockInv, IInv, TypeOK, Calls, AuditChainHead
  <2>. QED
    BY <1>3, <2>1, <2>2 DEF Insertable, LockInv, IInv, TypeOK, AuditLog
<1>. QED
  BY <1>2, <1>3

LEMMA LocksCorrect == Spec => []LockInv
<1>1. Init => LockInv
  BY TypeInit, ChainInit, LockInit DEF IInv, LockInv
<1>. QED
  BY <1>1, LockNext, PTL DEF Spec

(* With row locks, or within one process, nobody moves the head between    *)
(* log_event's SELECT ... FOR UPDATE and its commit.                       *)
THEOREM SelectedHeadStays == Spec => []SelectedHeadIsCurrent
<1>1. LockInv => SelectedHeadIsCurrent
  BY HeadInsertable DEF SelectedHeadIsCurrent, LockInv, HeadsHeld, OneProcess
<1>. QED
  BY <1>1, LocksCorrect, PTL

(* Where one process serves the database, log_event's constraints never    *)
(* turn an event away, not even the first one of a chain: finding 1 needs  *)
(* a second process.                                                       *)
THEOREM OneProcessNeverRefused ==
  ASSUME OneProcess
  PROVE  Spec => []AllocationNeverRefused
<1>1. LockInv => AllocationNeverRefused
  BY HeadInsertable DEF AllocationNeverRefused, LockInv, HeadsHeld
<1>. QED
  BY <1>1, LocksCorrect, PTL

-----------------------------------------------------------------------------
(* The refinement of AppendOnlyLog: the log of a chain is what the digest  *)
(* in its head row commits to.                                             *)

(* A digest covers its event and, one by one, all events before it.        *)
HashesCover ==
  \A r \in auditLog :
    /\ Len(r.hash) = r.seq
    /\ \A i \in 1 .. r.seq : \E q \in EventsOf(r.chain) : q.seq = i /\ r.hash[i][3] = q.uuid

(* uuid4 never repeats a value, in flight or on record.                    *)
UuidsFresh ==
  \A t \in Threads :
    call[t].pc # "idle" =>
      /\ \A r \in auditLog : r.uuid # call[t].uuid
      /\ \A s \in Threads : s # t /\ call[s].pc # "idle" => call[s].uuid # call[t].uuid

RInv == IInv /\ HashesCover /\ UuidsFresh

LEMMA RefinementInit == Init => HashesCover /\ UuidsFresh
BY DEF Init, HashesCover, UuidsFresh, Idle

(* The event a commit writes extends the digest of its chain's head.       *)
LEMMA NewEventExtends ==
  ASSUME RInv, NEW t \in Threads, call[t].pc = "write", Insertable(t)
  PROVE  LET e == NewEvent(t)
             c == call[t].chain
         IN  /\ c \in Chains /\ e \in AuditLog /\ e.chain = c /\ e.uuid = call[t].uuid
             /\ e.hash = Append(e.prev, <<c, e.seq, e.uuid>>)
             /\ IF heads[c] = NoHead THEN EventsOf(c) = {} /\ e.seq = 1 /\ e.prev = << >>
                ELSE /\ e.seq = heads[c].seq + 1 /\ e.prev = heads[c].hash
                     /\ \E r \in EventsOf(c) : r.seq = heads[c].seq /\ r.hash = heads[c].hash
<1> DEFINE e == NewEvent(t)
           c == call[t].chain
<1>1. /\ c \in Chains /\ e \in AuditLog
      /\ \A r \in EventsOf(c) : r.seq < e.seq
      /\ e.seq = 1 => e.prev = GENESIS_HASH
      /\ e.seq > 1 => \E q \in EventsOf(c) : q.seq = e.seq - 1 /\ q.hash = e.prev
  BY NewEventPlace DEF RInv
<1>2. /\ e.chain = c /\ e.uuid = call[t].uuid
      /\ e.hash = Append(e.prev, <<c, e.seq, e.uuid>>)
  BY DEF NewEvent, EventHash
<1>3. e.seq \in Nat \ {0} /\ \A r \in EventsOf(c) : r.seq \in Nat \ {0} /\ r \in auditLog /\ r.chain = c
  BY <1>1 DEF AuditLog, EventsOf, RInv, IInv, TypeOK
<1>4. CASE heads[c] = NoHead
  <2>1. EventsOf(c) = {}
    BY <1>1, <1>4 DEF RInv, IInv, HeadAligned
  <2>2. e.seq = 1
    BY <1>1, <1>3, <2>1
  <2>. QED
    BY <1>1, <1>2, <1>4, <2>1, <2>2 DEF GENESIS_HASH
<1>5. CASE heads[c] # NoHead
  <2>1. PICK h \in EventsOf(c) : heads[c] = [seq |-> h.seq, uuid |-> h.uuid, hash |-> h.hash]
    BY <1>1, <1>5 DEF RInv, IInv, HeadAligned
  <2>2. \A r \in EventsOf(c) : r.seq <= h.seq
    BY <1>1, <1>5, <2>1 DEF RInv, IInv, HeadAligned
  <2>3. e.seq > 1
    BY <1>1, <1>3, <2>1
  <2>4. PICK q \in EventsOf(c) : q.seq = e.seq - 1 /\ q.hash = e.prev
    BY <1>1, <2>3
  <2>5. q.seq = h.seq
    BY <1>1, <1>3, <2>1, <2>2, <2>4
  <2>6. q = h
    BY <1>3, <2>5 DEF RInv, IInv, ChainUnbroken
  <2>. QED
    BY <1>1, <1>2, <1>3, <1>5, <2>1, <2>4, <2>6
<1>. QED
  BY <1>4, <1>5

LEMMA CoverCommit ==
  ASSUME RInv, NEW t \in Threads, CommitEvent(t)
  PROVE  HashesCover'
<1>0. PICK e, c : e = NewEvent(t) /\ c = call[t].chain
  OBVIOUS
<1>1. /\ c \in Chains /\ e \in AuditLog /\ e.chain = c
      /\ e.hash = Append(e.prev, <<c, e.seq, e.uuid>>)
      /\ IF heads[c] = NoHead THEN EventsOf(c) = {} /\ e.seq = 1 /\ e.prev = << >>
         ELSE /\ e.seq = heads[c].seq + 1 /\ e.prev = heads[c].hash
              /\ \E r \in EventsOf(c) : r.seq = heads[c].seq /\ r.hash = heads[c].hash
  BY <1>0, NewEventExtends DEF CommitEvent
<1>2. auditLog' = auditLog \cup {e} /\ auditLog \subseteq AuditLog
  BY <1>0 DEF CommitEvent, RInv, IInv, TypeOK
<1>3. \A d \in Chains : EventsOf(d) \subseteq EventsOf(d)'
  BY <1>2 DEF EventsOf
<1>4. e \in EventsOf(c)' /\ e.seq \in Nat \ {0} /\ e.prev \in Seq(Chains \X Nat \X Uuids)
  BY <1>1, <1>2 DEF EventsOf, AuditLog, Digest
<1>5. /\ Len(e.prev) = e.seq - 1
      /\ \A i \in 1 .. e.seq - 1 : \E q \in EventsOf(c) : q.seq = i /\ e.prev[i][3] = q.uuid
  <2>1. CASE heads[c] = NoHead
    BY <1>1, <2>1
  <2>2. CASE heads[c] # NoHead
    <3>1. PICK r \in EventsOf(c) : r.seq = e.seq - 1 /\ r.hash = e.prev
      <4>1. PICK r \in EventsOf(c) : r.seq = heads[c].seq /\ r.hash = heads[c].hash
        BY <1>1, <2>2
      <4>2. r.seq \in Nat
        BY <4>1, <1>2 DEF EventsOf, AuditLog
      <4>. QED
        BY <1>1, <2>2, <4>1, <4>2
    <3>2. r \in auditLog /\ r.chain = c
      BY <3>1 DEF EventsOf
    <3>. QED
      BY <3>1, <3>2 DEF RInv, HashesCover
  <2>. QED
    BY <2>1, <2>2
<1>6. <<c, e.seq, e.uuid>> \in Chains \X Nat \X Uuids
  BY <1>1, <1>4 DEF AuditLog
<1>7. /\ Len(e.hash) = e.seq
      /\ \A i \in 1 .. e.seq - 1 : e.hash[i] = e.prev[i]
      /\ e.hash[e.seq] = <<c, e.seq, e.uuid>>
  BY <1>1, <1>4, <1>5, <1>6, AppendProperties
<1>8. ASSUME NEW i \in 1 .. e.seq
      PROVE  \E q \in EventsOf(c)' : q.seq = i /\ e.hash[i][3] = q.uuid
  <2>1. CASE i = e.seq
    BY <2>1, <1>4, <1>7
  <2>2. CASE i # e.seq
    <3>1. i \in 1 .. e.seq - 1
      BY <2>2, <1>4
    <3>2. PICK q \in EventsOf(c) : q.seq = i /\ e.prev[i][3] = q.uuid
      BY <3>1, <1>5
    <3>. QED
      BY <3>1, <3>2, <1>1, <1>3, <1>7
  <2>. QED
    BY <2>1, <2>2
<1>9. ASSUME NEW r \in auditLog
      PROVE  /\ Len(r.hash) = r.seq
             /\ \A i \in 1 .. r.seq : \E q \in EventsOf(r.chain)' : q.seq = i /\ r.hash[i][3] = q.uuid
  <2>1. r.chain \in Chains
    BY <1>2 DEF AuditLog
  <2>. QED
    BY <2>1, <1>3 DEF RInv, HashesCover
<1>10. ASSUME NEW r \in auditLog'
       PROVE  /\ Len(r.hash) = r.seq
              /\ \A i \in 1 .. r.seq : \E q \in EventsOf(r.chain)' : q.seq = i /\ r.hash[i][3] = q.uuid
  <2>1. CASE r = e
    BY <2>1, <1>1, <1>7, <1>8
  <2>2. CASE r \in auditLog
    BY <2>2, <1>9
  <2>. QED
    BY <2>1, <2>2, <1>2
<1>. QED
  BY <1>10 DEF HashesCover

LEMMA RefinementNext == RInv /\ [Next]_vars => RInv'
<1> SUFFICES ASSUME RInv, [Next]_vars
             PROVE  HashesCover' /\ UuidsFresh'
  BY ChainNext DEF RInv
<1> USE ProcOfAssumption
<1>0. TypeOK /\ CallsNamed
  BY DEF RInv, IInv
<1>1. ASSUME UNCHANGED auditLog
      PROVE  HashesCover'
  <2>1. \A c : EventsOf(c)' = EventsOf(c)
    BY <1>1 DEF EventsOf
  <2>. QED
    BY <1>1, <2>1 DEF RInv, HashesCover
<1>2. ASSUME UNCHANGED auditLog,
             \A t \in Threads : call'[t].pc # "idle" => call[t].pc # "idle" /\ call'[t].uuid = call[t].uuid
      PROVE  UuidsFresh'
  BY <1>2 DEF RInv, UuidsFresh
<1>3. ASSUME NEW t \in Threads, NEW c \in Chains, NEW u \in Uuids, LogEvent(t, c, u)
      PROVE  HashesCover' /\ UuidsFresh'
  <2>1. /\ auditLog' = auditLog /\ \A r \in auditLog : r.uuid # u
        /\ \A s \in Threads : call[s].uuid # u
        /\ call'[t].uuid = u
        /\ \A s \in Threads : s # t => call'[s] = call[s]
    BY <1>0, <1>3 DEF LogEvent, UuidsInUse, TypeOK
  <2>. QED
    BY <1>1, <2>1 DEF RInv, UuidsFresh
<1>4. ASSUME NEW t \in Threads, EnterLock(t)
      PROVE  HashesCover' /\ UuidsFresh'
  <2>1. /\ auditLog' = auditLog /\ call[t].pc = "enter"
        /\ \A s \in Threads : call'[s].uuid = call[s].uuid
        /\ \A s \in Threads : s # t => call'[s] = call[s]
    BY <1>0, <1>4 DEF EnterLock, TypeOK, Calls
  <2>. QED
    BY <1>1, <1>2, <2>1
<1>5. ASSUME NEW t \in Threads, SelectHead(t)
      PROVE  HashesCover' /\ UuidsFresh'
  <2>1. /\ auditLog' = auditLog /\ call[t].pc = "select"
        /\ \A s \in Threads : call'[s].uuid = call[s].uuid
        /\ \A s \in Threads : s # t => call'[s] = call[s]
    BY <1>0, <1>5 DEF SelectHead, TypeOK, Calls
  <2>. QED
    BY <1>1, <1>2, <2>1
<1>6. ASSUME NEW t \in Threads, CommitEvent(t)
      PROVE  HashesCover' /\ UuidsFresh'
  <2>1. PICK e : e = NewEvent(t)
    OBVIOUS
  <2>2. /\ auditLog' = auditLog \cup {e} /\ call[t].pc = "write" /\ e.uuid = call[t].uuid
        /\ \A s \in Threads : call'[s] = IF s = t THEN Idle ELSE call[s]
    BY <1>0, <1>6, <2>1 DEF CommitEvent, TypeOK, NewEvent
  <2>3. UuidsFresh'
    BY <2>2 DEF RInv, UuidsFresh, Idle
  <2>. QED
    BY <1>6, <2>3, CoverCommit
<1>7. ASSUME NEW t \in Threads, CommitConflict(t)
      PROVE  HashesCover' /\ UuidsFresh'
  <2>1. auditLog' = auditLog /\ \A s \in Threads : call'[s] = IF s = t THEN Idle ELSE call[s]
    BY <1>0, <1>7 DEF CommitConflict, TypeOK
  <2>. QED
    BY <1>1, <1>2, <2>1 DEF Idle
<1>10. ASSUME NEW t \in Threads, ConnectionLost(t)
       PROVE  HashesCover' /\ UuidsFresh'
  <2>1. auditLog' = auditLog /\ \A s \in Threads : call'[s] = IF s = t THEN Idle ELSE call[s]
    BY <1>0, <1>10 DEF ConnectionLost, TypeOK
  <2>. QED
    BY <1>1, <1>2, <2>1 DEF Idle
<1>8. ASSUME NEW p \in Procs, Crash(p)
      PROVE  HashesCover' /\ UuidsFresh'
  <2>1. auditLog' = auditLog /\ \A s \in Threads : call'[s] = IF ProcOf[s] = p THEN Idle ELSE call[s]
    BY <1>8 DEF Crash
  <2>. QED
    BY <1>1, <1>2, <2>1 DEF Idle
<1>9. CASE UNCHANGED vars
  BY <1>1, <1>2, <1>9 DEF vars
<1>. QED
  BY <1>3, <1>4, <1>5, <1>6, <1>7, <1>8, <1>9, <1>10 DEF Next, ThreadStep

-----------------------------------------------------------------------------
(* The log of a chain with a head, entry by entry.                         *)
LEMMA LogShape ==
  ASSUME RInv, NEW c \in Chains, heads[c] # NoHead
  PROVE  /\ heads[c].seq \in Nat \ {0}
         /\ LogOf(c) = [i \in 1 .. heads[c].seq |-> heads[c].hash[i][3]]
         /\ \A i \in 1 .. heads[c].seq : \E q \in EventsOf(c) : heads[c].hash[i][3] = q.uuid
         /\ LogOf(c) \in Seq(Uuids)
<1>1. PICK h \in EventsOf(c) : heads[c] = [seq |-> h.seq, uuid |-> h.uuid, hash |-> h.hash]
  BY DEF RInv, IInv, HeadAligned
<1>2. h \in auditLog /\ h.chain = c /\ auditLog \subseteq AuditLog
  BY <1>1 DEF EventsOf, RInv, IInv, TypeOK
<1>3. heads[c].seq \in Nat \ {0}
  BY <1>1, <1>2 DEF AuditLog
<1>4. \A i \in 1 .. heads[c].seq : \E q \in EventsOf(c) : heads[c].hash[i][3] = q.uuid
  BY <1>1, <1>2 DEF RInv, HashesCover
<1>5. \A i \in 1 .. heads[c].seq : heads[c].hash[i][3] \in Uuids
  BY <1>2, <1>4 DEF EventsOf, AuditLog
<1>6. LogOf(c) = [i \in 1 .. heads[c].seq |-> heads[c].hash[i][3]]
  BY DEF LogOf
<1>. QED
  BY <1>3, <1>4, <1>5, <1>6

(* A sequence is the function of its entries.                              *)
LEMMA EntriesMakeSeq ==
  ASSUME NEW S, NEW s \in Seq(S), NEW n \in Nat, Len(s) = n
  PROVE  s = [i \in 1 .. n |-> s[i]]
<1>1. \A i \in 1 .. n : s[i] \in S
  BY LenProperties
<1>2. DOMAIN s = 1 .. n
  BY LenProperties
<1>. QED
  BY <1>2, LenProperties

(* The log of a chain whose head is event n with the given digest.         *)
LEMMA LogLength ==
  ASSUME RInv, NEW c \in Chains, heads[c] # NoHead
  PROVE  /\ Len(LogOf(c)) = heads[c].seq
         /\ \A i \in 1 .. heads[c].seq : LogOf(c)[i] = heads[c].hash[i][3]
<1>1. /\ heads[c].seq \in Nat \ {0}
      /\ LogOf(c) = [i \in 1 .. heads[c].seq |-> heads[c].hash[i][3]]
      /\ LogOf(c) \in Seq(Uuids)
  BY LogShape
<1>2. DOMAIN LogOf(c) = 1 .. heads[c].seq
  BY <1>1
<1>3. Len(LogOf(c)) \in Nat /\ DOMAIN LogOf(c) = 1 .. Len(LogOf(c))
  BY <1>1, LenProperties
<1>4. Len(LogOf(c)) = heads[c].seq
  BY <1>1, <1>2, <1>3
<1>. QED
  BY <1>1, <1>4

(* A commit puts the event's uuid, which is not in any log, at the end of  *)
(* its chain's log.                                                        *)
LEMMA CommitAppends ==
  ASSUME RInv, NEW t \in Threads, CommitEvent(t)
  PROVE  Log!AppendTo(call[t].chain, call[t].uuid)
<1>0. PICK e, c, u : e = NewEvent(t) /\ c = call[t].chain /\ u = call[t].uuid
  OBVIOUS
<1>1. /\ c \in Chains /\ e \in AuditLog /\ e.chain = c /\ e.uuid = u
      /\ e.hash = Append(e.prev, <<c, e.seq, e.uuid>>)
      /\ IF heads[c] = NoHead THEN EventsOf(c) = {} /\ e.seq = 1 /\ e.prev = << >>
         ELSE /\ e.seq = heads[c].seq + 1 /\ e.prev = heads[c].hash
              /\ \E r \in EventsOf(c) : r.seq = heads[c].seq /\ r.hash = heads[c].hash
  BY <1>0, NewEventExtends DEF CommitEvent
<1>2. /\ heads' = [heads EXCEPT ![c] = HeadOf(e)] /\ HeadOf(e) # NoHead
      /\ HeadOf(e) = [seq |-> e.seq, uuid |-> e.uuid, hash |-> e.hash]
  <2>1. HeadOf(e) \in AuditChainHead
    BY <1>1 DEF HeadOf, AuditLog, AuditChainHead
  <2>. QED
    BY <1>0, <1>1, <2>1, AbsentAssumption DEF CommitEvent, HeadOf
<1>3. \A d \in Chains : heads'[d] = IF d = c THEN HeadOf(e) ELSE heads[d]
  BY <1>1, <1>2 DEF RInv, IInv, TypeOK
<1>4. u \in Uuids /\ e.seq \in Nat \ {0}
  BY <1>1 DEF AuditLog
<1>5. LogOf(c)' = [i \in 1 .. e.seq |-> e.hash[i][3]]
  <2>1. heads'[c] # NoHead /\ heads'[c].seq = e.seq /\ heads'[c].hash = e.hash
    BY <1>1, <1>2, <1>3
  <2>2. LogOf(c)' = IF heads'[c] = NoHead THEN << >> ELSE [i \in 1 .. heads'[c].seq |-> heads'[c].hash[i][3]]
    BY DEF LogOf
  <2>. QED
    BY <2>1, <2>2
<1>6. /\ e.prev \in Seq(Chains \X Nat \X Uuids) /\ <<c, e.seq, u>> \in Chains \X Nat \X Uuids
  BY <1>1, <1>4 DEF AuditLog, Digest
<1>7. Len(e.prev) = e.seq - 1
  <2>1. CASE heads[c] = NoHead
    BY <1>1, <2>1
  <2>2. CASE heads[c] # NoHead
    <3>1. PICK r \in EventsOf(c) : r.seq = heads[c].seq /\ r.hash = heads[c].hash
      BY <1>1, <2>2
    <3>2. Len(r.hash) = r.seq /\ r.seq \in Nat
      BY <3>1 DEF EventsOf, RInv, HashesCover, IInv, TypeOK, AuditLog
    <3>. QED
      BY SMTT(30), <1>1, <2>2, <3>1, <3>2
  <2>. QED
    BY <2>1, <2>2
<1>8. /\ \A i \in 1 .. e.seq - 1 : e.hash[i] = e.prev[i]
      /\ e.hash[e.seq] = <<c, e.seq, u>>
  BY <1>1, <1>4, <1>6, <1>7, AppendProperties
<1>9. LogOf(c) \in Seq(Uuids) /\ Len(LogOf(c)) = e.seq - 1 /\ \A i \in 1 .. e.seq - 1 : LogOf(c)[i] = e.prev[i][3]
  <2>1. CASE heads[c] = NoHead
    BY <1>1, <2>1 DEF LogOf
  <2>2. CASE heads[c] # NoHead
    <3>1. e.seq - 1 = heads[c].seq /\ e.prev = heads[c].hash
      <4>1. heads[c].seq \in Nat
        BY <1>1, <2>2, LogShape
      <4>. QED
        BY <1>1, <2>2, <4>1
    <3>2. LogOf(c) \in Seq(Uuids)
      BY <1>1, <2>2, LogShape
    <3>3. Len(LogOf(c)) = heads[c].seq /\ \A i \in 1 .. heads[c].seq : LogOf(c)[i] = heads[c].hash[i][3]
      BY <1>1, <2>2, LogLength
    <3>. QED
      BY <3>1, <3>2, <3>3
  <2>. QED
    BY <2>1, <2>2
<1>10. LogOf(c)' = Append(LogOf(c), u)
  <2>1. /\ Append(LogOf(c), u) \in Seq(Uuids) /\ Len(Append(LogOf(c), u)) = e.seq
        /\ \A i \in 1 .. e.seq - 1 : Append(LogOf(c), u)[i] = e.prev[i][3]
        /\ Append(LogOf(c), u)[e.seq] = u
    BY <1>4, <1>9, AppendProperties
  <2>2. Append(LogOf(c), u) = [i \in 1 .. e.seq |-> Append(LogOf(c), u)[i]]
    BY <2>1, <1>4, EntriesMakeSeq
  <2>3. \A i \in 1 .. e.seq : e.hash[i][3] = Append(LogOf(c), u)[i]
    <3> SUFFICES ASSUME NEW i \in 1 .. e.seq PROVE e.hash[i][3] = Append(LogOf(c), u)[i]
      OBVIOUS
    <3>1. CASE i = e.seq
      BY <3>1, <1>8, <2>1
    <3>2. CASE i # e.seq
      BY <3>2, <1>4, <1>8, <2>1
    <3>. QED
      BY <3>1, <3>2
  <2>. QED
    BY <1>5, <2>2, <2>3
<1>11. \A d \in Chains : d # c => LogOf(d)' = LogOf(d)
  BY <1>3 DEF LogOf
<1>12. \A d \in Chains : \A i \in DOMAIN LogOf(d) : LogOf(d)[i] # u
  <2> SUFFICES ASSUME NEW d \in Chains, NEW i \in DOMAIN LogOf(d) PROVE LogOf(d)[i] # u
    OBVIOUS
  <2>1. heads[d] # NoHead
    BY DEF LogOf
  <2>2. i \in 1 .. heads[d].seq /\ \E q \in EventsOf(d) : LogOf(d)[i] = q.uuid
    BY <2>1, LogShape
  <2>3. \A r \in auditLog : r.uuid # u
    BY <1>0 DEF CommitEvent, RInv, UuidsFresh
  <2>. QED
    BY <2>2, <2>3 DEF EventsOf
<1>. QED
  BY <1>0, <1>1, <1>10, <1>11, <1>12 DEF Log!AppendTo, Log!Recorded

(* log_event "appends an immutable event to the specified audit chain      *)
(* atomically": whatever the processes and their crashes, all that ever    *)
(* happens to a chain is that one new event is put at its end.             *)
THEOREM LedgerIsAppendOnly == Spec => ImplementsLog
<1>1. Init => RInv
  BY TypeInit, ChainInit, RefinementInit DEF IInv, RInv
<1>2. Init => Log!Init
  BY DEF Init, Log!Init, LogOf
<1>3. RInv /\ [Next]_vars => [Log!Next]_([c \in Chains |-> LogOf(c)])
  <2> SUFFICES ASSUME RInv, [Next]_vars
               PROVE  Log!Next \/ [c \in Chains |-> LogOf(c)]' = [c \in Chains |-> LogOf(c)]
    OBVIOUS
  <2>1. ASSUME NEW t \in Threads, CommitEvent(t)
        PROVE  Log!Next
    <3>1. call[t].chain \in Chains /\ call[t].uuid \in Uuids
      BY <2>1 DEF CommitEvent, RInv, IInv, CallsNamed
    <3>. QED
      BY <2>1, <3>1, CommitAppends DEF Log!Next
  <2>2. CASE UNCHANGED heads
    BY <2>2 DEF LogOf
  <2>. QED
    BY <2>1, <2>2 DEF Next, ThreadStep, LogEvent, EnterLock, SelectHead, CommitConflict, ConnectionLost,
       Crash, vars
<1>. QED
  BY <1>1, <1>2, <1>3, RefinementNext, PTL DEF Spec, ImplementsLog, Log!Spec
==============================================================================
