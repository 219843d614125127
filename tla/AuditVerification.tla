-------------------------- MODULE AuditVerification --------------------------
(***************************************************************************)
(* AuditChainVerifier.verify_chain running beside the writers of           *)
(* AuditLedger.  It reads a chain's events in one SELECT and its head in a *)
(* second one, and under READ COMMITTED an append may commit in between.   *)
(*                                                                         *)
(* So that its checks have something to find, the tables may be changed    *)
(* behind the application's back (a restore, a manual statement): rows     *)
(* and heads become anything the tables' columns and unique constraints    *)
(* admit.  Damage is external to the code.                                 *)
(***************************************************************************)
EXTENDS AuditLedger, FiniteSets

CONSTANTS
  Verifiers,             \* concurrent verify_chain calls
  DamagedLedgers(_, _),  \* what damage may make of rows and heads: <<rows, heads>> pairs
  MaxDamage,             \* bounds how often that happens
  NoDigest               \* no expected_head_hash given

VARIABLES
  check,       \* check[v]: what verify_chain call v has read and found
  damages,     \* how often Damage has happened
  headsKept,   \* has Damage spared the head rows? (history)
  appended     \* every row log_event has committed while it had (history)

verifierVars == <<check, damages, headsKept, appended>>
allVars == <<vars, verifierVars>>

Verdicts == {"NONE", "VALID", "SEQUENCE_DISCONTINUITY", "BROKEN_HASH_LINK", "HASH_MISMATCH",
             "TAIL_DELETION_DETECTED", "HEAD_HASH_MISMATCH", "EXPECTED_HEAD_HASH_MISMATCH"}

NoCheck == [pc |-> "idle", chain |-> NoChain, expected |-> NoDigest, events |-> {},
            verdict |-> "NONE", head |-> NoHead, kept |-> FALSE,
            whole |-> FALSE, asExpected |-> FALSE]

VInit ==
  /\ Init
  /\ check = [v \in Verifiers |-> NoCheck]
  /\ damages = 0
  /\ headsKept = TRUE
  /\ appended = {}

(* What a digest speaks of: the columns that go into it, and itself.       *)
Hashed(r) == <<r.chain, r.seq, r.uuid, r.prev, r.hash>>
Contents(rows) == {Hashed(r) : r \in rows}

CommittedOf(c) == {r \in appended : r.chain = c}
CommittedUpTo(c, d) ==
  {r \in CommittedOf(c) : \E q \in CommittedOf(c) : q.hash = d /\ r.seq <= q.seq}

-----------------------------------------------------------------------------
(* ORDER BY sequence_number                                                *)
PlaceDescending(events, r) == Cardinality({q \in events : q.seq >= r.seq})
Place(events, r) == Cardinality({q \in events : q.seq <= r.seq})

InOrder(events) ==
  [i \in 1 .. Cardinality(events) |-> CHOOSE r \in events : Place(events, r) = i]

ExpectedPrev(s, i) == IF i = 1 THEN GENESIS_HASH ELSE s[i - 1].hash

EventVerdictUnlinked(s, i) ==
  IF s[i].seq # i THEN "SEQUENCE_DISCONTINUITY"
  ELSE IF s[i].hash # EventHash(s[i].chain, s[i].seq, s[i].uuid, s[i].prev)
    THEN "HASH_MISMATCH"
  ELSE "VALID"

(* The three checks the loop makes of the i-th event, in their order.      *)
EventVerdict(s, i) ==
  IF s[i].seq # i THEN "SEQUENCE_DISCONTINUITY"
  ELSE IF s[i].prev # ExpectedPrev(s, i) THEN "BROKEN_HASH_LINK"
  ELSE IF s[i].hash # EventHash(s[i].chain, s[i].seq, s[i].uuid, s[i].prev)
    THEN "HASH_MISMATCH"
  ELSE "VALID"

HeadVerdict(last, head, expected) ==
  IF head # NoHead /\ head.seq # last.seq THEN "TAIL_DELETION_DETECTED"
  ELSE IF head # NoHead /\ head.hash # last.hash THEN "HEAD_HASH_MISMATCH"
  ELSE IF expected # NoDigest /\ last.hash # expected THEN "EXPECTED_HEAD_HASH_MISMATCH"
  ELSE "VALID"

(* The first failing event decides; a clean chain is held against its head. *)
Verdict(events, head, expected) ==
  LET s == InOrder(events)
      bad == {i \in DOMAIN s : EventVerdict(s, i) # "VALID"}
  IN  IF bad = {}
        THEN HeadVerdict(s[Len(s)], head, expected)
        ELSE EventVerdict(s, CHOOSE i \in bad : \A j \in bad : i <= j)

-----------------------------------------------------------------------------
(* The first SELECT; a chain without events is valid at once.  A caller    *)
(* may name the digest it expects the head to have, one noted before.      *)
ReadEvents(v, c, expected) ==
  LET events == EventsOf(c)
  IN  /\ check[v].pc = "idle"
      /\ expected \in {NoDigest} \cup {r.hash : r \in appended}
      /\ check' = [check EXCEPT ![v] =
                     [NoCheck EXCEPT !.chain = c, !.expected = expected, !.events = events,
                                     !.pc = IF events = {} THEN "done" ELSE "read",
                                     !.verdict = IF events = {} THEN "VALID" ELSE "NONE"]]
      /\ UNCHANGED <<vars, damages, headsKept, appended>>

(* The second SELECT, and the verdict on what both have returned; beside   *)
(* it, for the properties, how that compares with what was committed.      *)
ReadHead(v) ==
  LET k == check[v]
  IN  /\ k.pc = "read"
      /\ check' = [check EXCEPT ![v] =
           [k EXCEPT !.pc = "done", !.head = heads[k.chain],
                     !.verdict = Verdict(k.events, heads[k.chain], k.expected),
                     !.kept = headsKept,
                     !.whole = Contents(k.events) = Contents(CommittedOf(k.chain)),
                     !.asExpected = Contents(k.events) = Contents(CommittedUpTo(k.chain, k.expected))]]
      /\ UNCHANGED <<vars, damages, headsKept, appended>>

Return(v) ==
  /\ check[v].pc = "done"
  /\ check' = [check EXCEPT ![v] = NoCheck]
  /\ UNCHANGED <<vars, damages, headsKept, appended>>

(* The columns' types, and uq_audit_chain_sequence.                        *)
Storable(rows, hs) ==
  /\ rows \subseteq AuditLog /\ IsFiniteSet(rows)
  /\ \A q, r \in rows : q.chain = r.chain /\ q.seq = r.seq => q = r
  /\ hs \in [Chains -> AuditChainHead \cup {NoHead}]

(* External: rows vanish, appear, change in any column or change places,   *)
(* and heads do, except under a writer's row lock.                         *)
Damage ==
  /\ damages < MaxDamage
  /\ \E d \in DamagedLedgers(auditLog, heads) :
       /\ Storable(d[1], d[2])
       /\ \A c \in Chains : rowLock[c] # NoThread => d[2][c] = heads[c]
       /\ auditLog' = d[1]
       /\ heads' = d[2]
  /\ damages' = damages + 1
  /\ headsKept' = (headsKept /\ heads' = heads)
  /\ UNCHANGED <<checkpoints, lock, rowLock, call, check, appended>>

(* A step of a writer; what it commits is remembered, and no uuid comes    *)
(* back, not even that of a lost row.                                      *)
Write ==
  /\ Next
  /\ \A t \in Threads :
       call'[t].uuid \in {call[t].uuid, NoUuid} \cup (Uuids \ {r.uuid : r \in appended})
  /\ appended' = IF headsKept THEN appended \cup (auditLog' \ auditLog) ELSE appended
  /\ UNCHANGED <<check, damages, headsKept>>

VNext ==
  \/ Write
  \/ \E v \in Verifiers, c \in Chains : \E x \in {NoDigest} \cup {r.hash : r \in appended} :
       ReadEvents(v, c, x)
  \/ \E v \in Verifiers : ReadHead(v) \/ Return(v)
  \/ Damage

VSpec == VInit /\ [][VNext]_allVars

-----------------------------------------------------------------------------
Findings ==
  [pc : {"idle", "read", "done"}, chain : Chains \cup {NoChain},
   expected : Digest \cup {NoDigest}, events : SUBSET AuditLog, verdict : Verdicts,
   head : AuditChainHead \cup {NoHead}, kept : BOOLEAN, whole : BOOLEAN, asExpected : BOOLEAN]

VTypeOK ==
  /\ check \in [Verifiers -> Findings]
  /\ damages \in Nat
  /\ headsKept \in BOOLEAN
  /\ appended \subseteq AuditLog

(* DETECTION, and its limits.  A chain found valid with events in it is, in *)
(* the columns that are hashed, exactly what log_event had committed when  *)
(* the head was read, provided that the chain has a head row and nobody    *)
(* but log_event has written head rows; and whatever happened to the heads,*)
(* it is exactly what had been committed up to the digest the caller       *)
(* expects, if one was given.  Nothing is claimed of the columns outside   *)
(* the digest, of a chain found empty (valid without a look at its head),  *)
(* nor without head row and expected digest (the tail check is skipped).   *)
ValidMeansWhole ==
  \A v \in Verifiers :
    LET k == check[v]
    IN  (k.pc = "done" /\ k.verdict = "VALID" /\ k.events # {}) =>
          /\ k.head # NoHead /\ k.kept => k.whole
          /\ k.expected # NoDigest => k.asExpected

(* On an undamaged ledger the only complaints are about a moving head: an  *)
(* expected digest that is not the newest, or an append that committed     *)
(* between the two reads and is reported as a tail deletion.               *)
ComplaintsExplained ==
  \A v \in Verifiers :
    (damages = 0 /\ check[v].pc = "done" /\ check[v].verdict # "VALID") =>
      \/ /\ check[v].verdict = "TAIL_DELETION_DETECTED"
         /\ \A r \in check[v].events : r.seq < check[v].head.seq
      \/ check[v].verdict = "EXPECTED_HEAD_HASH_MISMATCH" /\ check[v].expected # NoDigest

(* Where one process serves the database, the only commits turned away are *)
(* those that meet damage: a number that was forged or put back in front   *)
(* of the writers, or a head that does not match its events.               *)
RefusedOnlyAfterDamage == damages = 0 => AllocationNeverRefused
=============================================================================
