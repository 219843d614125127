-------------------------- MODULE VerificationProofs --------------------------
(***************************************************************************)
(* What verify_chain's verdict is worth, for any number of chains, events, *)
(* writers and verifiers and whatever is done to the tables: VALID means   *)
(* that no hashed column of a committed event is missing or altered, as    *)
(* far as the head rows or an expected digest can be relied on, and a      *)
(* ledger nobody has touched is complained of only for its moving head.    *)
(* What the writers do is taken from AuditLedgerProofs, read about the     *)
(* rows that log_event committed instead of those the database still has.  *)
(***************************************************************************)
EXTENDS AuditVerification, AuditLedgerProofs, FiniteSetTheorems

Committed == INSTANCE AuditLedgerProofs WITH auditLog <- appended

LEMMA SameHeads == Committed!AuditChainHead = AuditChainHead /\ Committed!AuditLog = AuditLog
BY DEF Committed!AuditChainHead, AuditChainHead, Committed!Digest, Digest, Committed!AuditLog, AuditLog

-----------------------------------------------------------------------------
(* What stands in for induction over the natural numbers: a set of them    *)
(* has a least member.                                                     *)
LEMMA LeastNatural ==
  ASSUME NEW T, T \subseteq Nat, T # {}
  PROVE  \E x \in T : \A y \in T : x <= y
<1>1. IsWellFoundedOn(OpToRel(<, Nat), Nat)
  BY Zenon, NatLessThanWellFounded
<1>2. PICK x \in T : \A y \in T : ~(<<y, x>> \in OpToRel(<, Nat))
  BY Zenon, <1>1, WFMin
<1>3. ASSUME NEW y \in T, y < x PROVE FALSE
  <2>1. <<y, x>> \in {ss \in Nat \X Nat : ss[1] < ss[2]}
    BY <1>3
  <2>2. <<y, x>> \in OpToRel(<, Nat)
    BY Zenon, <2>1 DEF OpToRel
  <2>. QED
    BY Zenon, <2>2, <1>2
<1>. QED
  BY <1>3

(* The rows the first SELECT returns, and nothing else, come in order: a   *)
(* row's place is the number of rows up to it.                             *)
Numbered(events) ==
  /\ IsFiniteSet(events)
  /\ events \subseteq AuditLog
  /\ \A q, r \in events : q.seq = r.seq => q = r

LEMMA PlaceInjective ==
  ASSUME NEW events, Numbered(events)
  PROVE  [r \in events |-> Place(events, r)] \in Injection(events, 1 .. Cardinality(events))
<1> DEFINE UpTo(r) == {q \in events : q.seq <= r.seq}
<1>0. IsFiniteSet(events) /\ \A r \in events : r.seq \in Nat
  BY DEF Numbered, AuditLog
<1>1. ASSUME NEW r \in events
      PROVE  /\ IsFiniteSet(UpTo(r))
             /\ Cardinality(UpTo(r)) \in 1 .. Cardinality(events)
             /\ Place(events, r) = Cardinality(UpTo(r))
  <2>1. IsFiniteSet(UpTo(r)) /\ Cardinality(UpTo(r)) <= Cardinality(events)
    BY <1>0, FS_Subset
  <2>2. r \in UpTo(r)
    BY <1>0
  <2>3. Cardinality(UpTo(r)) # 0
    BY <2>1, <2>2, FS_EmptySet
  <2>4. Cardinality(UpTo(r)) \in Nat /\ Cardinality(events) \in Nat
    BY <1>0, <2>1, FS_CardinalityType
  <2>. QED
    BY <2>1, <2>3, <2>4 DEF Place
<1>2. ASSUME NEW q \in events, NEW r \in events, q.seq < r.seq
      PROVE  Cardinality(UpTo(q)) # Cardinality(UpTo(r))
  <2>1. UpTo(q) \in SUBSET UpTo(r)
    BY <1>0, <1>2
  <2>2. r \in UpTo(r) /\ r \notin UpTo(q)
    BY <1>0, <1>2
  <2>. QED
    BY <1>1, <2>1, <2>2, FS_Subset
<1>3. ASSUME NEW q \in events, NEW r \in events, Place(events, q) = Place(events, r)
      PROVE  q = r
  <2>1. ~(q.seq < r.seq) /\ ~(r.seq < q.seq)
    BY <1>1, <1>2, <1>3
  <2>. QED
    BY <1>0, <2>1 DEF Numbered
<1>. QED
  BY <1>1, <1>3 DEF Injection, IsInjective

LEMMA InOrderLists ==
  ASSUME NEW events, Numbered(events)
  PROVE  LET s == InOrder(events)
             n == Cardinality(events)
         IN  /\ n \in Nat /\ DOMAIN s = 1 .. n
             /\ \A i \in 1 .. n : s[i] \in events /\ Place(events, s[i]) = i
             /\ \A r \in events : Place(events, r) \in 1 .. n /\ s[Place(events, r)] = r
<1> DEFINE n == Cardinality(events)
           f == [r \in events |-> Place(events, r)]
           s == InOrder(events)
<1>1. n \in Nat /\ IsFiniteSet(1 .. n) /\ Cardinality(1 .. n) = n
  BY FS_CardinalityType, FS_Interval DEF Numbered
<1>2. f \in Injection(events, 1 .. n)
  BY PlaceInjective
<1>3. f \in Surjection(events, 1 .. n)
  BY <1>1, <1>2, FS_Injection
<1>4. \A i \in 1 .. n : \E r \in events : Place(events, r) = i
  BY <1>3 DEF Surjection
<1>5. /\ \A r \in events : Place(events, r) \in 1 .. n
      /\ \A q, r \in events : Place(events, q) = Place(events, r) => q = r
  BY <1>2 DEF Injection, IsInjective
<1>6. DOMAIN s = 1 .. n /\ \A i \in 1 .. n : s[i] = CHOOSE r \in events : Place(events, r) = i
  BY DEF InOrder
<1>7. \A i \in 1 .. n : s[i] \in events /\ Place(events, s[i]) = i
  BY <1>4, <1>6
<1>. QED
  BY <1>1, <1>5, <1>6, <1>7

(* Where no number is missing up to any row, a row's place is its number.  *)
LEMMA PlaceIsNumber ==
  ASSUME NEW events, Numbered(events),
         \A r \in events : \A k \in 1 .. r.seq : \E q \in events : q.seq = k
  PROVE  \A r \in events : Place(events, r) = r.seq
<1> SUFFICES ASSUME NEW r \in events
             PROVE  Place(events, r) = r.seq
  OBVIOUS
<1> DEFINE UpTo == {q \in events : q.seq <= r.seq}
           f == [q \in UpTo |-> q.seq]
<1>1. /\ r.seq \in Nat \ {0}
      /\ \A q \in events : q.seq \in Nat \ {0}
      /\ IsFiniteSet(UpTo)
  <2>1. IsFiniteSet(UpTo)
    BY FS_Subset DEF Numbered
  <2>. QED
    BY <2>1 DEF Numbered, AuditLog
<1>2. f \in [UpTo -> 1 .. r.seq]
  BY <1>1
<1>3. \A p, q \in UpTo : f[p] = f[q] => p = q
  BY DEF Numbered
<1>4. \A k \in 1 .. r.seq : \E q \in UpTo : f[q] = k
  BY <1>1
<1>5. f \in Bijection(UpTo, 1 .. r.seq)
  BY <1>2, <1>3, <1>4 DEF Bijection, Injection, IsInjective, Surjection
<1>6. Cardinality(1 .. r.seq) = Cardinality(UpTo)
  BY <1>1, <1>5, FS_Bijection DEF ExistsBijection
<1>7. Cardinality(1 .. r.seq) = r.seq
  BY <1>1, FS_Interval
<1>. QED
  BY <1>6, <1>7 DEF Place

-----------------------------------------------------------------------------
(* A digest commits to what it was computed over: rows of the same digest  *)
(* agree in all hashed columns.                                            *)
LEMMA DigestNamesRow ==
  ASSUME NEW q \in AuditLog, NEW r \in AuditLog, q.hash = r.hash,
         q.hash = EventHash(q.chain, q.seq, q.uuid, q.prev),
         r.hash = EventHash(r.chain, r.seq, r.uuid, r.prev)
  PROVE  /\ q.chain = r.chain /\ q.seq = r.seq /\ q.uuid = r.uuid /\ q.prev = r.prev
         /\ Hashed(q) = Hashed(r)
<1> DEFINE Entry(x) == <<x.chain, x.seq, x.uuid>>
           Entries == Chains \X Nat \X Uuids
<1>1. /\ q.prev \in Seq(Entries) /\ Entry(q) \in Entries
      /\ r.prev \in Seq(Entries) /\ Entry(r) \in Entries
  BY DEF AuditLog, Digest
<1>2. Append(q.prev, Entry(q)) = Append(r.prev, Entry(r))
  BY DEF EventHash
<1>3. q.prev = r.prev /\ Entry(q) = Entry(r)
  <2>1. \A S : \A s, t \in Seq(S) : \A e, f \in S : Append(s, e) = Append(t, f) => s = t /\ e = f
    BY AppendInjective
  <2>. HIDE DEF Entry, Entries
  <2>2. \A s, t \in Seq(Entries) : \A e, f \in Entries : Append(s, e) = Append(t, f) => s = t /\ e = f
    BY <2>1
  <2>. QED
    BY <1>1, <1>2, <2>2
<1>. QED
  BY <1>3 DEF Hashed

(* VALID says that every event passed the loop and the last one passed the *)
(* comparison with the head.                                               *)
LEMMA ValidIsClean ==
  ASSUME NEW events, NEW head, NEW expected, Numbered(events), events # {},
         Verdict(events, head, expected) = "VALID"
  PROVE  LET s == InOrder(events)
             n == Cardinality(events)
         IN  /\ n \in Nat \ {0}
             /\ \A i \in 1 .. n : EventVerdict(s, i) = "VALID"
             /\ HeadVerdict(s[n], head, expected) = "VALID"
<1> DEFINE s == InOrder(events)
           n == Cardinality(events)
           bad == {i \in DOMAIN s : EventVerdict(s, i) # "VALID"}
<1>1. n \in Nat \ {0} /\ DOMAIN s = 1 .. n /\ \A i \in 1 .. n : s[i] \in events
  BY InOrderLists, FS_EmptySet DEF Numbered
<1>2. Len(s) = n
  BY <1>1
<1>3. bad = {}
  <2>1. SUFFICES ASSUME bad # {}
                 PROVE  FALSE
    OBVIOUS
  <2>2. bad \subseteq Nat
    BY <1>1
  <2>3. \E i \in bad : \A j \in bad : i <= j
    BY <2>1, <2>2, LeastNatural
  <2>4. (CHOOSE i \in bad : \A j \in bad : i <= j) \in bad
    BY <2>3
  <2>. QED
    BY <2>1, <2>4 DEF Verdict
<1>. QED
  BY <1>1, <1>2, <1>3 DEF Verdict

-----------------------------------------------------------------------------
(* What the proofs about the ledger say of the committed rows of a chain.  *)
LEMMA CommittedEvents ==
  ASSUME appended \subseteq AuditLog, Committed!ChainUnbroken, NEW c
  PROVE  /\ CommittedOf(c) \subseteq AuditLog
         /\ \A r \in CommittedOf(c) :
              /\ r \in appended /\ r.chain = c
              /\ r.hash = EventHash(r.chain, r.seq, r.uuid, r.prev)
              /\ r.seq = 1 => r.prev = GENESIS_HASH
              /\ r.seq > 1 => \E q \in CommittedOf(c) : q.seq = r.seq - 1 /\ q.hash = r.prev
              /\ \A k \in 1 .. r.seq : \E q \in CommittedOf(c) : q.seq = k
              /\ \A q \in CommittedOf(c) : q.seq = r.seq => q = r
<1>1. Committed!EventsOf(c) = CommittedOf(c)
  BY DEF Committed!EventsOf, CommittedOf
<1>2. ASSUME NEW r \in CommittedOf(c)
      PROVE  /\ r.hash = EventHash(r.chain, r.seq, r.uuid, r.prev)
             /\ r.seq = 1 => r.prev = GENESIS_HASH
             /\ r.seq > 1 => \E q \in CommittedOf(c) : q.seq = r.seq - 1 /\ q.hash = r.prev
             /\ \A k \in 1 .. r.seq : \E q \in CommittedOf(c) : q.seq = k
             /\ \A q \in CommittedOf(c) : q.seq = r.seq => q = r
  <2>1. r \in appended /\ r.chain = c
    BY DEF CommittedOf
  <2>. QED
    BY <1>1, <2>1 DEF Committed!ChainUnbroken, Committed!EventHash, EventHash, Committed!GENESIS_HASH, GENESIS_HASH
<1>. QED
  BY <1>2 DEF CommittedOf

LEMMA CommittedChain ==
  ASSUME Committed!IInv, NEW c \in Chains
  PROVE  /\ appended \subseteq AuditLog /\ Committed!ChainUnbroken
         /\ heads[c] \in AuditChainHead \cup {NoHead}
         /\ heads[c] = NoHead => CommittedOf(c) = {}
         /\ heads[c] # NoHead => \E r \in CommittedOf(c) : r.seq = heads[c].seq /\ r.hash = heads[c].hash
         /\ heads[c] # NoHead => \A r \in CommittedOf(c) : r.seq <= heads[c].seq
<1>1. appended \subseteq AuditLog /\ heads[c] \in AuditChainHead \cup {NoHead}
  BY SameHeads DEF Committed!IInv, Committed!TypeOK
<1>2. Committed!EventsOf(c) = CommittedOf(c)
  BY DEF Committed!EventsOf, CommittedOf
<1>3. IF heads[c] = NoHead
        THEN CommittedOf(c) = {}
        ELSE /\ \E r \in CommittedOf(c) : heads[c] = [seq |-> r.seq, uuid |-> r.uuid, hash |-> r.hash]
             /\ \A r \in CommittedOf(c) : r.seq <= heads[c].seq
  BY <1>2 DEF Committed!IInv, Committed!HeadAligned
<1>4. ASSUME heads[c] # NoHead
      PROVE  \E r \in CommittedOf(c) : r.seq = heads[c].seq /\ r.hash = heads[c].hash
  <2>1. PICK r \in CommittedOf(c) : heads[c] = [seq |-> r.seq, uuid |-> r.uuid, hash |-> r.hash]
    BY <1>3, <1>4
  <2>. QED
    BY <2>1
<1>. QED
  BY <1>1, <1>3, <1>4 DEF Committed!IInv

(* The argument of DETECTION.  Where the last event read carries the       *)
(* digest of a committed event p, it is p, and if an event read is         *)
(* committed, then so is the one before it, because both are what its      *)
(* digest covers.                                                          *)
LEMMA CleanIsCommitted ==
  ASSUME appended \subseteq AuditLog, Committed!ChainUnbroken, NEW c, NEW events,
         Numbered(events), events # {}, \A r \in events : r.chain = c,
         \A i \in 1 .. Cardinality(events) : EventVerdict(InOrder(events), i) = "VALID",
         NEW p \in appended, p.hash = InOrder(events)[Cardinality(events)].hash
  PROVE  /\ p \in CommittedOf(c)
         /\ Contents(events) = Contents({r \in CommittedOf(c) : r.seq <= p.seq})
<1> DEFINE s == InOrder(events)
           n == Cardinality(events)
           M == CommittedOf(c)
           Known(i) == \E q \in M : q.hash = s[i].hash /\ Hashed(q) = Hashed(s[i])
<1>1. /\ n \in Nat \ {0}
      /\ \A i \in 1 .. n : s[i] \in events
      /\ \A r \in events : \E i \in 1 .. n : s[i] = r
  BY InOrderLists, FS_EmptySet DEF Numbered
<1> HIDE DEF s, n, M
<1>2. ASSUME NEW i \in 1 .. n
      PROVE  /\ s[i] \in AuditLog /\ s[i].chain = c /\ s[i].seq = i
             /\ s[i].prev = ExpectedPrev(s, i)
             /\ s[i].hash = EventHash(s[i].chain, s[i].seq, s[i].uuid, s[i].prev)
  BY <1>1 DEF EventVerdict, Numbered, s, n
<1>3. /\ M \subseteq AuditLog
      /\ \A r \in M : /\ r.chain = c
                      /\ r.hash = EventHash(r.chain, r.seq, r.uuid, r.prev)
                      /\ r.seq > 1 => \E q \in M : q.seq = r.seq - 1 /\ q.hash = r.prev
                      /\ \A q \in M : q.seq = r.seq => q = r
  BY CommittedEvents DEF M
<1>4. p \in M /\ p.seq = n /\ Known(n)
  <2>1. p \in CommittedOf(p.chain) /\ p \in AuditLog
    BY DEF CommittedOf
  <2>2. p.hash = EventHash(p.chain, p.seq, p.uuid, p.prev)
    BY <2>1, CommittedEvents
  <2>3. s[n] \in AuditLog /\ s[n].chain = c /\ s[n].seq = n /\ p.hash = s[n].hash
        /\ s[n].hash = EventHash(s[n].chain, s[n].seq, s[n].uuid, s[n].prev)
    BY <1>1, <1>2 DEF s, n
  <2>4. p.chain = c /\ p.seq = n /\ Hashed(p) = Hashed(s[n])
    BY <2>1, <2>2, <2>3, DigestNamesRow
  <2>. QED
    BY <2>1, <2>3, <2>4 DEF M
<1>5. ASSUME NEW i \in 1 .. n, i > 1, Known(i)
      PROVE  Known(i - 1)
  <2>1. i - 1 \in 1 .. n /\ ExpectedPrev(s, i) = s[i - 1].hash
    BY <1>1, <1>5 DEF ExpectedPrev
  <2>2. PICK r \in M : r.hash = s[i].hash
    BY <1>5
  <2>3. r.seq = i /\ r.prev = s[i - 1].hash
    BY <1>2, <1>3, <2>1, <2>2, DigestNamesRow
  <2>4. PICK q \in M : q.seq = i - 1 /\ q.hash = s[i - 1].hash
    BY <1>3, <1>5, <2>3
  <2>5. Hashed(q) = Hashed(s[i - 1])
    BY <1>2, <1>3, <2>1, <2>4, DigestNamesRow
  <2>. QED
    BY <2>4, <2>5
<1>6. \A i \in 1 .. n : Known(i)
  <2> HIDE DEF Known
  <2> DEFINE Astray == {k \in Nat : k < n /\ ~Known(n - k)}
  <2>1. SUFFICES ASSUME Astray # {}
                 PROVE  FALSE
    <3>1. \A i \in 1 .. n : n - i \in Nat /\ n - i < n /\ n - (n - i) = i
      BY <1>1
    <3>. QED
      BY <3>1
  <2>2. PICK k \in Astray : \A j \in Astray : k <= j
    BY <2>1, LeastNatural
  <2>3. k \in Nat /\ k < n /\ ~Known(n - k)
    BY <2>2
  <2>4. k # 0
    BY <1>1, <1>4, <2>3
  <2>5. k - 1 \in Nat /\ k - 1 < n /\ k - 1 \notin Astray
    BY <1>1, <2>2, <2>3, <2>4
  <2>6. Known(n - (k - 1))
    BY <2>5
  <2>7. n - (k - 1) \in 1 .. n /\ n - (k - 1) > 1 /\ n - (k - 1) - 1 = n - k
    BY <1>1, <2>3, <2>4
  <2>. QED
    BY <1>5, <2>3, <2>6, <2>7
<1>7. ASSUME NEW i \in 1 .. n
      PROVE  \E q \in M : q.seq = i /\ Hashed(q) = Hashed(s[i])
  <2>1. PICK q \in M : q.hash = s[i].hash /\ Hashed(q) = Hashed(s[i])
    BY <1>6
  <2>2. q.seq = i
    BY <1>2, <1>3, <2>1, DigestNamesRow
  <2>. QED
    BY <2>1, <2>2
<1>8. ASSUME NEW r \in events
      PROVE  \E q \in {x \in M : x.seq <= p.seq} : Hashed(q) = Hashed(r)
  <2>1. PICK i \in 1 .. n : s[i] = r
    BY <1>1
  <2>2. PICK q \in M : q.seq = i /\ Hashed(q) = Hashed(s[i])
    BY <1>7
  <2>. QED
    BY <1>1, <1>4, <2>1, <2>2
<1>9. ASSUME NEW r \in M, r.seq <= p.seq
      PROVE  \E q \in events : Hashed(q) = Hashed(r)
  <2>1. r.seq \in 1 .. n
    BY <1>1, <1>3, <1>4, <1>9 DEF AuditLog
  <2>2. PICK q \in M : q.seq = r.seq /\ Hashed(q) = Hashed(s[r.seq])
    BY <1>7, <2>1
  <2>3. q = r
    BY <1>3, <2>2
  <2>. QED
    BY <1>1, <2>1, <2>2, <2>3
<1>. QED
  BY <1>4, <1>8, <1>9 DEF Contents, M

(* With the head row log_event wrote, p is the newest event of the chain.  *)
LEMMA ValidIsWhole ==
  ASSUME Committed!IInv, NEW c \in Chains, NEW events, NEW expected,
         Numbered(events), events # {}, \A r \in events : r.chain = c,
         heads[c] # NoHead, Verdict(events, heads[c], expected) = "VALID"
  PROVE  Contents(events) = Contents(CommittedOf(c))
<1> DEFINE s == InOrder(events)
           n == Cardinality(events)
<1>1. /\ \A i \in 1 .. n : EventVerdict(s, i) = "VALID"
      /\ HeadVerdict(s[n], heads[c], expected) = "VALID"
  BY ValidIsClean
<1> HIDE DEF s, n
<1>2. heads[c].hash = s[n].hash
  BY <1>1 DEF HeadVerdict
<1>3. PICK p \in CommittedOf(c) : p.seq = heads[c].seq /\ p.hash = heads[c].hash
  BY CommittedChain
<1>4. p \in appended /\ {r \in CommittedOf(c) : r.seq <= p.seq} = CommittedOf(c)
  BY <1>3, CommittedChain DEF CommittedOf
<1>5. Contents(events) = Contents({r \in CommittedOf(c) : r.seq <= p.seq})
  BY <1>1, <1>2, <1>3, <1>4, CleanIsCommitted, CommittedChain DEF s, n
<1>. QED
  BY <1>4, <1>5

(* With an expected digest, p is the event the caller noted it from.       *)
LEMMA ValidIsExpected ==
  ASSUME appended \subseteq AuditLog, Committed!ChainUnbroken, NEW c, NEW events, NEW head, NEW expected,
         Numbered(events), events # {}, \A r \in events : r.chain = c,
         expected # NoDigest, \E r \in appended : r.hash = expected,
         Verdict(events, head, expected) = "VALID"
  PROVE  Contents(events) = Contents(CommittedUpTo(c, expected))
<1> DEFINE s == InOrder(events)
           n == Cardinality(events)
<1>1. /\ \A i \in 1 .. n : EventVerdict(s, i) = "VALID"
      /\ HeadVerdict(s[n], head, expected) = "VALID"
  BY ValidIsClean
<1> HIDE DEF s, n
<1>2. expected = s[n].hash
  BY <1>1 DEF HeadVerdict
<1>3. PICK p \in appended : p.hash = expected
  OBVIOUS
<1>4. /\ p \in CommittedOf(c)
      /\ Contents(events) = Contents({r \in CommittedOf(c) : r.seq <= p.seq})
  BY <1>1, <1>2, <1>3, CleanIsCommitted DEF s, n
<1>5. \A q \in CommittedOf(c) : q.hash = expected => q.seq = p.seq
  BY <1>3, <1>4, CommittedEvents, DigestNamesRow
<1>6. CommittedUpTo(c, expected) = {r \in CommittedOf(c) : r.seq <= p.seq}
  BY <1>3, <1>4, <1>5 DEF CommittedUpTo
<1>. QED
  BY <1>4, <1>6

(* Committed events without a gap pass the loop, so only the comparison    *)
(* with the head, or with the caller's digest, can complain: the head has  *)
(* moved on, or the caller expected another digest.                        *)
LEMMA UndamagedIsClean ==
  ASSUME Committed!IInv, NEW c \in Chains, NEW events, NEW expected,
         Numbered(events), events # {}, events \subseteq CommittedOf(c),
         \A r \in events : \A k \in 1 .. r.seq : \E q \in events : q.seq = k,
         Verdict(events, heads[c], expected) # "VALID"
  PROVE  \/ /\ Verdict(events, heads[c], expected) = "TAIL_DELETION_DETECTED"
            /\ \A r \in events : r.seq < heads[c].seq
         \/ Verdict(events, heads[c], expected) = "EXPECTED_HEAD_HASH_MISMATCH" /\ expected # NoDigest
<1> DEFINE s == InOrder(events)
           n == Cardinality(events)
           M == CommittedOf(c)
<1>1. /\ n \in Nat \ {0} /\ DOMAIN s = 1 .. n /\ Len(s) = n
      /\ \A i \in 1 .. n : s[i] \in events /\ s[i].seq = i
      /\ \A r \in events : r.seq \in 1 .. n
  <2>1. n \in Nat \ {0} /\ DOMAIN s = 1 .. n
    BY InOrderLists, FS_EmptySet DEF Numbered
  <2>2. Len(s) = n
    BY <2>1
  <2>3. \A r \in events : Place(events, r) = r.seq
    BY PlaceIsNumber
  <2>4. /\ \A i \in 1 .. n : s[i] \in events /\ Place(events, s[i]) = i
        /\ \A r \in events : Place(events, r) \in 1 .. n
    BY InOrderLists
  <2>. QED
    BY <2>1, <2>2, <2>3, <2>4
<1>2. /\ M \subseteq AuditLog /\ events \subseteq M
      /\ heads[c] # NoHead => \E r \in M : r.seq = heads[c].seq /\ r.hash = heads[c].hash
      /\ heads[c] # NoHead => \A r \in M : r.seq <= heads[c].seq
      /\ heads[c] # NoHead => heads[c].seq \in Nat
      /\ \A r \in M : /\ r.hash = EventHash(r.chain, r.seq, r.uuid, r.prev)
                      /\ r.seq = 1 => r.prev = GENESIS_HASH
                      /\ r.seq > 1 => \E q \in M : q.seq = r.seq - 1 /\ q.hash = r.prev
                      /\ \A q \in M : q.seq = r.seq => q = r
  <2>1. heads[c] # NoHead => heads[c].seq \in Nat
    BY CommittedChain DEF AuditChainHead
  <2>. QED
    BY <2>1, CommittedChain, CommittedEvents
<1>3. Verdict(events, heads[c], expected) =
        IF {i \in DOMAIN s : EventVerdict(s, i) # "VALID"} = {}
          THEN HeadVerdict(s[Len(s)], heads[c], expected)
          ELSE EventVerdict(s, CHOOSE i \in {j \in DOMAIN s : EventVerdict(s, j) # "VALID"} :
                                 \A j \in {k \in DOMAIN s : EventVerdict(s, k) # "VALID"} : i <= j)
  BY DEF Verdict
<1> HIDE DEF s, n, M
<1>4. ASSUME NEW i \in 1 .. n
      PROVE  EventVerdict(s, i) = "VALID"
  <2>1. s[i] \in M /\ s[i].seq = i /\ i \in Nat \ {0}
    BY <1>1, <1>2
  <2>2. s[i].prev = ExpectedPrev(s, i)
    <3>1. CASE i = 1
      BY <1>2, <2>1, <3>1 DEF ExpectedPrev
    <3>2. CASE i > 1
      <4>1. PICK q \in M : q.seq = i - 1 /\ q.hash = s[i].prev
        BY <1>2, <2>1, <3>2
      <4>2. i - 1 \in 1 .. n
        BY <1>1, <3>2
      <4>3. s[i - 1] \in M /\ s[i - 1].seq = i - 1
        BY <1>1, <1>2, <4>2
      <4>4. q = s[i - 1]
        BY <1>2, <4>1, <4>3
      <4>. QED
        BY <3>2, <4>1, <4>4 DEF ExpectedPrev
    <3>. QED
      BY <2>1, <3>1, <3>2
  <2>. QED
    BY <1>2, <2>1, <2>2 DEF EventVerdict
<1>5. Verdict(events, heads[c], expected) = HeadVerdict(s[n], heads[c], expected)
  <2>1. {i \in DOMAIN s : EventVerdict(s, i) # "VALID"} = {}
    BY <1>1, <1>4
  <2>. QED
    BY <1>1, <1>3, <2>1
<1>6. s[n] \in M /\ s[n].seq = n /\ s[n] \in events
  BY <1>1, <1>2
<1>7. ASSUME heads[c] # NoHead, heads[c].seq = n
      PROVE  heads[c].hash = s[n].hash
  BY <1>2, <1>6, <1>7
<1>8. ASSUME heads[c] # NoHead, heads[c].seq # n
      PROVE  \A r \in events : r.seq < heads[c].seq
  <2>1. heads[c].seq \in Nat /\ n <= heads[c].seq /\ n \in Nat
    BY <1>1, <1>2, <1>6, <1>8
  <2>. QED
    BY <1>1, <1>8, <2>1
<1>. QED
  BY <1>5, <1>6, <1>7, <1>8 DEF HeadVerdict

-----------------------------------------------------------------------------
(* What the database holds is storable, whatever was done to it; what was  *)
(* committed is an unbroken chain for good, and as long as nobody but      *)
(* log_event has touched the heads, heads and calls go with it.            *)
LedgerStorable ==
  /\ TypeOK
  /\ CallsNamed
  /\ IsFiniteSet(auditLog)
  /\ \A q, r \in auditLog : q.chain = r.chain /\ q.seq = r.seq => q = r

CommittedSound ==
  /\ appended \subseteq AuditLog
  /\ Committed!ChainUnbroken
  /\ headsKept => Committed!LockInv
  /\ damages = 0 => headsKept /\ auditLog = appended

WriteInv == LedgerStorable /\ CommittedSound

(* What a writer can insert into a damaged ledger it could have inserted   *)
(* into the undamaged one, because its head row is current.  Without that, *)
(* the number of a lost event could be given out again, and VALID would    *)
(* not tell.                                                               *)
HeadsAreCurrent == RowLocks \/ OneProcess

LEMMA InsertableAlike ==
  ASSUME HeadsAreCurrent, Committed!LockInv, NEW t \in Threads, call[t].pc = "write", Insertable(t)
  PROVE  Committed!Insertable(t)
<1>1. heads[call[t].chain] = call[t].head
  BY DEF HeadsAreCurrent, OneProcess, Committed!LockInv, Committed!HeadsHeld, Committed!OneProcess, Insertable
<1>. QED
  BY <1>1, Committed!HeadInsertable, SameHeads, ProcOfAssumption, RowLocksAssumption,
     CheckpointAssumption, AbsentAssumption

(* A step of a writer keeps the database storable.                         *)
LEMMA WriteStores ==
  ASSUME LedgerStorable, Next
  PROVE  LedgerStorable'
<1>1. TypeOK' /\ CallsNamed'
  BY TypeNext DEF LedgerStorable
<1>2. ASSUME NEW t \in Threads, CommitEvent(t)
      PROVE  LedgerStorable'
  <2>1. PICK e : e = NewEvent(t)
    OBVIOUS
  <2>2. auditLog' = auditLog \cup {e} /\ Insertable(t) /\ e.chain = call[t].chain /\ e.seq = NextSequence(t)
    BY <1>2, <2>1 DEF CommitEvent, NewEvent
  <2>3. IsFiniteSet(auditLog')
    BY <2>2, FS_AddElement DEF LedgerStorable
  <2>4. \A q, r \in auditLog' : q.chain = r.chain /\ q.seq = r.seq => q = r
    BY <2>2 DEF LedgerStorable, Insertable
  <2>. QED
    BY <1>1, <2>3, <2>4 DEF LedgerStorable
<1>3. CASE UNCHANGED auditLog
  BY <1>1, <1>3 DEF LedgerStorable
<1>. QED
  BY <1>2, <1>3 DEF Next, ThreadStep, LogEvent, EnterLock, SelectHead, CommitConflict, ConnectionLost, Crash

(* While the heads are log_event's, every step of a writer is one that the *)
(* ledger of committed rows allows; a commit that damage has got in the    *)
(* way of is to it a call whose connection was lost.                       *)
LEMMA WriteCommits ==
  ASSUME HeadsAreCurrent, WriteInv, headsKept, Write
  PROVE  Committed!Next /\ appended \subseteq appended' /\ (auditLog = appended => auditLog' = appended')
<1>0. /\ Committed!LockInv /\ TypeOK /\ CallsNamed
      /\ appended' = appended \cup (auditLog' \ auditLog)
  BY DEF WriteInv, CommittedSound, LedgerStorable, Write
<1>1. ASSUME UNCHANGED auditLog
      PROVE  appended' = appended
  BY <1>0, <1>1
<1>2. ASSUME NEW t \in Threads, NEW c \in Chains, NEW u \in Uuids, LogEvent(t, c, u)
      PROVE  Committed!LogEvent(t, c, u)
  <2>1. call'[t].uuid = u
    BY <1>0, <1>2 DEF LogEvent, TypeOK
  <2>2. u # call[t].uuid /\ u # NoUuid
    BY <1>2, AbsentAssumption DEF LogEvent, UuidsInUse
  <2>3. u \notin {r.uuid : r \in appended}
    BY <2>1, <2>2 DEF Write
  <2>4. u \notin Committed!UuidsInUse
    BY <1>2, <2>3 DEF LogEvent, UuidsInUse, Committed!UuidsInUse
  <2>. QED
    BY <1>1, <1>2, <2>4 DEF LogEvent, Committed!LogEvent
<1>3. ASSUME NEW t \in Threads, EnterLock(t)
      PROVE  Committed!EnterLock(t)
  BY <1>1, <1>3 DEF EnterLock, Committed!EnterLock, LockFree, Committed!LockFree
<1>4. ASSUME NEW t \in Threads, SelectHead(t)
      PROVE  Committed!SelectHead(t)
  BY <1>1, <1>4 DEF SelectHead, Committed!SelectHead, LocksRow, Committed!LocksRow
<1>5. ASSUME NEW t \in Threads, CommitEvent(t)
      PROVE  Committed!CommitEvent(t) /\ (auditLog = appended => auditLog' = appended')
  <2>1. PICK e : e = NewEvent(t)
    OBVIOUS
  <2>2. /\ call[t].pc = "write" /\ Insertable(t) /\ auditLog' = auditLog \cup {e}
        /\ heads' = [heads EXCEPT ![e.chain] = HeadOf(e)]
        /\ checkpoints' = CheckpointsAfter(e)
        /\ call' = [call EXCEPT ![t] = Idle]
        /\ LocksReleasedBy(t)
    BY <1>5, <2>1 DEF CommitEvent
  <2>3. e.chain = call[t].chain /\ e.seq = NextSequence(t)
    BY <2>1 DEF NewEvent
  <2>4. e \notin auditLog /\ appended' = appended \cup {e}
    BY <1>0, <2>2, <2>3 DEF Insertable
  <2>5. e = Committed!NewEvent(t)
    BY <2>1 DEF NewEvent, Committed!NewEvent, NextSequence, Committed!NextSequence, PreviousHash,
       Committed!PreviousHash, EventHash, Committed!EventHash, GENESIS_HASH, Committed!GENESIS_HASH
  <2>6. Committed!Insertable(t)
    BY <1>0, <2>2, InsertableAlike
  <2>7. Committed!CommitEvent(t)
    BY <2>2, <2>4, <2>5, <2>6 DEF Committed!CommitEvent, HeadOf, Committed!HeadOf, CheckpointsAfter,
       Committed!CheckpointsAfter, CheckpointOf, Committed!CheckpointOf, Idle, Committed!Idle,
       LocksReleasedBy, Committed!LocksReleasedBy
  <2>. QED
    BY <2>2, <2>4, <2>7
<1>6. ASSUME NEW t \in Threads, CommitConflict(t) \/ ConnectionLost(t)
      PROVE  Committed!ConnectionLost(t)
  BY <1>1, <1>6 DEF CommitConflict, ConnectionLost, Committed!ConnectionLost, LocksReleasedBy,
     Committed!LocksReleasedBy, Idle, Committed!Idle
<1>7. ASSUME NEW p \in Procs, Crash(p)
      PROVE  Committed!Crash(p)
  BY <1>1, <1>7 DEF Crash, Committed!Crash, Idle, Committed!Idle
<1>8. Committed!Next
  BY <1>2, <1>3, <1>4, <1>5, <1>6, <1>7 DEF Write, Next, ThreadStep, Committed!Next, Committed!ThreadStep
<1>9. auditLog = appended => auditLog' = appended'
  <2>1. CASE UNCHANGED auditLog
    BY <1>1, <2>1
  <2>. QED
    BY <1>5, <2>1 DEF Write, Next, ThreadStep, LogEvent, EnterLock, SelectHead, CommitConflict,
       ConnectionLost, Crash
<1>. QED
  BY <1>0, <1>8, <1>9

(* A step of the ledger of committed rows, or none, keeps what is known of *)
(* it.                                                                     *)
LEMMA CommittedStep ==
  ASSUME Committed!LockInv, Committed!Next \/ UNCHANGED Committed!vars
  PROVE  Committed!LockInv' /\ Committed!ChainUnbroken' /\ (appended \subseteq AuditLog)'
<1>1. Committed!LockInv'
  BY Committed!LockNext, SameHeads, ProcOfAssumption, RowLocksAssumption, CheckpointAssumption, AbsentAssumption
<1>2. (Committed!LockInv => Committed!ChainUnbroken /\ appended \subseteq AuditLog)'
  BY SameHeads DEF Committed!LockInv, Committed!IInv, Committed!TypeOK
<1>. QED
  BY <1>1, <1>2

(* Where what was committed stands, it stays an unbroken chain.            *)
LEMMA CommittedStands ==
  ASSUME CommittedSound, UNCHANGED appended, ~headsKept', damages' # 0
  PROVE  CommittedSound'
<1>1. Committed!ChainUnbroken'
  <2>1. \A c : Committed!EventsOf(c)' = Committed!EventsOf(c)
    BY DEF Committed!EventsOf
  <2>. QED
    BY <2>1 DEF CommittedSound, Committed!ChainUnbroken
<1>. QED
  BY <1>1 DEF CommittedSound

LEMMA WriteNext ==
  ASSUME HeadsAreCurrent, WriteInv, Write
  PROVE  WriteInv' /\ appended \subseteq appended'
<1>1. LedgerStorable'
  BY WriteStores DEF WriteInv, Write
<1>2. CASE headsKept
  <2>1. Committed!Next /\ appended \subseteq appended' /\ (auditLog = appended => auditLog' = appended')
    BY <1>2, WriteCommits
  <2>2. Committed!LockInv' /\ Committed!ChainUnbroken' /\ (appended \subseteq AuditLog)'
    BY <1>2, <2>1, CommittedStep DEF WriteInv, CommittedSound
  <2>3. headsKept' = headsKept /\ damages' = damages
    BY DEF Write
  <2>. QED
    BY <1>1, <1>2, <2>1, <2>2, <2>3 DEF WriteInv, CommittedSound
<1>3. CASE ~headsKept
  <2>1. UNCHANGED <<appended, headsKept, damages>>
    BY <1>3 DEF Write
  <2>. QED
    BY <1>1, <1>3, <2>1, CommittedStands DEF WriteInv, CommittedSound
<1>. QED
  BY <1>2, <1>3

LEMMA DamageNext ==
  ASSUME WriteInv, damages \in Nat, Damage
  PROVE  WriteInv'
<1>1. PICK d \in DamagedLedgers(auditLog, heads) :
        Storable(d[1], d[2]) /\ auditLog' = d[1] /\ heads' = d[2]
  BY DEF Damage
<1>2. /\ damages' # 0 /\ headsKept' = (headsKept /\ heads' = heads)
      /\ UNCHANGED <<checkpoints, lock, rowLock, call, appended>>
  BY DEF Damage
<1>3. LedgerStorable'
  BY <1>1, <1>2 DEF WriteInv, LedgerStorable, TypeOK, CallsNamed, Storable
<1>4. CASE headsKept'
  <2>1. UNCHANGED Committed!vars
    BY <1>2, <1>4 DEF Committed!vars
  <2>2. Committed!LockInv' /\ Committed!ChainUnbroken' /\ (appended \subseteq AuditLog)'
    BY <1>2, <1>4, <2>1, CommittedStep DEF WriteInv, CommittedSound
  <2>. QED
    BY <1>2, <1>3, <1>4, <2>2 DEF WriteInv, CommittedSound
<1>5. CASE ~headsKept'
  BY <1>2, <1>3, <1>5, CommittedStands DEF WriteInv
<1>. QED
  BY <1>4, <1>5

LEMMA WriteStutter ==
  ASSUME WriteInv, UNCHANGED <<vars, damages, headsKept, appended>>
  PROVE  WriteInv'
<1>1. LedgerStorable'
  BY DEF WriteInv, LedgerStorable, TypeOK, CallsNamed, vars
<1>2. UNCHANGED Committed!vars
  BY DEF vars, Committed!vars
<1>3. headsKept => Committed!LockInv'
  BY <1>2, CommittedStep DEF WriteInv, CommittedSound
<1>4. Committed!ChainUnbroken'
  <2>1. \A c : Committed!EventsOf(c)' = Committed!EventsOf(c)
    BY DEF Committed!EventsOf
  <2>. QED
    BY <2>1 DEF WriteInv, CommittedSound, Committed!ChainUnbroken
<1>. QED
  BY <1>1, <1>3, <1>4 DEF WriteInv, CommittedSound, vars

-----------------------------------------------------------------------------
(* What a verifier has in hand between its two SELECTs: rows of one chain, *)
(* each with a number of its own, perhaps a digest noted from a committed  *)
(* row; and if nothing has been damaged yet, committed rows without a gap. *)
FoundSound(k) ==
  k.pc = "read" =>
    /\ k.chain \in Chains
    /\ Numbered(k.events)
    /\ k.events # {}
    /\ \A r \in k.events : r.chain = k.chain
    /\ k.expected # NoDigest => \E r \in appended : r.hash = k.expected
    /\ damages = 0 =>
         /\ k.events \subseteq CommittedOf(k.chain)
         /\ \A r \in k.events : \A i \in 1 .. r.seq : \E q \in k.events : q.seq = i

FoundWhole(k) ==
  (k.pc = "done" /\ k.verdict = "VALID" /\ k.events # {}) =>
    /\ k.head # NoHead /\ k.kept => k.whole
    /\ k.expected # NoDigest => k.asExpected

FoundExplained(k) ==
  (damages = 0 /\ k.pc = "done" /\ k.verdict # "VALID") =>
    \/ k.verdict = "TAIL_DELETION_DETECTED" /\ \A r \in k.events : r.seq < k.head.seq
    \/ k.verdict = "EXPECTED_HEAD_HASH_MISMATCH" /\ k.expected # NoDigest

Found(k) == FoundSound(k) /\ FoundWhole(k) /\ FoundExplained(k)

VerifierInv == WriteInv /\ VTypeOK /\ \A v \in Verifiers : Found(check[v])

LEMMA VerdictType ==
  ASSUME NEW events, NEW head, NEW expected
  PROVE  Verdict(events, head, expected) \in Verdicts
<1>1. \A s, i : EventVerdict(s, i) \in Verdicts
  BY DEF EventVerdict, Verdicts
<1>2. \A last : HeadVerdict(last, head, expected) \in Verdicts
  BY DEF HeadVerdict, Verdicts
<1>. QED
  BY <1>1, <1>2 DEF Verdict

LEMMA VerifierInit == VInit => VerifierInv
<1> SUFFICES ASSUME VInit
             PROVE  VerifierInv
  OBVIOUS
<1>1. Committed!Init
  BY DEF VInit, Init, Committed!Init, Idle, Committed!Idle
<1>2. Committed!LockInv
  BY <1>1, Committed!TypeInit, Committed!ChainInit, Committed!LockInit, SameHeads, ProcOfAssumption,
     RowLocksAssumption, CheckpointAssumption, AbsentAssumption DEF Committed!LockInv, Committed!IInv
<1>3. CommittedSound
  BY <1>2 DEF VInit, Init, CommittedSound, Committed!LockInv, Committed!IInv
<1>4. LedgerStorable
  BY TypeInit, FS_EmptySet DEF VInit, Init, LedgerStorable
<1>5. VTypeOK
  BY DEF VInit, VTypeOK, NoCheck, Verdicts, Findings
<1>6. \A v \in Verifiers : Found(check[v])
  BY DEF VInit, NoCheck, Found, FoundSound, FoundWhole, FoundExplained
<1>. QED
  BY <1>3, <1>4, <1>5, <1>6 DEF VerifierInv, WriteInv

(* Findings outlive later commits and later damage.                        *)
LEMMA FoundStands ==
  ASSUME NEW k, Found(k), appended \subseteq appended', damages' = 0 => damages = 0
  PROVE  Found(k)'
<1>1. \A c : CommittedOf(c) \subseteq CommittedOf(c)'
  BY DEF CommittedOf
<1>2. FoundSound(k)'
  BY <1>1 DEF Found, FoundSound
<1>. QED
  BY <1>2 DEF Found, FoundWhole, FoundExplained

LEMMA FindingsStand ==
  ASSUME VerifierInv, WriteInv', UNCHANGED check, appended \subseteq appended',
         damages' \in Nat, headsKept' \in BOOLEAN, damages' = 0 => damages = 0
  PROVE  VerifierInv'
<1>1. VTypeOK'
  BY DEF VerifierInv, VTypeOK, WriteInv, CommittedSound
<1>2. ASSUME NEW v \in Verifiers
      PROVE  Found(check[v])'
  <2>1. PICK k : k = check[v]
    OBVIOUS
  <2>2. Found(k)'
    BY <2>1, FoundStands DEF VerifierInv
  <2>3. check'[v] = k
    BY <2>1
  <2>. QED
    BY <2>2, <2>3 DEF Found, FoundSound, FoundWhole, FoundExplained
<1>. QED
  BY <1>1, <1>2 DEF VerifierInv

(* One verifier's finding changes to k.                                    *)
LEMMA FindingChanges ==
  ASSUME VerifierInv, NEW v \in Verifiers, NEW k \in Findings, Found(k),
         check' = [check EXCEPT ![v] = k], UNCHANGED <<vars, damages, headsKept, appended>>
  PROVE  VerifierInv'
<1>1. WriteInv'
  BY WriteStutter DEF VerifierInv
<1>2. VTypeOK'
  BY DEF VerifierInv, VTypeOK
<1>3. ASSUME NEW w \in Verifiers
      PROVE  Found(check[w])'
  <2>1. PICK x : x = check'[w]
    OBVIOUS
  <2>2. Found(x)
    BY <2>1 DEF VerifierInv, VTypeOK
  <2>3. Found(x)'
    BY <2>2, FoundStands
  <2>. QED
    BY <2>1, <2>3 DEF Found, FoundSound, FoundWhole, FoundExplained
<1>. QED
  BY <1>1, <1>2, <1>3 DEF VerifierInv

LEMMA ReadEventsStep ==
  ASSUME VerifierInv, NEW v \in Verifiers, NEW c \in Chains, NEW expected, ReadEvents(v, c, expected)
  PROVE  VerifierInv'
<1>0. PICK events : events = EventsOf(c)
  OBVIOUS
<1> DEFINE k == [NoCheck EXCEPT !.chain = c, !.expected = expected, !.events = events,
                                !.pc = IF events = {} THEN "done" ELSE "read",
                                !.verdict = IF events = {} THEN "VALID" ELSE "NONE"]
<1>1. check' = [check EXCEPT ![v] = k] /\ UNCHANGED <<vars, damages, headsKept, appended>>
  BY <1>0 DEF ReadEvents
<1>2. /\ LedgerStorable /\ TypeOK /\ appended \subseteq AuditLog /\ Committed!ChainUnbroken
      /\ damages = 0 => auditLog = appended
  BY DEF VerifierInv, WriteInv, CommittedSound, LedgerStorable
<1>3. events \subseteq AuditLog /\ Numbered(events) /\ \A r \in events : r.chain = c
  <2>1. events \subseteq auditLog /\ \A r \in events : r.chain = c
    BY <1>0 DEF EventsOf
  <2>. QED
    BY <1>2, <2>1, FS_Subset DEF LedgerStorable, TypeOK, Numbered
<1>4. /\ expected \in Digest \cup {NoDigest}
      /\ expected # NoDigest => \E r \in appended : r.hash = expected
  BY <1>2 DEF ReadEvents, AuditLog
<1>5. ASSUME damages = 0
      PROVE  events = CommittedOf(c) /\ \A r \in events : \A i \in 1 .. r.seq : \E q \in events : q.seq = i
  <2>1. events = CommittedOf(c)
    BY <1>0, <1>2, <1>5 DEF EventsOf, CommittedOf
  <2>. QED
    BY <1>2, <2>1, CommittedEvents
<1>6. k \in Findings
  BY <1>3, <1>4 DEF NoCheck, Verdicts, Findings
<1>7. /\ k.chain = c /\ k.events = events /\ k.expected = expected
      /\ k.pc = IF events = {} THEN "done" ELSE "read"
      /\ k.verdict = IF events = {} THEN "VALID" ELSE "NONE"
  BY DEF NoCheck
<1> HIDE DEF k
<1>8. Found(k)
  BY <1>3, <1>4, <1>5, <1>7 DEF Found, FoundSound, FoundWhole, FoundExplained
<1>. QED
  BY <1>1, <1>6, <1>8, FindingChanges

LEMMA ReadHeadStep ==
  ASSUME VerifierInv, NEW v \in Verifiers, ReadHead(v)
  PROVE  VerifierInv'
<1>0. PICK old, head : old = check[v] /\ head = heads[old.chain]
  OBVIOUS
<1> DEFINE verdict == Verdict(old.events, head, old.expected)
           whole == Contents(old.events) = Contents(CommittedOf(old.chain))
           asExpected == Contents(old.events) = Contents(CommittedUpTo(old.chain, old.expected))
           k == [old EXCEPT !.pc = "done", !.head = head, !.verdict = verdict, !.kept = headsKept,
                            !.whole = whole, !.asExpected = asExpected]
<1>1. old \in Findings /\ old.pc = "read" /\ Found(old)
  BY <1>0 DEF VerifierInv, VTypeOK, ReadHead
<1>2. check' = [check EXCEPT ![v] = k] /\ UNCHANGED <<vars, damages, headsKept, appended>>
  BY <1>0 DEF ReadHead
<1>3. /\ old.chain \in Chains /\ Numbered(old.events) /\ old.events # {}
      /\ \A r \in old.events : r.chain = old.chain
      /\ old.expected # NoDigest => \E r \in appended : r.hash = old.expected
      /\ damages = 0 => /\ old.events \subseteq CommittedOf(old.chain)
                        /\ \A r \in old.events : \A i \in 1 .. r.seq : \E q \in old.events : q.seq = i
  BY <1>1 DEF Found, FoundSound
<1>4. /\ head \in AuditChainHead \cup {NoHead} /\ headsKept \in BOOLEAN
      /\ appended \subseteq AuditLog /\ Committed!ChainUnbroken
      /\ headsKept => Committed!IInv
      /\ damages = 0 => headsKept
  BY <1>0, <1>3 DEF VerifierInv, VTypeOK, WriteInv, LedgerStorable, TypeOK, CommittedSound, Committed!LockInv
<1>5. verdict \in Verdicts
  BY VerdictType
<1>6. verdict = "VALID" /\ head # NoHead /\ headsKept => whole
  <2>1. SUFFICES ASSUME Verdict(old.events, heads[old.chain], old.expected) = "VALID",
                        heads[old.chain] # NoHead, Committed!IInv
                 PROVE  whole
    BY <1>0, <1>4
  <2>. QED
    BY <1>3, <2>1, ValidIsWhole
<1>7. verdict = "VALID" /\ old.expected # NoDigest => asExpected
  BY <1>3, <1>4, ValidIsExpected
<1>8. ASSUME damages = 0, verdict # "VALID"
      PROVE  \/ verdict = "TAIL_DELETION_DETECTED" /\ \A r \in old.events : r.seq < head.seq
             \/ verdict = "EXPECTED_HEAD_HASH_MISMATCH" /\ old.expected # NoDigest
  BY <1>0, <1>3, <1>4, <1>8, UndamagedIsClean
<1>9. whole \in BOOLEAN /\ asExpected \in BOOLEAN
  OBVIOUS
<1> HIDE DEF verdict, whole, asExpected
<1>10. k \in Findings
  BY <1>1, <1>4, <1>5, <1>9 DEF Findings
<1>11. /\ k.pc = "done" /\ k.events = old.events /\ k.expected = old.expected /\ k.verdict = verdict
       /\ k.head = head /\ k.kept = headsKept /\ k.whole = whole /\ k.asExpected = asExpected
  BY <1>1 DEF Findings
<1> HIDE DEF k
<1>12. Found(k)
  BY <1>6, <1>7, <1>8, <1>11 DEF Found, FoundSound, FoundWhole, FoundExplained
<1>. QED
  BY <1>2, <1>10, <1>12, FindingChanges

LEMMA VerifierNext ==
  ASSUME HeadsAreCurrent, VerifierInv, [VNext]_allVars
  PROVE  VerifierInv'
<1>1. CASE Write
  <2>1. WriteInv' /\ appended \subseteq appended'
    BY <1>1, WriteNext DEF VerifierInv
  <2>2. UNCHANGED <<check, damages, headsKept>> /\ damages \in Nat /\ headsKept \in BOOLEAN
    BY <1>1 DEF Write, VerifierInv, VTypeOK
  <2>. QED
    BY <2>1, <2>2, FindingsStand
<1>2. CASE Damage
  <2>1. damages \in Nat /\ headsKept \in BOOLEAN
    BY DEF VerifierInv, VTypeOK
  <2>2. WriteInv'
    BY <1>2, <2>1, DamageNext DEF VerifierInv
  <2>3. UNCHANGED <<check, appended>> /\ damages' = damages + 1 /\ headsKept' = (headsKept /\ heads' = heads)
    BY <1>2 DEF Damage
  <2>. QED
    BY <2>1, <2>2, <2>3, FindingsStand
<1>3. ASSUME NEW v \in Verifiers, Return(v)
      PROVE  VerifierInv'
  <2>1. check' = [check EXCEPT ![v] = NoCheck] /\ UNCHANGED <<vars, damages, headsKept, appended>>
    BY <1>3 DEF Return
  <2>2. NoCheck \in Findings /\ Found(NoCheck)
    BY DEF NoCheck, Findings, Verdicts, Found, FoundSound, FoundWhole, FoundExplained
  <2>. QED
    BY <2>1, <2>2, FindingChanges
<1>4. CASE UNCHANGED allVars
  <2>1. UNCHANGED <<vars, check, damages, headsKept, appended>>
    BY <1>4 DEF allVars, verifierVars
  <2>2. WriteInv' /\ damages \in Nat /\ headsKept \in BOOLEAN
    BY <2>1, WriteStutter DEF VerifierInv, VTypeOK
  <2>. QED
    BY <2>1, <2>2, FindingsStand
<1>. QED
  BY <1>1, <1>2, <1>3, <1>4, ReadEventsStep, ReadHeadStep DEF VNext

LEMMA VerifierCorrect ==
  ASSUME HeadsAreCurrent
  PROVE  VSpec => []VerifierInv
<1>1. VInit => VerifierInv
  BY VerifierInit
<1>2. VerifierInv /\ [VNext]_allVars => VerifierInv'
  BY VerifierNext
<1>. QED
  BY <1>1, <1>2, PTL DEF VSpec

(* DETECTION, of a chain of any length, whatever has been done to rows and *)
(* heads, how often, and between the two SELECTs of verify_chain: VALID is *)
(* said only of the events log_event had committed, as far as their digests*)
(* go, up to the head row log_event wrote or to the digest the caller      *)
(* expects.  It needs what the code's locks are for: row locks, or one     *)
(* process.                                                                *)
THEOREM ValidAlwaysMeansWhole ==
  ASSUME RowLocks \/ \A s, t \in Threads : ProcOf[s] = ProcOf[t]
  PROVE  VSpec => []ValidMeansWhole
<1>1. VSpec => []VerifierInv
  BY VerifierCorrect DEF HeadsAreCurrent, OneProcess
<1>2. VerifierInv => ValidMeansWhole
  BY DEF VerifierInv, Found, FoundWhole, ValidMeansWhole
<1>. QED
  BY <1>1, <1>2, PTL

(* NO FALSE ALARM: of a ledger nobody has touched verify_chain reports     *)
(* only a head that moved on while it read, or a caller who expected       *)
(* another digest.                                                         *)
THEOREM ComplaintsAlwaysExplained ==
  ASSUME RowLocks \/ \A s, t \in Threads : ProcOf[s] = ProcOf[t]
  PROVE  VSpec => []ComplaintsExplained
<1>1. VSpec => []VerifierInv
  BY VerifierCorrect DEF HeadsAreCurrent, OneProcess
<1>2. VerifierInv => ComplaintsExplained
  BY DEF VerifierInv, Found, FoundExplained, ComplaintsExplained
<1>. QED
  BY <1>1, <1>2, PTL

(* Where one process serves the database, log_event's constraints turn an  *)
(* event away only after damage, also beside verifiers.                    *)
THEOREM NeverRefusedUndamaged ==
  ASSUME \A s, t \in Threads : ProcOf[s] = ProcOf[t]
  PROVE  VSpec => []RefusedOnlyAfterDamage
<1>1. VSpec => []VerifierInv
  BY VerifierCorrect DEF HeadsAreCurrent, OneProcess
<1>2. ASSUME VerifierInv, damages = 0, NEW t \in Threads, call[t].pc = "write"
      PROVE  Insertable(t)
  <2>1. Committed!LockInv /\ auditLog = appended
    BY <1>2 DEF VerifierInv, WriteInv, CommittedSound
  <2>2. heads[call[t].chain] = call[t].head
    BY <1>2, <2>1 DEF Committed!LockInv, Committed!HeadsHeld, Committed!OneProcess
  <2>3. Committed!Insertable(t)
    BY <1>2, <2>1, <2>2, Committed!HeadInsertable, SameHeads, ProcOfAssumption, RowLocksAssumption,
       CheckpointAssumption, AbsentAssumption
  <2>. QED
    BY <2>1, <2>3 DEF Insertable, Committed!Insertable, NextSequence, Committed!NextSequence
<1>3. VerifierInv => RefusedOnlyAfterDamage
  BY <1>2 DEF RefusedOnlyAfterDamage, AllocationNeverRefused
<1>. QED
  BY <1>1, <1>3, PTL
=============================================================================
