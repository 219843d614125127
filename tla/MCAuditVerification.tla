------------------------- MODULE MCAuditVerification -------------------------
(* Two chains, two writer threads of one process, one verifier, and damage *)
(* of every kind once.                                                     *)
EXTENDS AuditVerification, TLC

CONSTANTS t1, t2, p1

OneProcess == [t \in {t1, t2} |-> p1]

UuidSymmetry == Permutations(Uuids)

-----------------------------------------------------------------------------
Sealed(r) == [r EXCEPT !.hash = EventHash(r.chain, r.seq, r.uuid, r.prev)]

(* One column of a row changed, and the same with its digest recomputed.   *)
Altered(rows, r) ==
  LET digests == {q.hash : q \in rows} \cup {GENESIS_HASH}
      numbers == {q.seq : q \in rows} \cup {Cardinality(rows) + 1}
      changed == {[r EXCEPT !.uuid = u] : u \in Uuids} \cup {[r EXCEPT !.rest = u] : u \in Uuids}
                   \cup {[r EXCEPT !.prev = d] : d \in digests}
                   \cup {[r EXCEPT !.seq = n] : n \in numbers}
                   \cup {[r EXCEPT !.chain = c] : c \in Chains}
  IN  changed \cup {Sealed(q) : q \in changed} \cup {[r EXCEPT !.hash = d] : d \in digests}

(* A row that log_event never wrote, put behind r or at a chain's start.   *)
Forged(rows) ==
  LET behind(r, u) == [chain |-> r.chain, seq |-> r.seq + 1, uuid |-> u, rest |-> u,
                       prev |-> r.hash, hash |-> << >>]
      first(c, u)  == [chain |-> c, seq |-> 1, uuid |-> u, rest |-> u,
                       prev |-> GENESIS_HASH, hash |-> << >>]
      unused       == Uuids \ {r.uuid : r \in rows}
  IN  {Sealed(behind(r, u)) : r \in rows, u \in unused} \cup {Sealed(first(c, u)) : c \in Chains, u \in unused}

(* The rows of r's chain from r on written anew, each with a digest that   *)
(* fits: nothing in the rows themselves shows it.                          *)
Rewritten(rows, r, u) ==
  LET later == {q \in rows : q.chain = r.chain /\ q.seq >= r.seq}
      At(n) == CHOOSE q \in later : q.seq = n
      anew[n \in {q.seq : q \in later}] ==
        IF n = r.seq
          THEN Sealed([r EXCEPT !.uuid = u])
          ELSE Sealed([At(n) EXCEPT !.prev = IF n - 1 \in {q.seq : q \in later}
                                               THEN anew[n - 1].hash ELSE @])
  IN  (rows \ later) \cup {anew[q.seq] : q \in later}

Exchanged(rows, q, r) ==
  (rows \ {q, r}) \cup {[q EXCEPT !.seq = r.seq], [r EXCEPT !.seq = q.seq]}

RowsOf(rows, c) == {r \in rows : r.chain = c}

MCDamagedLedgers(rows, hs) ==
  LET changed == {rows \ lost : lost \in SUBSET rows}
                   \cup UNION {{(rows \ {r}) \cup {q} : q \in Altered(rows, r)} : r \in rows}
                   \cup {rows \cup {q} : q \in Forged(rows)}
                   \cup {Rewritten(rows, r, u) : r \in rows, u \in Uuids}
                   \cup {Exchanged(rows, q, r) : q \in rows, r \in rows}
      headless == {[hs EXCEPT ![c] = NoHead] : c \in Chains}
      cut == {<<{q \in rows : q.chain = r.chain => q.seq <= r.seq}, [hs EXCEPT ![r.chain] = h]>> :
                r \in rows, h \in {NoHead} \cup {HeadOf(q) : q \in rows}}
      rewritten == {<<Rewritten(rows, r, u), [hs EXCEPT ![r.chain] = NoHead]>> : r \in rows, u \in Uuids}
  IN  ({<<x, hs>> : x \in changed} \cup {<<rows, h>> : h \in headless} \cup cut \cup rewritten)
        \ {<<rows, hs>>}
=============================================================================
