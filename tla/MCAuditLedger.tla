---------------------------- MODULE MCAuditLedger ----------------------------
(* Small instances of the audit ledger: one tenant chain and the global    *)
(* one, threads of two server processes.                                   *)
EXTENDS AuditLedger

CONSTANTS t1, t2, t3, p1, p2

TwoProcesses == [t \in {t1, t2, t3} |-> IF t = t3 THEN p2 ELSE p1]
=============================================================================
