---------------------------- MODULE AppendOnlyLog ----------------------------
(***************************************************************************)
(* What the audit ledger promises, with no process, lock or hash in sight: *)
(* every chain is a sequence of distinct events, and the only thing that   *)
(* ever happens to it is that one event is put at its end.                 *)
(***************************************************************************)
EXTENDS Naturals, Sequences

CONSTANTS
  Chains,   \* chain identifiers: SYSTEM_GLOBAL and one TENANT_{id} per tenant
  Uuids     \* event uuids; an event is known by its uuid

VARIABLE log   \* log[c]: the events of chain c, oldest first

Recorded == UNION {{log[c][i] : i \in DOMAIN log[c]} : c \in Chains}

Init == log = [c \in Chains |-> << >>]

AppendTo(c, u) ==
  /\ u \notin Recorded
  /\ log' = [log EXCEPT ![c] = Append(@, u)]

Next == \E c \in Chains, u \in Uuids : AppendTo(c, u)

Spec == Init /\ [][Next]_log

=============================================================================
