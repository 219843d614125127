----------------------------- MODULE Migrations -----------------------------
(***************************************************************************)
(* The Alembic migrations: a chain of revisions, each a list of operations *)
(* to upgrade by and one to downgrade by, run by `alembic upgrade` and     *)
(* `alembic downgrade`.  On PostgreSQL a command is one transaction.  On   *)
(* SQLite a revision's mark commits, tables are created and dropped at     *)
(* once, except after a table was altered, which copies its rows and so    *)
(* opens a transaction; and nothing looks at the foreign keys.  The copy a *)
(* batch leaves behind when it dies is left out.                           *)
(***************************************************************************)
EXTENDS Naturals, Sequences, FiniteSets

CONSTANTS
  Upgrade,  \* Upgrade[r]: the operations of the r-th revision
  Targets   \* revisions that commands are given

HEAD == Len(Upgrade)

-----------------------------------------------------------------------------
(* What the first r revisions and the first i operations of the next do.   *)
OpsUpTo(r, i) ==
  (UNION {{Upgrade[q][j] : j \in 1..Len(Upgrade[q])} : q \in 1..r}) \cup {Upgrade[r + 1][j] : j \in 1..i}

Tables(ops) == {op.table : op \in ops}
On(table, ops) == {op \in ops : op.table = table}

(* An operation creates a table there is not, or alters one there is by    *)
(* columns and references it has not, and refers to tables there are.      *)
Extends(op, ops) ==
  /\ op.do = "create" => op.table \notin Tables(ops) /\ op.cols = {}
  /\ op.do = "alter" => op.table \in Tables(ops)
  /\ op.refs \subseteq Tables(ops) \cup {op.table}
  /\ \A o \in On(op.table, ops) : op.cols \cap o.cols = {} /\ op.refs \cap o.refs = {}

Operations(do) == [do : do, table : STRING, refs : SUBSET STRING, cols : SUBSET STRING]

(* The revisions are written one upon the other.                           *)
ASSUME RevisionsAssumption ==
  /\ Upgrade \in Seq(Seq(Operations({"create", "alter"}))) /\ Targets \subseteq 0..HEAD
  /\ \A r \in 1..HEAD : \A i \in 1..Len(Upgrade[r]) : Extends(Upgrade[r][i], OpsUpTo(r - 1, i - 1))

(* Every downgrade undoes its revision's operations from the last to the   *)
(* first.                                                                  *)
Undo(op) == [op EXCEPT !.do = IF op.do = "create" THEN "drop" ELSE "unalter"]
DowngradeForward == [r \in 1..HEAD |-> [i \in 1..Len(Upgrade[r]) |-> Undo(Upgrade[r][i])]]
Downgrade == [r \in 1..HEAD |-> [i \in 1..Len(Upgrade[r]) |-> Undo(Upgrade[r][Len(Upgrade[r]) + 1 - i])]]

-----------------------------------------------------------------------------
VARIABLES
  backend,      \* "postgresql" or "sqlite"
  db,           \* db[t]: the table t, for every table there is
  revision,     \* the row of alembic_version, 0 for the base
  command,      \* the command under way: what is left of its current revision
  durable,      \* what is committed: a rollback goes back to it
  interrupted   \* history: a command has stopped half way on SQLite

schemaVars == <<backend, db, revision, command, durable, interrupted>>

Schema(d) == DOMAIN d \subseteq STRING /\ d \in [DOMAIN d -> [refs : SUBSET STRING, cols : SUBSET STRING]]

SchemaTypeOK ==
  /\ backend \in {"postgresql", "sqlite"} /\ interrupted \in BOOLEAN
  /\ Schema(db) /\ revision \in 0..HEAD
  /\ durable = [db |-> durable.db, revision |-> durable.revision] /\ Schema(durable.db) /\ durable.revision \in 0..HEAD
  /\ command \in [target : 0..HEAD, up : BOOLEAN, running : BOOLEAN,
                   ops : Seq(Operations({"create", "alter", "drop", "unalter"}))]

Exists(op) == op.table \in DOMAIN db
RefersTo(table) == {t \in DOMAIN db \ {table} : table \in db[t].refs}

(* What the database refuses.                                              *)
Refused(op) ==
  \/ op.do = "create" /\ Exists(op)
  \/ op.do # "create" /\ ~Exists(op)
  \/ op.do = "alter" /\ op.cols \cap db[op.table].cols # {}
  \/ op.do = "unalter" /\ ~(op.cols \subseteq db[op.table].cols)
  \/ /\ backend = "postgresql"
     /\ \/ op.do \in {"create", "alter"} /\ ~(op.refs \subseteq DOMAIN db \cup {op.table})
        \/ op.do = "drop" /\ RefersTo(op.table) # {}

Altered(op) ==
  LET t == db[op.table] IN
  IF op.do = "alter" THEN [refs |-> t.refs \cup op.refs, cols |-> t.cols \cup op.cols]
  ELSE [refs |-> t.refs \ op.refs, cols |-> t.cols \ op.cols]

Applied(op) ==
  CASE op.do = "create" -> [t \in DOMAIN db \cup {op.table} |->
                              IF t = op.table THEN [refs |-> op.refs, cols |-> {}] ELSE db[t]]
    [] op.do = "drop" -> [t \in DOMAIN db \ {op.table} |-> db[t]]
    [] OTHER -> [db EXCEPT ![op.table] = Altered(op)]

-----------------------------------------------------------------------------
Idle == [target |-> 0, up |-> TRUE, ops |-> <<>>, running |-> FALSE]

SchemaInit ==
  /\ backend \in {"postgresql", "sqlite"}
  /\ db = <<>> /\ revision = 0 /\ command = Idle /\ durable = [db |-> db, revision |-> 0] /\ interrupted = FALSE

(* The operations of the next revision on the way to the target.           *)
NextOps(target, at) ==
  IF target > at THEN Upgrade[at + 1] ELSE IF target < at THEN Downgrade[at] ELSE <<>>

Start(target) ==
  /\ ~command.running /\ target # revision
  /\ command' = [target |-> target, up |-> target > revision, ops |-> NextOps(target, revision), running |-> TRUE]
  /\ UNCHANGED <<backend, db, revision, durable, interrupted>>

(* Outside a transaction SQLite commits what creates or drops a table.     *)
CommittedAtOnce(op) ==
  backend = "sqlite" /\ op.do \in {"create", "drop"} /\ durable = [db |-> db, revision |-> revision]

Operate ==
  LET op == Head(command.ops) IN
  /\ command.running /\ command.ops # <<>> /\ ~Refused(op)
  /\ db' = Applied(op)
  /\ durable' = IF CommittedAtOnce(op) THEN [db |-> db', revision |-> revision] ELSE durable
  /\ command' = [command EXCEPT !.ops = Tail(@)]
  /\ UNCHANGED <<backend, revision, interrupted>>

(* alembic_version is marked after each revision; the command ends with    *)
(* the last one.                                                           *)
Mark ==
  LET r == IF command.up THEN revision + 1 ELSE revision - 1 IN
  /\ command.running /\ command.ops = <<>>
  /\ revision' = r
  /\ command' = IF r = command.target THEN Idle ELSE [command EXCEPT !.ops = NextOps(command.target, r)]
  /\ durable' = IF r = command.target \/ backend = "sqlite" THEN [db |-> db, revision |-> r] ELSE durable
  /\ UNCHANGED <<backend, db, interrupted>>

(* An operation is refused, or the process or the connection dies.  On     *)
(* SQLite that can leave a revision half done.                             *)
StopNoRollback ==
  /\ command.running
  /\ command' = Idle
  /\ UNCHANGED <<backend, db, revision, durable, interrupted>>
Stop ==
  /\ command.running
  /\ db' = durable.db /\ revision' = durable.revision
  /\ interrupted' = (interrupted \/ (backend = "sqlite" /\ command.ops # NextOps(command.target, revision)))
  /\ command' = Idle
  /\ UNCHANGED <<backend, durable>>

SchemaNext == (\E target \in Targets : Start(target)) \/ Operate \/ Mark \/ Stop

SchemaSpec == SchemaInit /\ [][SchemaNext]_schemaVars

-----------------------------------------------------------------------------
(* What a revision's tables are, however the database came to it.          *)
Refs(ops) == UNION {op.refs : op \in ops}
Cols(ops) == UNION {op.cols : op \in ops}
SchemaOf(ops) == [t \in Tables(ops) |-> [refs |-> Refs(On(t, ops)), cols |-> Cols(On(t, ops))]]
SchemaAt(r) == SchemaOf(OpsUpTo(r, 0))

(* Between commands the tables are those of the revision that              *)
(* alembic_version names, and no operation is refused on the way, whatever *)
(* commands were run or died before: unless one died within a revision on  *)
(* SQLite.                                                                 *)
SchemaMatchesRevision ==
  ~interrupted =>
    /\ ~command.running => db = SchemaAt(revision)
    /\ command.running /\ command.ops # <<>> => ~Refused(Head(command.ops))

(* The acceptance test of the PostgreSQL schema: all domain tables, those  *)
(* of the audit ledger and the verification tokens included.               *)
AcceptedSchema ==
  ~command.running /\ revision = HEAD /\ ~interrupted =>
    /\ {"user_sessions", "verification_tokens", "organizations", "payroll_runs", "tax_declarations",
        "statutory_compliance_events"} \subseteq DOMAIN db
    /\ Cardinality(DOMAIN db) = 52
=============================================================================
