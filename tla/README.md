# Formal verification of SmartSalary India

This directory holds TLA+ models of the server side of SmartSalary India
(`src/backend/app`), configurations that model-check them with TLC, and proofs
checked by TLAPS. SmartSalary is a FastAPI application over PostgreSQL: salary
and tax calculations, payroll runs, declarations and their approval, accounts
with one-time codes and refresh sessions, and a hash-chained audit ledger under
all of it. `PROJECT.json` maps every definition to the source lines it stands
for, and lists the runs, the mutants that show each property can fail, the
hazards and the theorems.

Paths below are relative to `src/backend/app` unless they begin with `src/`.

## 1. The system

**Execution.** Endpoints are synchronous functions: FastAPI runs each request in
a thread of its own, with a database session of its own (`core/database.py`,
`get_db`). Sessions neither autocommit nor autoflush, PostgreSQL runs at READ
COMMITTED, and nearly every repository method commits. So the unit of
interleaving is the *transaction*, one request is often several of them, and
between two of them anything may run, or the request may die. An ORM object once
loaded is *not* refreshed by a later SELECT of the same session until a commit
expires it; several of the results below turn on that. Without a reachable
PostgreSQL the application falls back to one in-memory SQLite connection, where
`FOR UPDATE` is a no-op.

**Components**

| component | code | state | operations |
| --- | --- | --- | --- |
| Audit ledger | `services/audit_service.py`, `models/audit.py` | `audit_logs`, `audit_chain_heads`, `audit_checkpoints`, a process-wide `RLock` | `log_event`, `get_audit_trail` |
| Audit verification | `services/audit_service.py` | none of its own | `verify_chain` |
| Refresh sessions | `repositories/session_repository.py`, `api/v1/endpoints/auth.py`, `core/auth_middleware.py` | `user_sessions`, `users.hashed_password`, JWTs held by clients | login, refresh, logout, logout-all, change and reset of passwords, revocation of one session |
| One-time codes | `services/otp_service.py`, `api/v1/endpoints/auth.py` | `verification_tokens`, `users.is_active` | register, resend, forgot, verify for activation, verify for reset |
| Payroll run | `services/payroll_service.py` | `payroll_periods`, `payroll_runs`, `payroll_run_items` | `calculate_payroll_run` |
| Compensation versions | `services/compensation_service.py` | `salary_records` | `create_compensation_version`, the engine's choice of a record |
| Calculation persistence | `services/calculation_service.py`, `calculation_save_service.py`, `snapshot_service.py`, `calculation_context_service.py`, `repositories/calculation_repository.py` | `calculation_runs`, `calculation_snapshots`, lines and traces | calculate, save and supersede, delete, list, resolve |
| Tax declarations | `services/tax_declaration_service.py`, `api/v1/endpoints/enterprise.py`, `employee_portal.py` | declarations and their items | create or replace items, move through the stages, submit in the portal, approve, reject, send back |
| Regulatory pipeline | `core/compliance/*` | class attributes of one process: rules, events, keys, candidates, documents seen | ingest, verify, approve, supersede, look up by date |
| Tax, PF and PT engine | `seeds/seed_reference_data.py`, `engine/tax`, `engine/pf`, `engine/professional_tax`, `engine/common`, `engine/oracle`, `engine/normalizer` | none | pure functions of decimals |
| Payslip documents | `services/payslip_service.py`, `repositories/payslip_repository.py`, `engine/payslip/*` | payslip documents, extractions, validations | upload, extract, validate, correct |
| Rate limiting | `core/rate_limiter.py`, `core/redis_rate_limiter.py` | timestamps per key, or Redis sorted sets | check and count |
| Database migrations | `src/backend/alembic` | the schema, `alembic_version` | upgrade, downgrade |
| Jobs, tenants, e-mail, assistant, pages | `core/job_queue.py`, `core/tenant_context.py`, `services/email_service.py`, `engine/rag/*`, `presentation/*`, `templates/*` | little or none | see section 7 |

**Interactions.** Every other component calls `log_event`, usually with the
session it works in, so that the audit event's commit is also theirs. The one-time
codes activate the accounts that may log in, and earn the reset tokens that may
change a password; a change of password sweeps the sessions. The payroll run asks
the compensation records for each employee's pay and the engine for the amounts,
and lets calculation persistence save them, which commits the session the run is
working in. Declarations feed the calculation.

**What is hard, and what makes each part correct**

* *Audit ledger*: writers on several threads and several processes, a lock that
  only covers one process, a row lock on a row that does not exist yet, crashes
  between head, event and checkpoint. Correct means: numbers 1, 2, 3 ... and an
  unbroken chain of digests for each chain; the head row always names the newest
  event; checkpoints at exactly every n-th number; a call always returns.
* *Verification*: reads in two statements beside running writers. Correct means:
  VALID says that no event is missing and none altered in what its digest covers; a
  complaint about an undamaged chain has a harmless explanation.
* *Sessions*: rotation, sweep, login and password change interleave, and each is
  several transactions. Correct means: a replaced password leaves no session
  behind; rotation leaves a trail; a dead session's tokens open nothing.
* *One-time codes*: parallel guesses, parallel issuing, expiry, requests that
  die. Correct means: no guess is uncounted, one pending code per address and
  purpose, purposes never confused, a dead code stays dead.
* *Payroll run*: an apparent transaction that is really one per employee, run by
  overlapping jobs. Correct means: the totals are those of the items, all items
  from one calculation, nobody paid twice, a locked run final.
* *Compensation*: check-then-insert with no constraint. Correct means: no day in
  two records; payroll pays the record in force.
* *Calculation persistence*: saves supersede the rows they saw, deletions mark a
  row they loaded, and the two overlap. Correct means: two CURRENT calculations of
  an employee only if their saves overlapped; a deleted calculation stays deleted.
* *Declarations*: four ways to write one row, each from what it loaded, and only
  the columns that differ. Correct means: totals and verification accounted for by
  the items and the person; a frozen declaration keeps its content.
* *Regulatory pipeline*: three different people behind every change; a repeated
  call without a second effect; no domain left without a rule in force.
* *Engine*: slabs, rebate, surcharge, marginal relief, cess and rounding meet at
  the same incomes. Correct means: the figures of the independent oracle; no raise
  that costs more than it brings; no salary between two slabs.
* *Payslips*: tolerances that tell rounding from a wrong figure.
* *Rate limiting*: checking and counting are several steps. Correct means: never
  more than the limit in a window; a client told to wait is let in afterwards.
* *Migrations*: commands die half way. Correct means: the schema is that of the
  revision on record, and the one the application needs.

`PROJECT.json` lists the hazards line by line, with the properties that cover
them or the reason none does.

## 2. Modules

| module | stands for |
| --- | --- |
| `AppendOnlyLog` | abstract specification: what an audit chain promises, a sequence that only grows at its end |
| `AuditLedger` | `log_event` by threads of several processes, with locks, constraints and crashes |
| `AuditLedgerProofs` | its theorems: types, chain, checkpoints, locks, and that it implements `AppendOnlyLog` |
| `MCAuditLedger` | which thread belongs to which process, for TLC |
| `AuditVerification` | `verify_chain` composed with the writers of `AuditLedger`, over tables that may be damaged |
| `VerificationProofs` | its theorems, on top of `AuditLedgerProofs` |
| `MCAuditVerification` | its instance, with the kinds of damage that TLC tries |
| `AuthSessions` | the sessions and every request that touches them |
| `SessionProofs` | its theorems |
| `MCAuthSessions` | symmetry |
| `OtpVerification` | the one-time codes and the requests that issue and check them |
| `OtpProofs` | its theorems |
| `PayrollRun` | `calculate_payroll_run` by concurrent jobs |
| `PayrollInvariants` | the inductive invariants of payroll runs, in four layers |
| `PayrollProofs` | its theorems |
| `MCPayrollRun` | symmetry |
| `Compensation` | admission of compensation records and the choice for a pay date |
| `TaxDeclaration` | one declaration under service, portal and approval endpoint |
| `CalculationStore` | the stored calculations of a year |
| `RecordProofs` | theorems about the stored calculations, the declarations, the registry and the candidates |
| `StatutoryCatalogue` | the tables shipped in code: sources, assertions, documents, rules, states |
| `ImpactAnalysis` | how a regulatory change is classified, used by the next two |
| `RuleSupersession` | the rule registry under supersessions, over `StatutoryCatalogue` |
| `RuleCandidates` | documents found, candidates, verification, approval |
| `StatutoryRates` | the rates the database is seeded with, and their lookup |
| `TaxEngine` | normalizer, income tax, provident fund, professional tax, net pay |
| `TaxOracle` | the independent oracle's closed formulas |
| `SalaryScenarios` | a salary calculated, and again with a raise; engine against oracle |
| `SalaryProofs` | its theorems, and the lemmas about the engine and the oracle they rest on |
| `PayslipReconciliation` | a payslip read and compared with payroll and projection |
| `ServiceProofs` | theorems about compensation records, payslips, the rate limiters and the migrations |
| `RateLimiter` | the process-local and the Redis sliding window |
| `Revisions` | the Alembic revisions, each the list of its operations |
| `Migrations` | `alembic upgrade` and `downgrade` over any such list |
| `MCServices` | small instances of the modules from `Compensation` on |

### Audit ledger

`call[t]` is the call thread `t` is executing: it *enters* `_global_lock`,
*selects* the head row (`FOR UPDATE`, waiting while another transaction holds
it), and then *commits* event, head and checkpoint together, or is refused by
`uq_audit_chain_sequence` or the head's primary key. `RowLocks` says whether the
database has row locks. `Crash(p)` ends all calls of a process and rolls its
transactions back; `ConnectionLost(t)` does so for one call. A digest is collision
free, so it is represented by what it was computed over: chain, number, predecessor
and one uuid, which stands for the other hashed fields (actor, action, time, request).
`rest` stands for the columns that `canonical_event_dict` leaves out (`payload_before`,
`payload_after`, `details`, `entity_id`, `entity_name`, `user_id`, `ip_address`,
`user_agent`): they are stored with the event and are in no digest. All callers use
`auto_commit=True`, so the commit belongs to the call. The in-process exception path
inside `log_event` leaves the transaction to `get_db`, which rolls it back, as
`CommitConflict` and `ConnectionLost` do.

`AuditVerification` adds `verify_chain`'s two SELECTs as two steps, and a `Damage`
action that stands for what may be done to the tables behind the application's back. The
constant `DamagedLedgers` says what that is; the proofs leave it open, so that rows
and heads become anything the columns and `uq_audit_chain_sequence` admit (`Storable`), any
number of times up to `MaxDamage`, except that a head under a writer's row lock cannot be
written. TLC tries, in `MCAuditVerification`: rows lost; a row altered in any column,
hashed or not, its number and chain included, with and without its digest computed anew; a
row forged; all rows from some row on rewritten with fitting digests; two rows
exchanged; a head lost; a tail cut off and the head set back to fit or removed. A caller of
`verify_chain` may pass the digest of any event it has noted (`expected_head_hash`).
`appended` remembers what `log_event` committed while the heads were its own, `headsKept`
whether they still are. The events are put in order by
their place among the rows read, which is `ORDER BY sequence_number` for rows
whose numbers differ, as the unique constraint sees to.

### Refresh sessions

Each action is one transaction of one request. A session's row id stands for its
`jti`; passwords are numbered. `delivered` are the sessions whose tokens reached
a client: a session committed by a request that dies is never delivered.
`rotate_session` is modelled as it behaves when called by `POST /refresh`: the
row it re-selects is the object already loaded, so it works with what it read
before (section 5). `vouched`, `parent`, `overtaken`, `survivors` and `cutShort`
are history variables: nothing in a guard reads them. A token always names its session:
`get_current_user` would let a token without `session_jti` through (`auth_middleware.py:143`),
but all three calls of `create_access_token` (`auth.py:501, 597, 654`) pass one.

### One-time codes

`IssueSelect`/`IssueLock` are the two halves of `SELECT ... FOR UPDATE` at READ
COMMITTED: the snapshot, then the wait for its rows and the second look at those
that changed. `IssueCommit` cancels them and inserts the new code;
`IssueRefused` is the 429 of the cooldown or the `IntegrityError` of the unique
index on pending codes. Verification locks its row, compares, and writes back
only the columns that changed; the grant is a commit of its own. A code that is
shown is right or wrong, nondeterministically.

### Payroll run

A job's database session holds writes that are not committed yet (`creates`,
`deletes`, `inserts`) and rows it has loaded (`run`, `period`). `Flush` sends the
header and the deletions, and waits where PostgreSQL would for the same rows of
another job. `CalculateEmployee` is one employee: saving the calculation commits
what the session holds. `Finish` writes totals and statuses, and only the columns
that differ from what was loaded. A failing employee aborts the job; what it had
committed stays. Who is an ACTIVE employee does not change while jobs run. Locking a run or changing a period's status, and revising
compensation, are what others do meanwhile. `torn`, `skipped`, `heals`, `met` and
`behind` are history: which jobs left their version torn, whom a job passed over,
which torn jobs it has seen when it started, and which jobs were then under way and
which of those had committed. No guard reads them.

### Compensation

`Check` compares with the committed records, `Insert` adds the record later. A
date is a day number, an open end is the day after the last.

### Tax declarations

A request *loads* the row, *lists* the items it will work on, and *commits* what
it made of them; portal and approval requests do without the list. `Written` is
SQLAlchemy's UPDATE: a column is written only if its new value differs from the
loaded one, so the row that two requests leave can mix columns of both. All four
ways into the row are there: create-or-replace of the items, stage transitions
with their table, the portal's submission (which asks for no stage) and the
approval endpoint (which compares users and stage, but not with the table). A transition
names any actor or none, as `transition_stage` takes `actor_id` with the default None and
writes it to `verified_by`.
`mixed`, `late`, `early` and `through` are history variables that say which
requests overlapped which commit, and which way a declaration took that was verified last. What is *declared*
(`Declared`: the total, and the items with their amounts) is told apart from what is
*verified*, because a verification that was under way may still write verified
amounts into a row that has been frozen.

### Calculation persistence

`Calculate` is the calculation endpoint: a `VERIFIED` run, or a guest's run that
belongs to nobody. A save is three steps because PostgreSQL makes it three: the
UPDATE picks its rows, waits for those another transaction holds and tests the
status again, and commits with the inserted run. A deletion loads a run and marks
it by its id. `known[c]` is what was committed when call `c` began.

### Regulatory pipeline

`StatutoryCatalogue` holds the shipped tables row by row. `Supersede` is
`execute_supersession` past its refusals: it retires the old rule and activates the
new one at once, or leaves the old one active and registers a notified rule. The
comment at `rule_supersession_service.py:159` speaks of a later activation; no code
performs one, so a notified rule stays notified, and none is modelled.
`RuleCandidates` is the other half of the package, which shares no state with the
registry: approving a candidate returns a rule and registers nothing.

### Tax, provident fund and professional tax

Amounts are whole paise and rates hundredths of a percent; `RateOf` is
`quantize_currency` of a product, computed without leaving TLC's integers.
Limits of amounts are TLC's as well: `Unlimited` is its largest integer, about 2.14 crore
rupees, so the old regime's surcharge row from five crore is out of reach and
left out. The slabs of a regime are a sequence, and their tax is a running total over
it, as in `SlabCalculator`. Where the seeded surcharge rows touch and the query does not
order them, an operator returns the *set* of results; that it has only one member is part
of what `EngineMatchesOracle` says. `TaxOracle` is translated from the oracle and shares no
operator with the engine. Salaries, raises and claims are whole rupees (`SalariesAssumption`),
as those of the validation script are: of a fraction the oracle, which rounds only at the
end, and the engine, which rounds each slab, may find different paise.

### Payslips

The extraction past text recognition, the tolerance policies and the verdict.
An image yields no text, so all figures read as 0. The slip is the payroll item
printed in whole rupees, with at most one misprint. Every amount of an item may have
paise, the professional tax too, which is 104.17 or 208.33 a month under Tamil Nadu's slabs. The service that stores
slips is not modelled (section 7).

### Rate limiting

Each read of the clock and each read and write of the process-local list is a step,
the length check (`Count`) and the append (`AppendStamp`) included, since endpoints run on
a pool of threads and the list is not locked; each Redis command is a step. `stamps` and `zset` hold the calls, whose times are in `limited`;
the list's order is that of appending, `place`. `overlapped` is a history variable.
Two calls do not read the same microsecond. Limits and windows are at least 1, as
the settings demand (`config.py:68-71`) and the constants elsewhere are.

### Migrations

`Revisions` lists the DDL operations of each `upgrade()` with the tables each table refers
to; each `downgrade()` undoes them from the last to the first, so it is derived
(`Downgrade`). `Migrations` takes the list as a constant. `Operate` applies one operation or is
refused where the database refuses it; `Mark` writes `alembic_version`; `Stop` ends the
command at any point and returns to `durable`, which on PostgreSQL is the state before the
command and on SQLite whatever DDL has committed by itself.

### MCServices

The modules above and `Compensation` share no state with one another. Rather than
nine near-equal MC modules there is one, in which the constant `Parts` says which
of them run: `part` picks one initially, the others stay as they are. It extends them
all, so that a run checks the very definitions the theorems state, and TLC evaluates every
assumption of theirs on the instance.

## 3. What the runs check

| run | instance | shows |
| --- | --- | --- |
| `ledger` | 3 threads, 2 processes, 2 chains, 4 events, a checkpoint every 2, row locks | `ChainUnbroken`, `CheckpointsExact`; the ledger implements `AppendOnlyLog` through crashes and refused commits (`ImplementsLog`); every call ends (`CallsEnd`) |
| `ledger_genesis` | the same | *violation* of `AllocationNeverRefused`: finding 1 |
| `verification` | 1 process, 2 threads, 2 chains, 4 events, 1 verifier, damage of every kind above once (`MaxDamage`) | `ValidMeansWhole`; `ComplaintsExplained`; in one process no commit is refused unless the tables were damaged (`RefusedOnlyAfterDamage`) |
| `sessions` | 1 user, 3 rows (`MaxSessions`), 2 requests at once, 2 password changes (`MaxPassword`), rows and changes together 4 (`MaxWrites`), requests may die | `LineageSound`, `StaleSessionsExplained`, `SignedOutStaysOut` |
| `sessions_fair` | 2 rows, 2 requests, 1 password change, rows and changes together 3, none dies, fair | `OldSessionsDie`, `RotationReaches` |
| `sessions_survivor` | 3 rows, 2 requests | *violation* of `RevocationReachesSuccessors`: finding 2 |
| `otp` | 1 address, 2 requests, 2 codes, 2 attempts, cooldown 1, time to live 1, 2 registrations | `AttemptsCounted`, `OnePending`, `GrantsEarned`, `VerifiedActivates`, `DeadStaysDead`, `RequestsEnd` |
| `payroll` | 3 jobs, 1 version, 2 employees, grosses 0, 1, 2 | `CalculatedRunWhole`, `PaidOnce`, `LockedRunFinal` |
| `compensation_race` | 3 days, 2 requests | *violation* of `NoDayInTwo`: finding 3 |
| `services` | see below | the other properties of `Compensation` and all those of the modules after it |
| `statutory_schedule` | `services` with the salaries only | *violation* of `ScheduleHolds`: finding 4 |
| `migrated_schema` | `services` with the migrations only | *violation* of `AcceptedSchema`: finding 5 |

Each checked property appears once among the passing runs. The type invariant of
the ledger is checked with `ledger` and those of the modules in `MCServices` with
`services` (`ServicesTypeOK`).

The instances of `services`, and what is checked of each:

| part | instance | shows |
| --- | --- | --- |
| compensation | 4 days, 3 records, one request at a time | `NoDayInTwo`, `InForceIsPaid` |
| declarations | 4 requests of any kind, the owner and one reviewer, one section, amounts 0 and 1, a portal total of 3 | `DeclarationAccounted` (the total is the items' sum unless updates overlapped; a verifier who is not a reviewer, or none, means a stage transition), `FrozenContentHolds` (what a frozen declaration declares stays, unless an update was under way when it was frozen) |
| store | 4 calls, 2 employees, 1 guest | `CurrentExplained`, `DeletedStaysDeleted` |
| limiter | both back ends, 3 calls, 1 allowed in a window of 3 ticks, 2 ticks to a second, clock to 4 | `SerialCallsLimited`, `RetryHonoured` |
| updates | the shipped registry, Karnataka's professional tax rule changed, a new id, 3 officers, 2 months, 2 dates, 2 supersessions | `ChangesWitnessed`, `CoverageHolds` |
| amendments | 3 officers, 2 documents | `AmendmentsCarriedOnce` |
| schema | both databases, commands to revisions 0 and 5 | `SchemaMatchesRevision` |
| salary | 3 years; salaries a rupee below, at and above 15 limits of taxable income (with both standard deductions) and around 6 limits of a month's gross; raises of 1, 20,000 and 150,000 rupees; Karnataka, Maharashtra, Telangana, West Bengal; with and without claims | `EngineMatchesOracle`, `RaisesPay`, `ComparisonFavoursNew` |
| payslip | 6 payroll items with paise, two of them with the professional tax of Tamil Nadu; 5 misprints in any field, with and without payroll and projection, scanned or not | `RoundedSlipJudged` (rounding alone makes a slip critical exactly when the professional tax has paise), `VerdictVouches` |

**Results worth reading.** `ValidMeansWhole` says how far a VALID verdict can be trusted.
If the head rows are as `log_event` wrote them and the chain has one, the events read are those
committed, in every hashed column. If the heads may have been written too, only a digest
noted elsewhere helps: with `expected_head_hash` the events are those committed up to it.
Without either, a tail can be cut off or rewritten; and the columns outside the digest are never vouched
for (section 5). `StaleSessionsExplained` lists *every* way a
session that rests on a replaced password can still be alive: the sweep is still
to come, the request died before it, or the session was committed after the
sweep by a request that had made its checks before. `CalculatedRunWhole` lists
every way a payroll run at rest can disagree with its items: a job failed between
two of its commits and none has finished since, or a job passed over an employee
who had no compensation yet and whom an overlapping job paid.
`DeclarationAccounted` does the same for a declaration: its total departs from its
items only if updates overlapped or the portal created it; where the verifier is its own
employee, or nobody, it was verified by the stage transition, which checks no actor, and not by the
approval endpoint. `RoundedSlipJudged` is an equivalence: the tolerances absorb the rounding of every
figure but the professional tax, whose tolerance is nil. `RaisesPay` is about
tax *before cess*: on the tax that marginal relief leaves, 4 % cess comes on top,
so just above a limit a rupee of income can cost more than a rupee in all, as the
statute has it. `EngineMatchesOracle` allows the provident fund the rounding of
twelve months, and professional tax to differ in the rupee between two slabs. The oracle
annualises where the engine goes month by month.

**Bounds, and why they are enough.**
*Ledger*: two threads in one process and one in another give contention on the
`RLock`, on the row, and on neither; four events reach a second checkpoint on one
chain, or two on each of two chains; the theorems of section 6 lift all safety
properties to all sizes. *Verification*: four events give a hole at the
start, in the middle and at the end, and two chains a row to move between; that one
damage is enough is the theorem's, which has no such bound. *Sessions*: three rows are a session, its
successor and a further one made by a login or a change; two requests at once
suffice for each pair of transactions to interleave, and no action looks at more
than one other request; `MaxWrites` ends a run after four rows or password changes in
all, which leaves 1,442,690 states and room for a sweep between any two of them
(`sessions_fair`, where liveness is costlier, has one less of each). Users share no state except their rows, so one is enough
for everything but mix-ups between users. *Codes*: two codes are one and its successor, or one for each
purpose; with two attempts the limit is reached after a miss. Ages stop one past
the time to live, where the code no longer tells them apart. *Payroll*: with
three jobs two may overlap and a third repair or disturb what they left; two
employees are one before and one after a failure. *Compensation*: four days
have room for adjacent, nested, one-day and open-ended ranges and a backward one.
*Declarations*: four requests are what it takes to create, submit and freeze a
declaration with an update under way. *Store*: a run to supersede, two saves that overlap, and
a deletion. *Limiter*: one call that fills the window and two that overlap on the
list; the clock passes the end of the first window. *Updates*: the second
supersession meets a rule that has already been replaced, or repeats the first.
*Schema*: from base to head and back passes every operation both ways, and a
command may stop at each. *Salary*: amounts between two limits are linear up to
rounding, so limits and their neighbours are where formulas can disagree.
*Payslip*: proved for all amounts, as *salary* is for all whole rupees (section 6).

`CHECK_DEADLOCK FALSE` stands only where the bound itself stops the system: the
ledger runs out of event uuids, every payroll job and every request, call or
salary of `services` is made once. The other
runs have deadlock checking on: something can always happen, since waiting
requests are always served.

## 4. Fairness

* Ledger: strong fairness of each thread's steps. A thread inside a call is
  scheduled again, and waiters for the `RLock` or the head row are served in turn
  (PostgreSQL queues the waiters of a row). Nobody is bound to *start* a call. A
  crash ends a call, so `CallsEnd` holds through crashes.
* Sessions: weak fairness of `Continue(r)`: a request that has begun runs on. No
  step of it waits for anything, so weak fairness is enough.
* Codes: strong fairness of `Continue(r)`, for the steps that wait for row locks.

No fairness is given to the clock, to clients or to failures.

## 5. Where code and documentation differ

1. **The first event of a chain can be refused** (`ledger_genesis`). When a chain
   has no head there is no row for `FOR UPDATE` to lock, and `_global_lock` does
   not reach other processes: two processes both insert the head and event 1, and
   the second commit raises `IntegrityError` out of `log_event`. The ledger is
   never damaged (`ChainUnbroken` holds without row locks too), but that event is
   not recorded, against the docstring "Appends an immutable event to the
   specified audit chain atomically."
2. **A session can survive a password change** (`sessions_survivor`).
   `rotate_session` tests `revoked_at` of a row its session had already loaded,
   and does not lock it. A refresh that passed the test before the sweep commits
   the successor after it; the response said "All previous sessions revoked."
3. **Concurrent requests can admit overlapping compensation**
   (`compensation_race`), which the class docstring says must not happen.
4. **A rupee between two slabs pays no professional tax**
   (`statutory_schedule`). Seeded slabs end at a whole rupee and go on at the next;
   a month's gross with paise can lie between. The validation script
   expects 200 or 300 of every gross above 10,000 in Maharashtra.
5. **The migrations do not make the schema the acceptance test demands**
   (`migrated_schema`): 49 tables where `test_postgres_schema_acceptance.py` counts
   52. `verification_tokens`, `audit_chain_heads`, `audit_checkpoints` and the evidence tables are in
   no migration, and `audit_logs` lacks the columns of the hash chain. The
   application's own `create_all` makes them, where it runs.

Other things a reader of the code should know; each is modelled as it is unless
the text says otherwise, and no document speaks against it:

* The seeded professional tax slabs of Gujarat and Tamil Nadu differ from the
  oracle's, so `EngineMatchesOracle` says nothing of professional tax there; and the oracle
  has no 37 % surcharge for the old regime, which is out of the model's range.
* A state without seeded slabs, Delhi excepted, ends the calculation with an
  error, also where the state master says no professional tax is levied. State
  codes differ between the tables (OR and OD, ME and ML, DN and DH).
* The normalizer leaves components that exceed the gross as they are. Take-home can
  be negative. The regime comparison calculates without claims, so it never
  recommends the old regime (`ComparisonFavoursNew` says so).
* The approval endpoint commits before its audit event is logged. A transition to
  VERIFIED takes amounts for any item ids, and an actor that may be None: a declaration can be
  VERIFIED and FROZEN without a verifier (`tax_declaration_service.py:81, 111`).
* The portal's submission sets a declaration back to SUBMITTED from any stage
  (`employee_portal.py:237`), FROZEN included, although the comment in the table of moves says
  "Unfreeze requires admin exception" (`tax_declaration_service.py:101`). `CommitPortal` does so;
  `FrozenContentHolds` speaks of content while the declaration is frozen.
* The digest of an audit event covers 14 fields (`audit_service.py:45-79`). `payload_before`,
  `payload_after`, `details`, `entity_id`, `entity_name`, `user_id`, `ip_address` and `user_agent` are not among them, so
  a row altered there verifies as VALID. Without a head row the tail check is skipped
  (`audit_service.py:396`), and a chain without events is VALID whatever its head says (`:315`).
* Tamil Nadu's professional tax is 104.17 or 208.33 a month (`seed_reference_data.py:704, 713`),
  payroll stores it so, and its tolerance is 0.00 (`tolerance_policy.py:44-48`): a payslip that prints it in
  whole rupees is a critical discrepancy.
* A replayed or raced refresh token ends no other session: the branch of `rotate_session` that
  would revoke all is out of reach of `POST /refresh`, which refuses a dead session first and otherwise
  works on the row it has loaded (`session_repository.py:74, 89`).
* A rule that has a successor can be superseded again; its pointer is overwritten
  (`rule_supersession_service.py:241`).
* An in-process rate limiter counts a call only after its check; the Redis limiter
  counts refused calls too, so a client that retries early keeps itself out.
* A history page below 1 gives a negative offset.
* A reset token is recorded nowhere and works until it expires (`auth.py:404`);
  registration commits the account before its code may be refused
  (`auth.py:163`); a re-registration that read the account as inactive writes its
  password after the activation (`auth.py:112`); a payroll item's snapshot is looked up by hash
  alone (`payroll_service.py:158`); the end of a payroll job writes CALCULATED over
  the status of a run or a period that was locked meanwhile
  (`payroll_service.py:228`). No property claims otherwise.

## 6. What is proved

For every number of chains, events, threads, processes, whatever process a
thread belongs to, and with or without row locks (`AuditLedgerProofs`, under
`ProcOfAssumption` and `AbsentAssumption`, that absent values are not values):

* `TypeCorrect`: `Spec => []TypeOK`. `TypeOK` alone is not inductive, since an idle
  call has no chain and no uuid; `CallsNamed` adds that a call that has begun has
  both.
* `ChainCorrect`: `Spec => [](ChainUnbroken /\ HeadAligned)`. The inductive invariant
  adds `CallHeadsRecorded`: the head a call has selected was the newest event of
  its chain once, so an event with its number and digest is recorded. It need
  not be the newest any more: without row locks another process may have
  appended. The argument is the lemma `NewEventPlace`: if the new event's number
  is not taken (the unique constraint), then, because numbers have no gap, the
  head selected *is* the newest event, and the new event goes right behind it.
  So the constraint alone, not the locks, keeps the chain unbroken; the locks
  only keep calls from being refused.
* `CheckpointsCorrect`: `Spec => []CheckpointsExact`. A commit adds a checkpoint
  exactly if it adds an event whose number the interval divides, so the property is
  inductive as it stands.
* `SelectedHeadStays`: `Spec => []SelectedHeadIsCurrent`. The invariant `LockInv` adds
  that a call past the process lock holds it, that a selected head's row is held where
  there are row locks, and that the head a call holds is the chain's.
* `OneProcessNeverRefused`: if all threads belong to one process, then
  `Spec => []AllocationNeverRefused`. The process lock serialises all calls, and
  behind the current head the number is free (`HeadInsertable`). So finding 1
  needs a second process, and nothing else does it.
* `LedgerIsAppendOnly`: `Spec => ImplementsLog`, the
  refinement of `AppendOnlyLog`. The log of a chain is read off the digest in its
  head row. The invariant adds `HashesCover` (a digest lists the uuids of all events
  of its chain up to its own) and `UuidsFresh` (no uuid in flight is on record or
  in another call). A commit then appends one uuid to one log (`CommitAppends`); every
  other step, crashes included, leaves `heads` alone and is a stutter.

For any number of days and records (`ServiceProofs`):

* `SerialRequestsNeverOverlap`: if there is at most one request at a time, then
  `Spec => []NoDayInTwo`. The inductive invariant is that the records are pairwise
  disjoint in the sense of `check_date_overlap` (stronger than sharing no day for
  ranges that end before they begin), and that the range a request has found free
  still is. The second half is what two requests break, which is finding 3.
* `InForceIsPaidSerially`: under the same assumption `Spec => []InForceIsPaid`: payroll's
  choice by `effective_from` alone finds the record in force, because any later
  one that has begun would overlap it.

For any payroll items and misprints, under `ItemsAssumption` (an item's gross,
deductions and net add up) (`ServiceProofs`):

* `RoundingAlwaysJudged`: `SlipSpec => []RoundedSlipJudged`. Each figure of a slip
  in whole rupees is within half a rupee, the formula check sees at most three
  roundings, and every tolerance but professional tax's exceeds them. That one is nil, so any
  paise of it are a critical mismatch, and a professional tax in whole rupees is printed as it is.
* `VerdictsVouch`: `SlipSpec => []VerdictVouches`. The invariant `Judged` ties a verdict to the
  slip as it is; the counts in the verdict are then turned back into statements
  about each field with facts about finite sets.

For any number of calls, any limit and any window (`ServiceProofs`):

* `SerialCallsStayLimited`. The invariant says that the list holds every serial call
  that was admitted and still counts (`ListHolds`), and so does every copy under
  way (`CopyHolds`), though calls that overlap one another may lose each other's
  stamps. A serial call reads the clock after all others that are under way or ended
  (`LastArrived`), so what it filters is all that its window holds (`CountedHolds`, `ListExact`);
  `SetHolds` and `SetExact` say the same of Redis. One more admission then
  fits every window.
* `RetryAlwaysHonoured`, by counting: the oldest admission, whose time the refused client was
  told, has left the window; no window has more admissions than the limit; so
  a second refusal means that another call took the place.
* TLC checked the invariant with three calls and a limit of 1, and with four calls and limits
  of 1 and 2, before it was proved.

For every set of chains, events, threads, processes and verifiers, whatever was done to
rows and heads behind the application's back, and however often, where rows can be locked or all
threads belong to one process (`VerificationProofs`):

* `ValidAlwaysMeansWhole`: `[]ValidMeansWhole`, with the limits stated there: events and a head
  row, head rows nobody else has written, or an expected digest that was committed once; the hashed
  columns only. The proof goes back from the digest that can be relied on, the head's
  (`ValidIsWhole`) or the caller's (`ValidIsExpected`): it names the row it was computed from
  (`DigestNamesRow`), that row's digest names the one before, and so on down to the first
  (`CleanIsCommitted`). The prover has no induction over data, so this is an argument
  by the least counterexample (`LeastNatural`, from the well-foundedness of the naturals).
* `ComplaintsAlwaysExplained`: `[]ComplaintsExplained`. The lemma `UndamagedIsClean` walks
  the same way over rows nobody touched.
* `NeverRefusedUndamaged`: `[]RefusedOnlyAfterDamage`, for one process. What a writer can insert
  into the ledger `log_event` wrote, it can insert while that is the ledger.
* The invariant has two halves. `LedgerStorable` is what the constraints keep true of damaged
  tables. `CommittedSound` says of the ledger without the damage (`Committed`, an instance of
  `AuditLedgerProofs`) what is proved there: its chains are unbroken for good, and its locks and
  heads hold as long as nobody else has written a head. The assumption is needed: TLC finds
  `ValidMeansWhole` violated with two processes and no row locks, where a call
  that holds a stale head uses the number of a lost row again.

For all addresses, codes, requests and limits (`OtpProofs`):

* `AttemptsAlwaysCounted`, `OneCodePending`, `GrantsAlwaysEarned`,
  `VerifiedAlwaysActivates`, `DeadCodesStayDead`. The core of the invariant is `LocksHeld`: a
  request past its `FOR UPDATE` holds the rows it selected, and they are as it read them,
  but for their age. So what is written back is a step from what is there, and
  no comparison is lost. `Counted` ties the count in the row to the comparisons made;
  `ExpiredIsOld` says that EXPIRED is written only over a code past its time.

For all users, sessions, passwords and requests, requests that die included (`SessionProofs`):

* `LineageAlwaysSound`, `StaleSessionsAlwaysExplained`, `SignedOutStaysSignedOut`. The
  invariant adds `ActsForUser` and `WorksOnSession` (what a request in flight points at
  exists, and is its user's) and `Vouches`: a request that will create a session has shown
  the password in force, unless a revocation is to come or has overtaken the request.

For all versions, employees, grosses and jobs (`PayrollProofs`):

* `EmployeesPaidOnce`, `LockedRunsFinal`. A job's uncommitted writes are of its own version
  (`WritesOwnVersion`), it holds at most one item that is not committed (`OneItemHeld`), and
  a job at rest holds no writes (`IdleWritesNothing`).
* `CalculatedRunsWhole`. That a calculated run at rest is whole is not inductive: at rest
  means that nobody is under way, and what the last job finds depends on how it overlapped
  the others. `PayrollInvariants` has the strengthening, in layers. The difficulty is that a
  later job deletes items of an earlier one that is still under way; READ COMMITTED lets both go
  on. `IntactOrDoomed` says that a job under way either has an item for everybody it has paid,
  or will not end quietly: its next insert meets an item of another job (`Beaten`), the one
  that took its items is still under way (`Chased`), or that one has failed and left the
  version torn (`TornBehind`). When the job that took the items *finishes*, something must
  take its place. That is `Contested`: of a job and one that it met with something
  committed, both will pay the same employee, unless a third one that started later decides
  between them. The rest is arithmetic: an intact job's total is that of its items
  (`Totalled`), and the total it has last loaded is the row's, or else another job has
  finished, whose item it can neither have seen nor overcome (`RowKnown`); so the UPDATE
  of changed columns ends with the right total even where it leaves the column out. Each
  layer was checked with TLC on the instance of `payroll`, and on one with three employees,
  before it was proved. Sums count every unit of every item once, so that one more item adds its
  gross by the cardinality of a disjoint union.

For any calls, employees, requests and amounts (`RecordProofs`):

* `CurrentAlwaysExplained`, `DeletedAlwaysStays`. The invariant follows a save: the runs
  whose locks it holds are still current (`HeldCurrent`), no two saves hold the same
  one (`HeldOnce`), and of the runs committed before it began it has matched all
  that are current (`NoneMissed`).
* `DeclarationAlwaysAccounted`, `FrozenContentAlwaysHolds`. `UpToDate` is the invariant that
  relates a loaded row to the present one: an update that no other one overlaps finds the
  total and the items as it loaded them. `VerifierNamed` says that a declaration the approval endpoint
  verified last names the reviewer who did, and that before any verification no row, nor any
  copy a request has loaded, is verified or frozen. `FrozenKnown` adds that every update under way
  on a frozen row was under way when it was frozen.

For any staff, documents, months and dates, and any number of supersessions (`RecordProofs`):

* `ChangesAlwaysWitnessed`, `CoverageAlwaysHolds`. The invariant names the departures from
  the shipped registry and their events (`DeparturesWitnessed`); an active rule that no
  event introduced is the shipped one and was active from the start (`ShippedUnlessIntroduced`).
* `AmendmentsAlwaysCarriedOnce`. A document seen has exactly one candidate or none, as it was an
  amendment when first found (`CandidateIffAmends`), and the three signatures of
  a returned rule are of three people (`VerifiedByAnother`, `CarriedByThree`).

For any list of revisions written one upon the other and any targets (`ServiceProofs`, under
`RevisionsAssumption`: an operation creates a table there is not or alters one there is, by
columns and references it has not, and refers to tables there are; TLC evaluates this on the
real list):

* `SchemaAlwaysMatchesRevision`: `SchemaSpec => []SchemaMatchesRevision`. What the right schema
  is says `SchemaOf`, a function of the *set* of operations done, not of the way there. The
  invariant (`SchemaInv`) says that a command that has done `k` operations of a revision on its
  way up (`GoingUp`), or has `k` left on its way down (`GoingDown`), has before it the schema
  of the revisions below and those `k`; one step is `UpOne` or `DownOne`, that an operation
  written upon the others can be applied, or undone as the last, and is refused neither time.
  `RollsBack` says that PostgreSQL goes back to a marked revision, and `AtStart` that SQLite
  does where it is stopped before a revision's first operation; elsewhere on SQLite the schema
  may be half of two revisions, which `interrupted` concedes. `SchemaInvariant` contains the types.

For any salaries, raises and claims in whole rupees within the model's range (`SalaryProofs`,
under `SalariesAssumption`), and each year, regime and state:

* `EngineAlwaysMatchesOracle`: `SalarySpec => []EngineMatchesOracle`. Slab by slab, the running
  total is the tax in closed form (`NewSlabTax` and its siblings), for a slab's tax on whole rupees
  is exact; the oracle's branch is the bracket with the highest floor below the income
  (`OracleBranch`) and has the same closed form (`NewSlabsAgree`). The rebate
  and its marginal relief leave nothing, or the smaller of the tax and the income above the
  limit, in either program (`AfterLimit`). What is due with the surcharge is the same function
  `Due` of tax and row; where two rows meet they agree (`DueOnLimit`), so it does not matter which
  the query finds (`EngineSurcharge`). The provident fund differs by the rounding of a month's wage
  and contribution, twelve times (`YearsPf`). Professional tax is that of the only slab the
  month's gross is in (`PtOf`).
* `RaisesAlwaysPay`: `SalarySpec => RaisesPay`. After the rebate the tax grows with the
  income and by no more (`Smooth`), and above fifty lakh by exactly 30 %. On one row of the
  surcharge what is due then grows by no more than the income (`DueStep`): either marginal relief
  decides, and lets it grow as the income does, or it grows by at most 30 % and a quarter of
  that. `SteadyChain` puts rows together at the limits, where both rows are right.
* `ComparisonAlwaysFavoursNew`: `SalarySpec => []ComparisonFavoursNew`. On the same income the
  new regime's tax after the rebate is no more than the old one's (`NewBelowOld`); its larger
  standard deduction leaves less income; and surcharge, cess and rounding are monotone
  (`DueTaxGrows`, `PercentMonotone`, `NearestTenMonotone`).
* `SalaryInvariant`: all this is said of an amount; that the salaries calculated are base
  salaries and single raises of them, so in whole rupees and in range, is the invariant.

Three properties were found wrong while their invariants were looked for, and were
corrected against the code: `CalculatedRunWhole` let a finished job of another *version* mend a
torn one, which the run with one version did not show; `StaleSessionsExplained` did not foresee a second
password change that overtakes the first one's request, and `FrozenContentHolds` spoke of the
whole row where an update under way may still write verified amounts.

Only model-checked:

* `ServicesTypeOK`, which joins the types of the parts of `MCServices`. Those of each part are
  proved with its invariant.
* All liveness (`CallsEnd`, `OldSessionsDie`, `RotationReaches`, `RequestsEnd`), which
  needs fairness and ENABLED.

## 7. What is not modelled

* `get_audit_trail` and other reads that change nothing.
* Amounts in payroll other than the gross: each is derived per item and summed
  the same way. Snapshots linked to payroll items (noted in section 5).
* How one-time codes are drawn, hashed and mailed; signatures of JWTs; roles.
* The content of calculation snapshots, which listeners of the model forbid to
  change, and the reconstruction of results from them; formula traces and ledger lines
  of a calculation (which omit marginal relief and surcharge).
* The payslip service and its endpoints. They cannot complete as the repository stands:
  they read `User.employee_id`, `CalculationSnapshot.is_active` and
  `PayrollRunItem.gross_earnings`, which no model has. Text recognition is left out too.
* The job queue: a dictionary that nothing in the application fills, runs or reads.
  Organizations and memberships are plain records.
* Forecasts, savings, anomalies and simulations: stateless projections over a
  finished calculation.
* The regression check of a rule candidate, which is a constant that always passes;
  reasons, titles, addresses and timestamps of declarations and rules.
* The old regime's surcharge above five crore rupees, beyond TLC's integers in paise.
* E-mail delivery, presentation, templates, metrics: I/O or formatting
  without state to keep consistent.
* Assistant and retrieval: text ranking and generation.

## 8. Plan

Every safety invariant and action property of the passing runs is proved, but for the joint type
invariant of `MCServices`. What would come next:

1. The paise of salaries that are not whole rupees: by how much engine and oracle may then
   differ, and whether rounding to tens hides it.
2. The old regime's surcharge above five crore, with amounts in rupees.
3. The payslip service, once its queries name columns the models have.

## 9. Running

    tlc -workers 2 -config AuditLedger.cfg MCAuditLedger
    tlapm AuditLedgerProofs.tla

The module of every run is named in `PROJECT.json`; `services` takes about
four minutes, `sessions` two, `verification` and `payroll` one to two, the others less. Of the proofs, those of `ServiceProofs`,
`AuditLedgerProofs` and `PayrollProofs` take tlapm the longest, a few minutes; the others about
one or two each.
