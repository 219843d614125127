------------------------------ MODULE PayrollRun ------------------------------
(***************************************************************************)
(* PayrollProcessingService.calculate_payroll_run for one organization and *)
(* one payroll period.  A job computes one version of the run employee by  *)
(* employee, and every calculation it persists commits the database        *)
(* session the job itself works in: what looks like one transaction is one *)
(* per employee.  Jobs of several callers run side by side on PostgreSQL   *)
(* (READ COMMITTED), and any of them may stop at an employee whose         *)
(* calculation raises.                                                     *)
(*                                                                         *)
(* Of an item and of the run's totals only the gross is kept: the other    *)
(* amounts are derived from it per item and summed the same way.  Which    *)
(* compensation is in effect is Compensation's subject.  Each job reads    *)
(* anew who is ACTIVE; here that does not change while jobs run.           *)
(***************************************************************************)
EXTENDS Naturals, FiniteSets, FiniteSetsExt

CONSTANTS
  Employees,    \* the organization's employees with status ACTIVE
  Versions,     \* run versions that callers ask for
  Jobs,         \* calls of calculate_payroll_run, each made once
  Grosses,      \* monthly gross amounts; 0 is no compensation
  NoRun

ASSUME GrossesAssumption == Grosses \subseteq Nat

VARIABLES
  period,       \* payroll_periods.status
  runs,         \* runs[v]: the row of payroll_runs for version v, or NoRun
  items,        \* rows of payroll_run_items
  gross,        \* gross[e]: what the compensation in effect pays e
  job,          \* job[k]: what job k is doing, with its uncommitted writes
  torn          \* history: jobs that left their version torn, until a later one finishes

vars == <<period, runs, items, gross, job, torn>>

-----------------------------------------------------------------------------
PeriodStatuses == {"OPEN", "CALCULATED", "LOCKED", "CLOSED"}

Run == [status : {"CALCULATING", "CALCULATED", "LOCKED"}, total : Nat]
ASSUME NoRunAssumption == NoRun \notin Run

(* by: the job that inserted the row, so that rows of two calculations of  *)
(* the same employee are told apart as their ids tell them apart.          *)
Item == [version : Versions, employee : Employees, by : Jobs, gross : Nat]

(* creates, deletes, inserts: uncommitted writes of the job's session;     *)
(* left: employees still to do; committed: has the job committed anything? *)
(* run, period: the run's row and the period's status as the session last  *)
(* loaded them, "EXPIRED" when the next use will load it again.            *)
(* skipped, heals (history): the employees it passed over, and the torn    *)
(* jobs whose items it has seen and deletes; met, behind (history): the    *)
(* jobs of its version that were under way when it started, and those of   *)
(* them that had committed.                                                *)
Job == [step : {"waiting", "flush", "employees", "done"}, version : Versions, creates : BOOLEAN,
        deletes : SUBSET Item, inserts : SUBSET Item, left : SUBSET Employees, total : Nat,
        run : Run \cup {NoRun}, period : PeriodStatuses \cup {"EXPIRED"}, committed : BOOLEAN,
        skipped : SUBSET Employees, heals : SUBSET Jobs, met : SUBSET Jobs, behind : SUBSET Jobs]

At(k, step) == job[k].step = step
UnderWay(v) == {k \in Jobs : job[k].version = v /\ job[k].step \in {"flush", "employees"}}
InFlight(v) == UnderWay(v) # {}
ItemsOf(v) == {i \in items : i.version = v}

Waiting(v) == [step |-> "waiting", version |-> v, creates |-> FALSE, deletes |-> {}, inserts |-> {},
               left |-> {}, total |-> 0, run |-> NoRun, period |-> "EXPIRED",
               committed |-> FALSE, skipped |-> {}, heals |-> {}, met |-> {}, behind |-> {}]

Init ==
  /\ period = "OPEN"
  /\ runs = [v \in Versions |-> NoRun]
  /\ items = {}
  /\ gross \in [Employees -> Grosses]
  /\ job \in [Jobs -> {Waiting(v) : v \in Versions}]
  /\ torn = {}

-----------------------------------------------------------------------------
(* The session's writes become visible.  The unique constraint on (run,    *)
(* employee) refuses an insert for an employee another job has inserted.   *)
ClashesNever(k) == FALSE
Clashes(k) == \E i \in job[k].inserts, j \in items \ job[k].deletes :
                i.version = j.version /\ i.employee = j.employee

Commit(k) ==
  /\ ~Clashes(k)
  /\ items' = (items \ job[k].deletes) \cup job[k].inserts

(* The call raises; what was not committed is rolled back with the         *)
(* session, what was stays.                                                *)
Abort(k) ==
  /\ job' = [job EXCEPT ![k] = [Waiting(@.version) EXCEPT !.step = "done", !.committed = job[k].committed]]
  /\ torn' = torn \cup (IF job[k].committed THEN {k} ELSE {})
  /\ UNCHANGED <<period, runs, items, gross>>

MayStartAlways(v) == period \notin {"LOCKED", "CLOSED"}
MayStart(v) == period \notin {"LOCKED", "CLOSED"} /\ (runs[v] # NoRun => runs[v].status # "LOCKED")

StaleItems(v) == ItemsOf(v)

(* The period and the run are looked up; an existing run's items are       *)
(* listed for deletion, a new run is prepared.                             *)
Start(k) ==
  LET v == job[k].version IN
  /\ At(k, "waiting")
  /\ MayStart(v)
  /\ job' = [job EXCEPT ![k] = [@ EXCEPT !.step = "flush", !.creates = (runs[v] = NoRun),
                                         !.deletes = StaleItems(v), !.run = runs[v],
                                         !.period = period, !.heals = {t \in torn : job[t].version = v},
                                         !.met = UnderWay(v), !.behind = {q \in UnderWay(v) : job[q].committed}]]
  /\ UNCHANGED <<period, runs, items, gross, torn>>

Refuse(k) ==
  /\ At(k, "waiting")
  /\ ~MayStart(job[k].version)
  /\ Abort(k)

(* Jobs whose flushed but uncommitted INSERT or DELETEs this flush waits   *)
(* for.                                                                    *)
Blocks(q, k) ==
  /\ q # k /\ At(q, "employees")
  /\ \/ job[q].creates /\ job[k].creates /\ job[q].version = job[k].version
     \/ job[q].deletes \cap job[k].deletes # {}

Flush(k) ==
  /\ At(k, "flush")
  /\ \A q \in Jobs : ~Blocks(q, k)
  /\ job[k].creates => runs[job[k].version] = NoRun
  /\ job' = [job EXCEPT ![k] = [@ EXCEPT !.step = "employees", !.left = Employees]]
  /\ UNCHANGED <<period, runs, items, gross, torn>>

(* Another job has committed the same (organization, period, version).     *)
FlushRefused(k) ==
  /\ At(k, "flush")
  /\ \A q \in Jobs : ~Blocks(q, k)
  /\ job[k].creates /\ runs[job[k].version] # NoRun
  /\ Abort(k)

Prepared == [status |-> "CALCULATING", total |-> 0]

PeriodSeen(k) == IF job[k].period = "EXPIRED" THEN period ELSE job[k].period

NewItem(k, e) == [version |-> job[k].version, employee |-> e, by |-> k, gross |-> gross[e]]

(* One employee: the calculation is saved, and the save commits the run    *)
(* header, the deletions and the items before this one; this employee's    *)
(* own item is added to the session after it.                              *)
CalculateEmployee(k, e) ==
  LET v == job[k].version IN
  /\ At(k, "employees")
  /\ e \in job[k].left /\ gross[e] > 0
  /\ Commit(k)
  /\ runs' = IF job[k].creates THEN [runs EXCEPT ![v] = Prepared] ELSE runs
  /\ job' = [job EXCEPT ![k] = [@ EXCEPT !.creates = FALSE, !.deletes = {}, !.inserts = {NewItem(k, e)},
                                         !.left = job[k].left \ {e}, !.total = job[k].total + gross[e],
                                         !.run = runs'[v], !.period = "EXPIRED", !.committed = TRUE]]
  /\ UNCHANGED <<period, gross, torn>>

SkipEmployee(k, e) ==
  /\ At(k, "employees")
  /\ e \in job[k].left /\ gross[e] = 0
  /\ job' = [job EXCEPT ![k] = [@ EXCEPT !.left = job[k].left \ {e}, !.skipped = job[k].skipped \cup {e},
                                         !.period = PeriodSeen(k)]]
  /\ UNCHANGED <<period, runs, items, gross, torn>>

(* A rule does not resolve, an invariant check fails, or an insert clashes.*)
EmployeeFails(k) ==
  /\ At(k, "employees")
  /\ \E e \in job[k].left : gross[e] > 0
  /\ Abort(k)

TotalOfLast(k) == SumSet({i.gross : i \in job[k].inserts})
TotalUnset(k) == NoRun
Total(k) == job[k].total

(* An employee it passed over, for want of a compensation, has meanwhile   *)
(* got an item from another job: no constraint notices.                    *)
Overlooks(k) == \E i \in items \ job[k].deletes : i.version = job[k].version /\ i.employee \in job[k].skipped

(* The UPDATE writes the columns that differ from the row last loaded, and *)
(* leaves to the others whatever another transaction has put there since.  *)
Updated(k) ==
  LET seen == job[k].run
      row == runs[job[k].version]
  IN  IF job[k].creates THEN [status |-> "CALCULATED", total |-> Total(k)]
      ELSE [status |-> IF seen.status = "CALCULATED" THEN row.status ELSE "CALCULATED",
            total |-> IF seen.total = Total(k) THEN row.total ELSE Total(k)]

(* Totals and hashes, the statuses of the run and of the period, commit.   *)
Finish(k) ==
  LET v == job[k].version IN
  /\ At(k, "employees")
  /\ job[k].left = {}
  /\ Commit(k)
  /\ runs' = [runs EXCEPT ![v] = Updated(k)]
  /\ period' = IF PeriodSeen(k) = "CALCULATED" THEN period ELSE "CALCULATED"
  /\ job' = [job EXCEPT ![k] = [Waiting(v) EXCEPT !.step = "done", !.committed = TRUE]]
  /\ torn' = (torn \ job[k].heals) \cup (IF Overlooks(k) THEN {k} ELSE {})
  /\ UNCHANGED gross

FinishFails(k) ==
  /\ At(k, "employees")
  /\ job[k].left = {}
  /\ Clashes(k)
  /\ Abort(k)

-----------------------------------------------------------------------------
(* What happens around the service: statuses are set by the people who     *)
(* run payroll, compensation by CompensationService.                       *)

SetPeriod(s) ==
  /\ period' = s
  /\ UNCHANGED <<runs, items, gross, job, torn>>

LockRun(v) ==
  /\ runs[v] # NoRun /\ runs[v].status = "CALCULATED"
  /\ runs' = [runs EXCEPT ![v].status = "LOCKED"]
  /\ UNCHANGED <<period, items, gross, job, torn>>

Revise(e, g) ==
  /\ g > 0 /\ gross[e] # g
  /\ gross' = [gross EXCEPT ![e] = g]
  /\ UNCHANGED <<period, runs, items, job, torn>>

-----------------------------------------------------------------------------
Step(k) ==
  \/ Flush(k) \/ FlushRefused(k) \/ EmployeeFails(k) \/ Finish(k) \/ FinishFails(k)
  \/ \E e \in Employees : CalculateEmployee(k, e) \/ SkipEmployee(k, e)

Environment ==
  \/ period = "CALCULATED" /\ SetPeriod("LOCKED")
  \/ period = "LOCKED" /\ (SetPeriod("CLOSED") \/ SetPeriod("OPEN"))
  \/ \E v \in Versions : LockRun(v)
  \/ \E e \in Employees, g \in Grosses : Revise(e, g)

Next == Environment \/ \E k \in Jobs : Start(k) \/ Refuse(k) \/ Step(k)

Spec == Init /\ [][Next]_vars

-----------------------------------------------------------------------------
(* Every variable holds values of its type.                                *)
TypeOK ==
  /\ period \in PeriodStatuses
  /\ runs \in [Versions -> Run \cup {NoRun}]
  /\ items \subseteq Item
  /\ gross \in [Employees -> Grosses]
  /\ job \in [Jobs -> Job]
  /\ torn \subseteq Jobs

(* Every unit of every item of the version, counted once.                  *)
SumOf(v) == Cardinality(UNION {{i} \X (1..i.gross) : i \in ItemsOf(v)})

Torn(v) == \E k \in torn : job[k].version = v

(* A calculated run at rest has the totals of its items, and all of them   *)
(* come from one calculation, except after a job that failed between two   *)
(* of its commits, or one that passed over an employee whom an overlapping *)
(* job did pay.  No other overlap of recalculations mixes two of them.     *)
CalculatedRunWhole ==
  \A v \in Versions :
    (runs[v] # NoRun /\ runs[v].status # "CALCULATING" /\ ~Torn(v) /\ ~InFlight(v)) =>
      /\ runs[v].total = SumOf(v)
      /\ \A i, j \in ItemsOf(v) : i.by = j.by

(* An employee is paid once per run, whatever jobs overlap or fail.        *)
PaidOnce == \A i, j \in items : (i.version = j.version /\ i.employee = j.employee) => i = j

(* A locked run that no job was working on when it was locked is final:    *)
(* neither it nor its items change again, even if the period reopens.      *)
LockedRunFinal ==
  [][\A v \in Versions :
       (runs[v] # NoRun /\ runs[v].status = "LOCKED" /\ ~InFlight(v)) =>
         runs'[v] = runs[v] /\ ItemsOf(v)' = ItemsOf(v) /\ ~InFlight(v)']_vars
=============================================================================
