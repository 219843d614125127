----------------------------- MODULE PayrollProofs -----------------------------
(***************************************************************************)
(* Payroll runs, for any organization, versions, jobs and amounts: an      *)
(* employee is paid once per run, a run that was locked at rest is final,  *)
(* and a calculated run at rest has the totals of its items, all of one    *)
(* calculation.                                                            *)
(***************************************************************************)
EXTENDS PayrollInvariants, FiniteSetTheorems, TLAPS

(* What one step may do to the versions its job does not compute.          *)
OthersKept(v) ==
  /\ \A w \in Versions \ {v} : runs'[w] = runs[w]
  /\ \A i \in Item : i.version # v => (i \in items' <=> i \in items)

-----------------------------------------------------------------------------
(* First layer: the tables.                                                *)
LEMMA InitInv == Init => IInv
<1> SUFFICES ASSUME Init PROVE IInv
  OBVIOUS
<1>1. \A k \in Jobs : \E v \in Versions : job[k] = Waiting(v)
  BY DEF Init
<1>2. \A v \in Versions : /\ Waiting(v) \in Job /\ Waiting(v).step = "waiting"
                          /\ Waiting(v).inserts = {} /\ Waiting(v).deletes = {} /\ ~Waiting(v).creates
  BY DEF Waiting, Job, Run, PeriodStatuses
<1>3. job \in [Jobs -> Job]
  BY <1>1, <1>2 DEF Init
<1>4. TypeOK
  BY <1>3 DEF Init, TypeOK, PeriodStatuses
<1>5. WritesOwnVersion /\ OneItemHeld /\ IdleWritesNothing /\ RunExists
  BY <1>1, <1>2 DEF WritesOwnVersion, OneItemHeld, IdleWritesNothing, RunExists
<1>6. PaidOnce
  BY DEF Init, PaidOnce
<1>. QED
  BY <1>4, <1>5, <1>6 DEF IInv

(* One job goes on to q; items and runs are as they were.                  *)
LEMMA JobStep ==
  ASSUME IInv, NEW k \in Jobs, NEW q \in Job, job' = [job EXCEPT ![k] = q],
         period' \in PeriodStatuses, UNCHANGED <<runs, items, gross>>, torn' \subseteq Jobs,
         q.version = job[k].version,
         \A i \in q.deletes \cup q.inserts : i.version = q.version,
         \A i, j \in q.inserts : i = j,
         q.step \in {"waiting", "done"} => q.deletes = {} /\ q.inserts = {} /\ ~q.creates,
         q.step \in {"flush", "employees"} /\ ~q.creates => q.run \in Run /\ runs[q.version] \in Run
  PROVE  IInv'
<1>1. \A l \in Jobs : job'[l] = IF l = k THEN q ELSE job[l]
  BY DEF IInv, TypeOK
<1>2. TypeOK'
  BY DEF IInv, TypeOK
<1>3. WritesOwnVersion'
  BY <1>1 DEF IInv, WritesOwnVersion
<1>4. OneItemHeld' /\ IdleWritesNothing' /\ RunExists'
  BY <1>1 DEF IInv, OneItemHeld, IdleWritesNothing, RunExists
<1>5. PaidOnce'
  BY DEF IInv, PaidOnce
<1>. QED
  BY <1>2, <1>3, <1>4, <1>5 DEF IInv

(* One job commits, sets the run's row to row and goes on to q.            *)
LEMMA CommitStep ==
  ASSUME IInv, NEW k \in Jobs, NEW q \in Job, job' = [job EXCEPT ![k] = q], Commit(k),
         NEW row \in Run, runs' = [runs EXCEPT ![job[k].version] = row],
         period' \in PeriodStatuses, UNCHANGED gross, torn' \subseteq Jobs,
         q.version = job[k].version, q.deletes = {},
         \A i \in q.inserts : i.version = q.version,
         \A i, j \in q.inserts : i = j,
         ~q.creates, q.run \in Run \/ q.step = "done",
         q.step \in {"waiting", "done"} => q.inserts = {}
  PROVE  IInv' /\ OthersKept(job[k].version)
<1> DEFINE v == job[k].version
<1>0. v \in Versions /\ job[k] \in Job /\ job[k].deletes \subseteq Item /\ job[k].inserts \subseteq Item
  BY DEF IInv, TypeOK, Job
<1>1. \A l \in Jobs : job'[l] = IF l = k THEN q ELSE job[l]
  BY DEF IInv, TypeOK
<1>2. /\ items' = (items \ job[k].deletes) \cup job[k].inserts
      /\ \A i \in job[k].inserts, j \in items \ job[k].deletes : ~(i.version = j.version /\ i.employee = j.employee)
  BY DEF Commit, Clashes
<1>3. /\ runs' \in [Versions -> Run \cup {NoRun}]
      /\ \A w \in Versions : runs'[w] = IF w = v THEN row ELSE runs[w]
  BY <1>0 DEF IInv, TypeOK
<1>4. items' \subseteq Item
  BY <1>0, <1>2 DEF IInv, TypeOK
<1>5. job' \in [Jobs -> Job]
  BY DEF IInv, TypeOK
<1>6. TypeOK'
  BY <1>3, <1>4, <1>5 DEF IInv, TypeOK
<1>7. WritesOwnVersion'
  BY <1>1 DEF IInv, WritesOwnVersion
<1>8. OneItemHeld' /\ IdleWritesNothing'
  BY <1>1 DEF IInv, OneItemHeld, IdleWritesNothing
<1>9. RunExists'
  <2>1. \A l \in Jobs : job[l].version \in Versions
    BY DEF IInv, TypeOK, Job
  <2>. QED
    BY <2>1, <1>0, <1>1, <1>3 DEF IInv, RunExists
<1>10. PaidOnce'
  BY <1>2 DEF IInv, PaidOnce, OneItemHeld
<1>11. OthersKept(v)
  <2>1. \A i \in job[k].deletes \cup job[k].inserts : i.version = v
    BY DEF IInv, WritesOwnVersion
  <2>. QED
    BY <2>1, <1>2, <1>3 DEF OthersKept
<1>. QED
  BY <1>6, <1>7, <1>8, <1>9, <1>10, <1>11 DEF IInv

(* A job that raises, or may not start, leaves the tables alone.           *)
LEMMA AbortStep ==
  ASSUME IInv, NEW k \in Jobs, Abort(k)
  PROVE  IInv' /\ UNCHANGED <<runs, items>>
         /\ \A l \in Jobs : job'[l].version = job[l].version
         /\ \A m \in Jobs : job'[m].step \in {"flush", "employees"} => job[m].step \in {"flush", "employees"}
<1> DEFINE q == [Waiting(job[k].version) EXCEPT !.step = "done", !.committed = job[k].committed]
<1>1. job[k].version \in Versions /\ job[k].committed \in BOOLEAN
  BY DEF IInv, TypeOK, Job
<1>2. /\ q \in Job /\ q.version = job[k].version /\ q.step = "done"
      /\ q.deletes = {} /\ q.inserts = {} /\ ~q.creates
  BY <1>1 DEF Waiting, Job, Run, PeriodStatuses
<1>3. /\ job' = [job EXCEPT ![k] = q] /\ UNCHANGED <<period, runs, items, gross>>
      /\ torn' \subseteq Jobs
  BY DEF Abort, IInv, TypeOK
<1>. HIDE DEF q
<1>4. IInv'
  BY <1>2, <1>3, JobStep DEF IInv, TypeOK
<1>5. \A l \in Jobs : job'[l] = IF l = k THEN q ELSE job[l]
  BY <1>3 DEF IInv, TypeOK
<1>. QED
  BY <1>2, <1>3, <1>4, <1>5

(* A run that is not being computed keeps its row unless a step locks it,  *)
(* and its items.                                                          *)
Kept ==
  \A v \in Versions : (runs[v] # NoRun /\ runs[v].status = "LOCKED" /\ ~InFlight(v)) =>
    runs'[v] = runs[v] /\ ItemsOf(v)' = ItemsOf(v) /\ ~InFlight(v)'

(* Versions other than the one its job computes are kept by a step of it,  *)
(* and a version it is computing is in flight.                             *)
LEMMA KeptByOthers ==
  ASSUME IInv, IInv', NEW k \in Jobs, OthersKept(job[k].version), At(k, "flush") \/ At(k, "employees"),
         NEW q \in Job, job' = [job EXCEPT ![k] = q], q.version = job[k].version
  PROVE  Kept
<1>1. \A l \in Jobs : job'[l] = IF l = k THEN q ELSE job[l]
  BY DEF IInv, TypeOK
<1>2. InFlight(job[k].version)
  BY DEF InFlight, UnderWay, At
<1>3. ASSUME NEW v \in Versions, v # job[k].version
      PROVE  runs'[v] = runs[v] /\ ItemsOf(v)' = ItemsOf(v) /\ (~InFlight(v) => ~InFlight(v)')
  <2>1. items \subseteq Item /\ items' \subseteq Item
    BY DEF IInv, TypeOK
  <2>2. ItemsOf(v)' = ItemsOf(v)
    BY <1>3, <2>1 DEF OthersKept, ItemsOf
  <2>3. ~InFlight(v) => ~InFlight(v)'
    BY <1>1, <1>3 DEF InFlight, UnderWay
  <2>. QED
    BY <1>3, <2>2, <2>3 DEF OthersKept
<1>. QED
  BY <1>2, <1>3 DEF Kept

(* A step that leaves runs and items alone keeps every locked run, if it   *)
(* sets no job to work on one.                                             *)
LEMMA KeptAtRest ==
  ASSUME IInv, UNCHANGED <<runs, items>>,
         \A l \in Jobs : job'[l].version = job[l].version,
         \A l \in Jobs : job'[l].step \in {"flush", "employees"} =>
           \/ job[l].step \in {"flush", "employees"}
           \/ ~(runs[job[l].version] # NoRun /\ runs[job[l].version].status = "LOCKED")
  PROVE  Kept
<1>1. \A v \in Versions : ItemsOf(v)' = ItemsOf(v)
  BY DEF ItemsOf
<1>. QED
  BY <1>1 DEF Kept, InFlight, UnderWay

-----------------------------------------------------------------------------
LEMMA StartStep ==
  ASSUME IInv, NEW k \in Jobs, Start(k)
  PROVE  IInv' /\ Kept
<1> DEFINE v == job[k].version
           seen == {t \in torn : job[t].version = v}
           under == UnderWay(v)
           behind == {l \in UnderWay(v) : job[l].committed}
           q == [job[k] EXCEPT !.step = "flush", !.creates = (runs[v] = NoRun), !.deletes = StaleItems(v),
                               !.run = runs[v], !.period = period, !.heals = seen,
                               !.met = under, !.behind = behind]
<1>1. /\ job[k] \in Job /\ v \in Versions /\ job[k].step = "waiting" /\ job[k].inserts = {}
      /\ runs[v] \in Run \cup {NoRun} /\ period \in PeriodStatuses /\ torn \subseteq Jobs
  BY DEF IInv, TypeOK, Job, Start, At, IdleWritesNothing
<1>2. StaleItems(v) \subseteq Item /\ \A i \in StaleItems(v) : i.version = v
  BY DEF IInv, TypeOK, StaleItems, ItemsOf
<1>0. seen \subseteq Jobs /\ under \subseteq Jobs /\ behind \subseteq Jobs
  BY <1>1 DEF UnderWay
<1>8. job' = [job EXCEPT ![k] = q]
  BY DEF Start
<1>. HIDE DEF seen, under, behind
<1>3. /\ q \in Job /\ q.version = v /\ q.step = "flush" /\ q.deletes = StaleItems(v) /\ q.inserts = {}
      /\ q.creates = (runs[v] = NoRun) /\ q.run = runs[v]
  BY <1>0, <1>1, <1>2 DEF Job
<1>4. job' = [job EXCEPT ![k] = q] /\ UNCHANGED <<period, runs, items, gross, torn>>
  BY <1>8 DEF Start
<1>. HIDE DEF q
<1>5. IInv'
  BY ZenonT(40), <1>1, <1>2, <1>3, <1>4, JobStep
<1>6. \A l \in Jobs : job'[l] = IF l = k THEN q ELSE job[l]
  BY <1>4 DEF IInv, TypeOK
<1>7. Kept
  BY <1>3, <1>4, <1>6, KeptAtRest DEF Start, MayStart
<1>. QED
  BY <1>5, <1>7

LEMMA FlushStep ==
  ASSUME IInv, NEW k \in Jobs, Flush(k)
  PROVE  IInv' /\ Kept
<1> DEFINE q == [job[k] EXCEPT !.step = "employees", !.left = Employees]
<1>1. job[k] \in Job /\ job[k].step = "flush"
  BY DEF IInv, TypeOK, Flush, At
<1>2. /\ q \in Job /\ q.step = "employees" /\ q.version = job[k].version /\ q.deletes = job[k].deletes
      /\ q.inserts = job[k].inserts /\ q.creates = job[k].creates /\ q.run = job[k].run
  BY <1>1 DEF Job
<1>3. job' = [job EXCEPT ![k] = q] /\ UNCHANGED <<period, runs, items, gross, torn>>
  BY DEF Flush
<1>. HIDE DEF q
<1>4. /\ \A i \in q.deletes \cup q.inserts : i.version = q.version
      /\ \A i, j \in q.inserts : i = j
      /\ ~q.creates => q.run \in Run /\ runs[q.version] \in Run
  BY <1>1, <1>2 DEF IInv, WritesOwnVersion, OneItemHeld, RunExists
<1>5. IInv'
  BY <1>1, <1>2, <1>3, <1>4, JobStep DEF IInv, TypeOK
<1>6. \A l \in Jobs : job'[l] = IF l = k THEN q ELSE job[l]
  BY <1>3 DEF IInv, TypeOK
<1>7. Kept
  BY <1>1, <1>2, <1>3, <1>6, KeptAtRest
<1>. QED
  BY <1>5, <1>7

LEMMA SkipStep ==
  ASSUME IInv, NEW k \in Jobs, NEW e \in Employees, SkipEmployee(k, e)
  PROVE  IInv' /\ Kept
<1> DEFINE q == [job[k] EXCEPT !.left = job[k].left \ {e}, !.skipped = job[k].skipped \cup {e},
                               !.period = PeriodSeen(k)]
<1>1. job[k] \in Job /\ job[k].step = "employees" /\ period \in PeriodStatuses
  BY DEF IInv, TypeOK, SkipEmployee, At
<1>2. PeriodSeen(k) \in PeriodStatuses \cup {"EXPIRED"}
  BY <1>1 DEF PeriodSeen, Job
<1>3. /\ q \in Job /\ q.step = "employees" /\ q.version = job[k].version /\ q.deletes = job[k].deletes
      /\ q.inserts = job[k].inserts /\ q.creates = job[k].creates /\ q.run = job[k].run
  BY <1>1, <1>2 DEF Job
<1>4. job' = [job EXCEPT ![k] = q] /\ UNCHANGED <<period, runs, items, gross, torn>>
  BY DEF SkipEmployee
<1>. HIDE DEF q
<1>5. /\ \A i \in q.deletes \cup q.inserts : i.version = q.version
      /\ \A i, j \in q.inserts : i = j
      /\ ~q.creates => q.run \in Run /\ runs[q.version] \in Run
  BY <1>1, <1>3 DEF IInv, WritesOwnVersion, OneItemHeld, RunExists
<1>6. IInv'
  BY <1>1, <1>3, <1>4, <1>5, JobStep DEF IInv, TypeOK
<1>7. \A l \in Jobs : job'[l] = IF l = k THEN q ELSE job[l]
  BY <1>4 DEF IInv, TypeOK
<1>8. Kept
  BY <1>1, <1>3, <1>4, <1>7, KeptAtRest
<1>. QED
  BY <1>6, <1>8

LEMMA CalculateStep ==
  ASSUME IInv, NEW k \in Jobs, NEW e \in Employees, CalculateEmployee(k, e)
  PROVE  IInv' /\ Kept
<1> DEFINE v == job[k].version
           row == IF job[k].creates THEN Prepared ELSE runs[v]
           n == job[k].total + gross[e]
           q == [job[k] EXCEPT !.creates = FALSE, !.deletes = {}, !.inserts = {NewItem(k, e)},
                               !.left = job[k].left \ {e}, !.total = n, !.run = row,
                               !.period = "EXPIRED", !.committed = TRUE]
<1>1. /\ job[k] \in Job /\ job[k].step = "employees" /\ v \in Versions
      /\ gross[e] \in Nat /\ n \in Nat
  BY GrossesAssumption DEF IInv, TypeOK, Job, CalculateEmployee, At
<1>2. row \in Run
  BY <1>1 DEF IInv, RunExists, Prepared, Run
<1>3. runs' = [runs EXCEPT ![v] = row] /\ runs'[v] = row
  <2>1. CASE job[k].creates
    BY <2>1, <1>1 DEF CalculateEmployee, IInv, TypeOK
  <2>2. CASE ~job[k].creates
    BY <2>2, <1>1 DEF CalculateEmployee, IInv, TypeOK
  <2>. QED
    BY <2>1, <2>2
<1>4. NewItem(k, e) \in Item /\ NewItem(k, e).version = v
  BY <1>1 DEF NewItem, Item
<1>5. job' = [job EXCEPT ![k] = q]
  BY <1>3 DEF CalculateEmployee
<1>. HIDE DEF n, row
<1>6. /\ q \in Job /\ q.version = v /\ q.step = "employees" /\ q.deletes = {} /\ ~q.creates
      /\ q.inserts = {NewItem(k, e)} /\ q.run = row
  BY <1>1, <1>2, <1>4 DEF Job
<1>7. Commit(k) /\ UNCHANGED <<period, gross, torn>>
  BY DEF CalculateEmployee
<1>. HIDE DEF q
<1>8. IInv' /\ OthersKept(v)
  BY <1>2, <1>3, <1>4, <1>5, <1>6, <1>7, CommitStep DEF IInv, TypeOK
<1>9. Kept
  BY <1>1, <1>5, <1>6, <1>8, KeptByOthers DEF At
<1>. QED
  BY <1>8, <1>9

LEMMA FinishStep ==
  ASSUME IInv, NEW k \in Jobs, Finish(k)
  PROVE  IInv' /\ Kept
<1> DEFINE v == job[k].version
           q == [Waiting(v) EXCEPT !.step = "done", !.committed = TRUE]
<1>1. job[k] \in Job /\ job[k].step = "employees" /\ v \in Versions /\ job[k].total \in Nat
  BY DEF IInv, TypeOK, Job, Finish, At
<1>2. Updated(k) \in Run
  BY <1>1 DEF Updated, Total, Run, IInv, RunExists
<1>3. /\ q \in Job /\ q.version = v /\ q.step = "done" /\ q.deletes = {} /\ q.inserts = {} /\ ~q.creates
  BY <1>1 DEF Waiting, Job, Run, PeriodStatuses
<1>4. /\ job' = [job EXCEPT ![k] = q] /\ Commit(k) /\ runs' = [runs EXCEPT ![v] = Updated(k)]
      /\ UNCHANGED gross /\ period' \in PeriodStatuses /\ torn' \subseteq Jobs
  BY DEF Finish, IInv, TypeOK, PeriodStatuses
<1>. HIDE DEF q
<1>5. IInv' /\ OthersKept(v)
  BY <1>2, <1>3, <1>4, CommitStep
<1>6. Kept
  BY <1>1, <1>3, <1>4, <1>5, KeptByOthers DEF At
<1>. QED
  BY <1>5, <1>6

(* What the people around the service do.                                  *)
LEMMA EnvironmentStep ==
  ASSUME IInv, Environment
  PROVE  IInv' /\ Kept
<1>1. ASSUME NEW s \in PeriodStatuses, SetPeriod(s)
      PROVE  IInv' /\ Kept
  <2>1. IInv'
    BY <1>1 DEF SetPeriod, IInv, TypeOK, WritesOwnVersion, OneItemHeld, IdleWritesNothing, RunExists, PaidOnce
  <2>. QED
    BY <2>1, <1>1, KeptAtRest DEF SetPeriod
<1>2. ASSUME NEW e \in Employees, NEW g \in Grosses, Revise(e, g)
      PROVE  IInv' /\ Kept
  <2>1. IInv'
    BY <1>2 DEF Revise, IInv, TypeOK, WritesOwnVersion, OneItemHeld, IdleWritesNothing, RunExists, PaidOnce
  <2>. QED
    BY <2>1, <1>2, KeptAtRest DEF Revise
<1>3. ASSUME NEW v \in Versions, LockRun(v)
      PROVE  IInv' /\ Kept
  <2> DEFINE row == [runs[v] EXCEPT !.status = "LOCKED"]
  <2>1. runs[v] \in Run /\ runs[v].status = "CALCULATED" /\ runs' = [runs EXCEPT ![v] = row]
    BY <1>3 DEF LockRun, IInv, TypeOK
  <2>2. row \in Run
    BY <2>1 DEF Run
  <2>. HIDE DEF row
  <2>3. /\ runs' \in [Versions -> Run \cup {NoRun}]
        /\ \A w \in Versions : runs'[w] = IF w = v THEN row ELSE runs[w]
    BY <2>1, <2>2 DEF IInv, TypeOK
  <2>4. UNCHANGED <<period, items, gross, job, torn>>
    BY <1>3 DEF LockRun
  <2>5. TypeOK'
    BY <2>3, <2>4 DEF IInv, TypeOK
  <2>6. RunExists'
    BY <2>2, <2>3, <2>4 DEF IInv, TypeOK, Job, RunExists
  <2>7. WritesOwnVersion' /\ OneItemHeld' /\ IdleWritesNothing' /\ PaidOnce'
    BY <2>4 DEF IInv, WritesOwnVersion, OneItemHeld, IdleWritesNothing, PaidOnce
  <2>8. Kept
    BY <2>1, <2>3, <2>4 DEF Kept, InFlight, UnderWay, ItemsOf
  <2>. QED
    BY <2>5, <2>6, <2>7, <2>8 DEF IInv
<1>. QED
  BY <1>1, <1>2, <1>3 DEF Environment, PeriodStatuses

LEMMA NextInv == IInv /\ [Next]_vars => IInv' /\ Kept
<1> SUFFICES ASSUME IInv, [Next]_vars PROVE IInv' /\ Kept
  OBVIOUS
<1>1. CASE UNCHANGED vars
  <2>1. IInv'
    BY <1>1 DEF vars, IInv, TypeOK, WritesOwnVersion, OneItemHeld, IdleWritesNothing, RunExists, PaidOnce
  <2>. QED
    BY <2>1, <1>1, KeptAtRest DEF vars
<1>2. ASSUME NEW k \in Jobs, Abort(k) PROVE IInv' /\ Kept
  BY <1>2, AbortStep, KeptAtRest
<1>3. ASSUME NEW k \in Jobs, Start(k) \/ Refuse(k) \/ Step(k) PROVE IInv' /\ Kept
  BY <1>2, <1>3, StartStep, FlushStep, SkipStep, CalculateStep, FinishStep
     DEF Step, Refuse, FlushRefused, EmployeeFails, FinishFails
<1>. QED
  BY <1>1, <1>3, EnvironmentStep DEF Next

-----------------------------------------------------------------------------
(* The inductive invariant holds in every state of the jobs'               *)
(* interleavings; with it, every variable keeps its type.                  *)
THEOREM InvariantHolds == Spec => []IInv
<1>1. IInv /\ [Next]_vars => IInv'
  BY NextInv
<1>. QED
  BY InitInv, <1>1, PTL DEF Spec

(* An employee has one item per run, however many jobs calculate the run   *)
(* at once and wherever they fail: what the unique constraint on           *)
(* payroll_run_items and the one pending item per session come to.         *)
THEOREM EmployeesPaidOnce == Spec => []PaidOnce
<1>1. IInv => PaidOnce
  BY DEF IInv
<1>. QED
  BY InvariantHolds, <1>1, PTL

(* calculate_payroll_run turns away a locked run, so that one locked while *)
(* no job was computing it never changes again.                            *)
THEOREM LockedRunsFinal == Spec => LockedRunFinal
<1>1. IInv /\ [Next]_vars => [Kept]_vars
  BY NextInv
<1>2. [][Kept]_vars => LockedRunFinal
  BY PTL DEF Kept, LockedRunFinal
<1>. QED
  BY InvariantHolds, <1>1, <1>2, PTL DEF Spec

-----------------------------------------------------------------------------
(* What the steps of a job do to it; Others: and to no other one.          *)
Others(k) == \A l \in Jobs : l # k => job'[l] = job[l]

LEMMA StartEffect ==
  ASSUME IInv, NEW k \in Jobs, Start(k)
  PROVE  /\ job[k].step = "waiting" /\ Others(k)
         /\ job'[k].step = "flush" /\ job'[k].version = job[k].version
         /\ job'[k].creates = (runs[job[k].version] = NoRun) /\ job'[k].deletes = ItemsOf(job[k].version)
         /\ job'[k].inserts = job[k].inserts /\ job'[k].left = job[k].left /\ job'[k].total = job[k].total
         /\ job'[k].run = runs[job[k].version] /\ job'[k].committed = job[k].committed
         /\ job'[k].skipped = job[k].skipped
         /\ job'[k].heals = {t \in torn : job[t].version = job[k].version}
         /\ job'[k].met = UnderWay(job[k].version)
         /\ job'[k].behind = {l \in UnderWay(job[k].version) : job[l].committed}
         /\ UNCHANGED <<runs, items, gross, torn>>
<1>1. job \in [Jobs -> Job] /\ job[k] \in Job
  BY DEF IInv, TypeOK
<1>. QED
  BY <1>1 DEF Start, At, StaleItems, Others, Job

LEMMA FlushEffect ==
  ASSUME IInv, NEW k \in Jobs, Flush(k)
  PROVE  /\ job[k].step = "flush" /\ Others(k)
         /\ job'[k].step = "employees" /\ job'[k].left = Employees
         /\ job'[k].version = job[k].version /\ job'[k].creates = job[k].creates
         /\ job'[k].deletes = job[k].deletes /\ job'[k].inserts = job[k].inserts
         /\ job'[k].total = job[k].total /\ job'[k].run = job[k].run
         /\ job'[k].committed = job[k].committed /\ job'[k].skipped = job[k].skipped
         /\ job'[k].heals = job[k].heals /\ job'[k].met = job[k].met /\ job'[k].behind = job[k].behind
         /\ UNCHANGED <<runs, items, gross, torn>>
         /\ job[k].creates => runs[job[k].version] = NoRun
         /\ job[k].creates => \A l \in Jobs :
              At(l, "employees") /\ job[l].creates /\ job[l].version = job[k].version => l = k
<1>1. job \in [Jobs -> Job] /\ job[k] \in Job
  BY DEF IInv, TypeOK
<1>. QED
  BY <1>1 DEF Flush, At, Blocks, Others, Job

LEMMA SkipEffect ==
  ASSUME IInv, NEW k \in Jobs, NEW e \in Employees, SkipEmployee(k, e)
  PROVE  /\ job[k].step = "employees" /\ Others(k) /\ e \in job[k].left /\ gross[e] = 0
         /\ job'[k].step = "employees"
         /\ job'[k].left = job[k].left \ {e} /\ job'[k].skipped = job[k].skipped \cup {e}
         /\ job'[k].version = job[k].version /\ job'[k].creates = job[k].creates
         /\ job'[k].deletes = job[k].deletes /\ job'[k].inserts = job[k].inserts
         /\ job'[k].total = job[k].total /\ job'[k].run = job[k].run
         /\ job'[k].committed = job[k].committed
         /\ job'[k].heals = job[k].heals /\ job'[k].met = job[k].met /\ job'[k].behind = job[k].behind
         /\ UNCHANGED <<runs, items, gross, torn>>
<1>1. job \in [Jobs -> Job] /\ job[k] \in Job
  BY DEF IInv, TypeOK
<1>. QED
  BY <1>1 DEF SkipEmployee, At, Others, Job

LEMMA CalculateEffect ==
  ASSUME IInv, NEW k \in Jobs, NEW e \in Employees, CalculateEmployee(k, e)
  PROVE  /\ job[k].step = "employees" /\ Others(k) /\ e \in job[k].left /\ gross[e] > 0
         /\ job'[k].step = "employees"
         /\ job'[k].left = job[k].left \ {e} /\ job'[k].skipped = job[k].skipped
         /\ job'[k].version = job[k].version /\ ~job'[k].creates
         /\ job'[k].deletes = {} /\ job'[k].inserts = {NewItem(k, e)}
         /\ job'[k].total = job[k].total + gross[e] /\ job'[k].run = runs'[job[k].version]
         /\ job'[k].committed
         /\ job'[k].heals = job[k].heals /\ job'[k].met = job[k].met /\ job'[k].behind = job[k].behind
         /\ ~Clashes(k) /\ items' = (items \ job[k].deletes) \cup job[k].inserts
         /\ runs' = IF job[k].creates THEN [runs EXCEPT ![job[k].version] = Prepared] ELSE runs
         /\ UNCHANGED <<gross, torn>>
<1>1. job \in [Jobs -> Job] /\ job[k] \in Job
  BY DEF IInv, TypeOK
<1>. QED
  BY <1>1 DEF CalculateEmployee, Commit, At, Others, Job

LEMMA FinishEffect ==
  ASSUME IInv, NEW k \in Jobs, Finish(k)
  PROVE  /\ job[k].step = "employees" /\ Others(k) /\ job[k].left = {}
         /\ job'[k].step = "done" /\ job'[k].version = job[k].version
         /\ job'[k].inserts = {} /\ job'[k].deletes = {}
         /\ ~Clashes(k) /\ items' = (items \ job[k].deletes) \cup job[k].inserts
         /\ runs' = [runs EXCEPT ![job[k].version] = Updated(k)]
         /\ torn' = (torn \ job[k].heals) \cup (IF Overlooks(k) THEN {k} ELSE {})
         /\ UNCHANGED gross
<1>1. job \in [Jobs -> Job] /\ job[k] \in Job
  BY DEF IInv, TypeOK
<1>. QED
  BY <1>1 DEF Finish, Commit, At, Others, Job, Waiting

LEMMA AbortEffect ==
  ASSUME IInv, NEW k \in Jobs, Abort(k)
  PROVE  /\ Others(k) /\ job'[k].step = "done" /\ job'[k].version = job[k].version
         /\ job'[k].inserts = {} /\ job'[k].deletes = {}
         /\ torn' = torn \cup (IF job[k].committed THEN {k} ELSE {})
         /\ UNCHANGED <<runs, items, gross>>
<1>1. job \in [Jobs -> Job] /\ job[k] \in Job
  BY DEF IInv, TypeOK
<1>. QED
  BY <1>1 DEF Abort, Others, Job, Waiting
-----------------------------------------------------------------------------
(* Second layer: what the jobs under way have written, listed and met.     *)
LEMMA InitBook == Init => Book
<1> SUFFICES ASSUME Init PROVE Book
  OBVIOUS
<1>1. IInv
  BY InitInv
<1>2. \A k \in Jobs : \E v \in Versions : job[k] = Waiting(v)
  BY DEF Init
<1>3. \A k \in Jobs : /\ job[k].step = "waiting" /\ job[k].inserts = {} /\ job[k].deletes = {}
                      /\ job[k].left = {} /\ job[k].skipped = {} /\ job[k].total = 0 /\ ~job[k].committed
  <2>1. \A v \in Versions : /\ Waiting(v).step = "waiting" /\ Waiting(v).inserts = {} /\ Waiting(v).deletes = {}
                            /\ Waiting(v).left = {} /\ Waiting(v).skipped = {} /\ Waiting(v).total = 0
                            /\ ~Waiting(v).committed
    BY DEF Waiting
  <2>. QED
    BY <2>1, <1>2
<1>4. StagesKept /\ OneCreator /\ OwnItems /\ Deletions /\ PaidStaysPaid
  BY <1>3 DEF Init, StagesKept, OneCreator, OwnItems, Deletions, PaidStaysPaid, Busy, At
<1>5. OneBeforeOther /\ MetUnderWay /\ MetListed /\ MetTransitive
  BY <1>3 DEF OneBeforeOther, MetUnderWay, MetListed, MetTransitive, Busy, At
<1>6. TornEnded /\ SomebodyPaid
  BY <1>3 DEF Init, TornEnded, SomebodyPaid, Busy, At
<1>7. FiniteItems
  BY <1>3, FS_EmptySet DEF Init, FiniteItems
<1>. QED
  BY <1>1, <1>4, <1>5, <1>6, <1>7 DEF Book

LEMMA StartBook ==
  ASSUME Book, NEW k \in Jobs, Start(k)
  PROVE  Book'
<1> DEFINE v == job[k].version
<1>1. IInv /\ IInv'
  BY StartStep DEF Book
<1>2. /\ job[k].step = "waiting" /\ Others(k)
      /\ job'[k].step = "flush" /\ job'[k].version = v
      /\ job'[k].creates = (runs[v] = NoRun) /\ job'[k].deletes = ItemsOf(v)
      /\ job'[k].inserts = job[k].inserts /\ job'[k].left = job[k].left /\ job'[k].total = job[k].total
      /\ job'[k].run = runs[v] /\ job'[k].committed = job[k].committed
      /\ job'[k].skipped = job[k].skipped
      /\ job'[k].heals = {t \in torn : job[t].version = v}
      /\ job'[k].met = UnderWay(v)
      /\ job'[k].behind = {l \in UnderWay(v) : job[l].committed}
      /\ UNCHANGED <<runs, items, gross, torn>>
  BY <1>1, StartEffect
<1>3. \A l \in Jobs \ {k} : job'[l] = job[l]
  BY <1>2 DEF Others
<1>4. \A l \in Jobs : l \in UnderWay(v) <=> job[l].version = v /\ Busy(l)
  BY DEF UnderWay, Busy, At
<1>5. UnderWay(v) \subseteq Jobs /\ items \subseteq Item /\ v \in Versions
  BY <1>1 DEF UnderWay, IInv, TypeOK, Job
<1>6. StagesKept'
  BY <1>2, <1>3 DEF Book, StagesKept, At
<1>7. OneCreator'
  BY <1>2, <1>3 DEF Book, OneCreator, At
<1>8. OwnItems'
  BY <1>2, <1>3 DEF Book, OwnItems, StagesKept, PaidBy, At
<1>9. Deletions'
  <2>1. \A x \in Jobs \ {k} : Busy(x)' => \A i \in job'[x].deletes :
          /\ i.employee \notin job'[x].skipped
          /\ \A l \in Jobs : i.by = l /\ ~At(l, "done")' =>
               /\ l \in job'[x].behind /\ PaidBy(l, i.employee)'
               /\ \A h \in job'[l].inserts : h.employee # i.employee
    BY <1>2, <1>3 DEF Book, Deletions, PaidBy, Busy, At
  <2>2. \A i \in job'[k].deletes :
          /\ i.employee \notin job'[k].skipped
          /\ \A l \in Jobs : i.by = l /\ ~At(l, "done")' =>
               /\ l \in job'[k].behind /\ PaidBy(l, i.employee)'
               /\ \A h \in job'[l].inserts : h.employee # i.employee
    <3> SUFFICES ASSUME NEW i \in items, i.version = v, NEW l \in Jobs, i.by = l, ~At(l, "done")'
                 PROVE  /\ l \in job'[k].behind /\ PaidBy(l, i.employee)'
                        /\ \A h \in job'[l].inserts : h.employee # i.employee
      BY <1>2 DEF Book, StagesKept, ItemsOf, At
    <3>1. l # k /\ ~At(l, "done")
      BY <1>2, <1>3 DEF Book, OwnItems, PaidBy, At
    <3>2. /\ PaidBy(l, i.employee) /\ job[l].version = v
          /\ \A h \in job[l].inserts : h.employee # i.employee
      BY <3>1 DEF Book, OwnItems
    <3>3. job[l].committed
      BY <3>2 DEF Book, StagesKept, PaidBy
    <3>. QED
      BY <3>1, <3>2, <3>3, <1>2, <1>3, <1>4 DEF PaidBy, At, Busy
  <2>. QED
    BY <2>1, <2>2 DEF Deletions
<1>10. PaidStaysPaid'
  BY <1>2, <1>3 DEF Book, PaidStaysPaid, ItemsOf
<1>11. OneBeforeOther'
  BY <1>2, <1>3, <1>4 DEF Book, OneBeforeOther, Busy, At
<1>18. \A q \in Jobs : Busy(q) => k \notin job[q].met /\ k \notin job[q].behind /\ q # k
  BY <1>2 DEF Book, MetUnderWay, Busy, At
<1>19. \A l \in Jobs : At(l, "waiting")' => At(l, "waiting")
  BY <1>2, <1>3 DEF At
<1>20. \A l \in Jobs : l # k => (Busy(l)' <=> Busy(l))
  BY <1>2, <1>3 DEF Busy, At
<1>12. MetUnderWay'
  <2>1. \A q \in Jobs \ {k} : job'[q].met = job[q].met /\ job'[q].behind = job[q].behind /\ job'[q].version = job[q].version
    BY <1>3
  <2>2. \A q \in Jobs : job'[q].committed = job[q].committed /\ job'[q].version = job[q].version
    BY <1>2, <1>3
  <2>3. \A l \in Jobs : Busy(l) => ~At(l, "waiting")
    BY DEF Busy, At
  <2>. QED
    BY <2>1, <2>2, <2>3, <1>2, <1>4, <1>18, <1>19, <1>20 DEF Book, MetUnderWay
<1>13. MetListed'
  <2>1. \A l \in Jobs : \A i \in job[l].deletes : i.version = job[l].version
    BY <1>1 DEF IInv, WritesOwnVersion
  <2>. QED
    BY <2>1, <1>2, <1>3, <1>4, <1>18, <1>20 DEF Book, MetListed, ItemsOf
<1>14. MetTransitive'
  <2>1. \A l, q \in Jobs : Busy(q) =>
          /\ l \in job[q].met => job[l].version = job[q].version
          /\ l \in job[q].behind => l \in job[q].met /\ job[l].committed
    BY DEF Book, MetUnderWay
  <2>. QED
    BY <2>1, <1>2, <1>3, <1>4, <1>18, <1>20 DEF Book, MetTransitive
<1>15. TornEnded'
  <2>1. \A t \in torn : t \in Jobs /\ t # k /\ At(t, "done")
    BY <1>1, <1>2 DEF Book, TornEnded, IInv, TypeOK, At
  <2>2. \A x \in Jobs : job[x].heals \subseteq Jobs
    BY <1>1 DEF IInv, TypeOK, Job
  <2>. QED
    BY <2>1, <2>2, <1>2, <1>3, <1>20 DEF Book, TornEnded, At
<1>16. SomebodyPaid'
  BY <1>2, <1>3, <1>5 DEF Book, SomebodyPaid, PaysSomebody, StagesKept, Busy, At
<1>17. FiniteItems'
  BY <1>2, <1>3 DEF Book, FiniteItems
<1>. QED
  BY <1>1, <1>6, <1>7, <1>8, <1>9, <1>10, <1>11, <1>12, <1>13, <1>14, <1>15, <1>16, <1>17 DEF Book

LEMMA FlushBook ==
  ASSUME Book, NEW k \in Jobs, Flush(k)
  PROVE  Book'
<1>1. IInv /\ IInv'
  BY FlushStep DEF Book
<1>2. /\ job[k].step = "flush" /\ Others(k)
      /\ job'[k].step = "employees" /\ job'[k].left = Employees
      /\ job'[k].version = job[k].version /\ job'[k].creates = job[k].creates
      /\ job'[k].deletes = job[k].deletes /\ job'[k].inserts = job[k].inserts
      /\ job'[k].total = job[k].total /\ job'[k].run = job[k].run
      /\ job'[k].committed = job[k].committed /\ job'[k].skipped = job[k].skipped
      /\ job'[k].heals = job[k].heals /\ job'[k].met = job[k].met /\ job'[k].behind = job[k].behind
      /\ UNCHANGED <<runs, items, gross, torn>>
      /\ job[k].creates => runs[job[k].version] = NoRun
      /\ job[k].creates => \A l \in Jobs :
           At(l, "employees") /\ job[l].creates /\ job[l].version = job[k].version => l = k
  BY <1>1, FlushEffect
<1>3. \A l \in Jobs \ {k} : job'[l] = job[l]
  BY <1>2 DEF Others
<1>4. /\ \A l \in Jobs : Busy(l)' <=> Busy(l)
      /\ \A l \in Jobs : At(l, "done")' <=> At(l, "done")
      /\ \A l \in Jobs : At(l, "waiting")' <=> At(l, "waiting")
  BY <1>2, <1>3 DEF Busy, At
<1>5. /\ \A l \in Jobs : job'[l].deletes = job[l].deletes /\ job'[l].inserts = job[l].inserts
      /\ \A l \in Jobs : job'[l].skipped = job[l].skipped /\ job'[l].version = job[l].version
      /\ \A l \in Jobs : job'[l].met = job[l].met /\ job'[l].behind = job[l].behind
      /\ \A l \in Jobs : job'[l].heals = job[l].heals /\ job'[l].committed = job[l].committed
      /\ \A l \in Jobs : job'[l].run = job[l].run
  BY <1>2, <1>3
<1>6. StagesKept'
  BY <1>2, <1>3 DEF Book, StagesKept, At
<1>7. OneCreator'
  BY <1>2, <1>3 DEF Book, OneCreator, At
<1>8. \A l \in Jobs : \A e : PaidBy(l, e)' <=> PaidBy(l, e)
  BY <1>2, <1>3 DEF PaidBy, At
<1>9. OwnItems'
  BY <1>2, <1>4, <1>5, <1>8 DEF Book, OwnItems
<1>10. Deletions'
  BY <1>2, <1>4, <1>5, <1>8 DEF Book, Deletions
<1>11. PaidStaysPaid' /\ FiniteItems'
  BY <1>2, <1>5 DEF Book, PaidStaysPaid, FiniteItems
<1>12. OneBeforeOther' /\ MetUnderWay' /\ MetListed'
  BY <1>2, <1>4, <1>5 DEF Book, OneBeforeOther, MetUnderWay, MetListed
<1>13. MetTransitive'
  BY <1>2, <1>4, <1>5 DEF Book, MetTransitive
<1>14. TornEnded'
  <2>1. \A x \in Jobs : job[x].heals \subseteq Jobs /\ torn \subseteq Jobs
    BY <1>1 DEF IInv, TypeOK, Job
  <2>. QED
    BY <2>1, <1>2, <1>4, <1>5 DEF Book, TornEnded
<1>15. SomebodyPaid'
  BY <1>2, <1>4, <1>5 DEF Book, SomebodyPaid, PaysSomebody
<1>. QED
  BY <1>1, <1>6, <1>7, <1>9, <1>10, <1>11, <1>12, <1>13, <1>14, <1>15 DEF Book

LEMMA SkipBook ==
  ASSUME Book, NEW k \in Jobs, NEW e \in Employees, SkipEmployee(k, e)
  PROVE  Book'
<1>1. IInv /\ IInv'
  BY SkipStep DEF Book
<1>2. /\ job[k].step = "employees" /\ Others(k) /\ e \in job[k].left /\ gross[e] = 0
      /\ job'[k].step = "employees"
      /\ job'[k].left = job[k].left \ {e} /\ job'[k].skipped = job[k].skipped \cup {e}
      /\ job'[k].version = job[k].version /\ job'[k].creates = job[k].creates
      /\ job'[k].deletes = job[k].deletes /\ job'[k].inserts = job[k].inserts
      /\ job'[k].total = job[k].total /\ job'[k].run = job[k].run
      /\ job'[k].committed = job[k].committed
      /\ job'[k].heals = job[k].heals /\ job'[k].met = job[k].met /\ job'[k].behind = job[k].behind
      /\ UNCHANGED <<runs, items, gross, torn>>
  BY <1>1, SkipEffect
<1>3. \A l \in Jobs \ {k} : job'[l] = job[l]
  BY <1>2 DEF Others
<1>4. \A l \in Jobs : job'[l].step = job[l].step
  BY <1>2, <1>3
<1>5. /\ \A l \in Jobs : job'[l].deletes = job[l].deletes /\ job'[l].inserts = job[l].inserts
      /\ \A l \in Jobs : job'[l].version = job[l].version /\ job'[l].creates = job[l].creates
      /\ \A l \in Jobs : job'[l].met = job[l].met /\ job'[l].behind = job[l].behind
      /\ \A l \in Jobs : job'[l].heals = job[l].heals /\ job'[l].committed = job[l].committed
      /\ \A l \in Jobs : job'[l].run = job[l].run
  BY <1>2, <1>3
<1>6. StagesKept'
  BY <1>2, <1>3 DEF Book, StagesKept, At
<1>7. OneCreator'
  BY <1>2, <1>4, <1>5 DEF Book, OneCreator, At
<1>8. \A l \in Jobs : \A d : PaidBy(l, d)' <=> PaidBy(l, d)
  BY <1>2, <1>3 DEF PaidBy, At
<1>9. OwnItems'
  BY <1>2, <1>4, <1>5, <1>8 DEF Book, OwnItems, At
<1>10. \A l \in Jobs : \A i \in job[l].deletes : i.employee # e
  <2>1. gross[e] = 0 /\ \A l \in Jobs : \A i \in job[l].deletes : gross[i.employee] > 0
    BY <1>2 DEF Book, PaidStaysPaid
  <2>. QED
    BY <2>1
<1>11. Deletions'
  <2>1. \A l \in Jobs : \A i \in job[l].deletes : i.employee \in job'[l].skipped => i.employee \in job[l].skipped
    BY <1>2, <1>3, <1>10
  <2>. QED
    BY <2>1, <1>2, <1>4, <1>5, <1>8 DEF Book, Deletions, Busy, At
<1>12. PaidStaysPaid' /\ FiniteItems'
  BY <1>2, <1>5 DEF Book, PaidStaysPaid, FiniteItems
<1>13. OneBeforeOther' /\ MetUnderWay' /\ MetListed'
  BY <1>2, <1>4, <1>5 DEF Book, OneBeforeOther, MetUnderWay, MetListed, Busy, At
<1>14. MetTransitive'
  BY <1>2, <1>4, <1>5 DEF Book, MetTransitive, Busy, At
<1>15. TornEnded'
  <2>1. \A x \in Jobs : job[x].heals \subseteq Jobs /\ torn \subseteq Jobs
    BY <1>1 DEF IInv, TypeOK, Job
  <2>. QED
    BY <2>1, <1>2, <1>4, <1>5 DEF Book, TornEnded, Busy, At
<1>16. SomebodyPaid'
  <2>1. gross[e] = 0 /\ \A l \in Jobs : PaysSomebody(l) => PaysSomebody(l)'
    BY <1>2, <1>3 DEF PaysSomebody
  <2>. QED
    BY <2>1, <1>2, <1>4, <1>5 DEF Book, SomebodyPaid, Busy, At
<1>. QED
  BY <1>1, <1>6, <1>7, <1>9, <1>11, <1>12, <1>13, <1>14, <1>15, <1>16 DEF Book

LEMMA AbortBook ==
  ASSUME Book, NEW k \in Jobs, Abort(k), ~At(k, "done")
  PROVE  Book'
<1>1. IInv /\ IInv'
  BY AbortStep DEF Book
<1>2. /\ Others(k) /\ job'[k].step = "done" /\ job'[k].version = job[k].version
      /\ job'[k].inserts = {} /\ job'[k].deletes = {}
      /\ torn' = torn \cup (IF job[k].committed THEN {k} ELSE {})
      /\ UNCHANGED <<runs, items, gross>>
  BY <1>1, AbortEffect
<1>0. job'[k].committed = job[k].committed
  <2>1. job \in [Jobs -> Job] /\ job[k] \in Job
    BY <1>1 DEF IInv, TypeOK
  <2>. QED
    BY <2>1 DEF Abort, Job, Waiting
<1>3. \A l \in Jobs \ {k} : job'[l] = job[l]
  BY <1>2 DEF Others
<1>4. \A l \in Jobs : Busy(l)' <=> Busy(l) /\ l # k
  BY <1>2, <1>3 DEF Busy, At
<1>5. StagesKept'
  BY <1>2, <1>3 DEF Book, StagesKept, At
<1>6. OneCreator'
  BY <1>2, <1>3 DEF Book, OneCreator, At
<1>7. OwnItems'
  BY <1>2, <1>3 DEF Book, OwnItems, PaidBy, At
<1>8. Deletions'
  BY <1>2, <1>3 DEF Book, Deletions, PaidBy, Busy, At
<1>9. PaidStaysPaid'
  BY <1>2, <1>3 DEF Book, PaidStaysPaid
<1>10. FiniteItems'
  BY <1>2, <1>3, FS_EmptySet DEF Book, FiniteItems
<1>11. OneBeforeOther' /\ MetListed' /\ MetTransitive'
  BY <1>2, <1>3, <1>4 DEF Book, OneBeforeOther, MetListed, MetTransitive
<1>12. MetUnderWay'
  BY <1>0, <1>2, <1>3, <1>4 DEF Book, MetUnderWay, At
<1>13. TornEnded'
  <2>1. \A x \in Jobs : job[x].heals \subseteq Jobs /\ torn \subseteq Jobs
    BY <1>1 DEF IInv, TypeOK, Job
  <2>. QED
    BY <2>1, <1>2, <1>3, <1>4 DEF Book, TornEnded, At
<1>14. SomebodyPaid'
  <2>1. job[k].committed => \E e \in Employees : gross[e] > 0
    <3> SUFFICES ASSUME job[k].committed PROVE \E e \in Employees : gross[e] > 0
      OBVIOUS
    <3>1. job[k].step = "employees"
      BY <1>1 DEF Book, StagesKept, At, IInv, TypeOK, Job
    <3>2. PICK i \in job[k].inserts : TRUE
      BY <3>1 DEF Book, StagesKept, At
    <3>. QED
      BY <3>2 DEF Book, OwnItems, PaidBy, PaidStaysPaid
  <2>. QED
    BY <2>1, <1>2, <1>3, <1>4 DEF Book, SomebodyPaid, PaysSomebody
<1>. QED
  BY <1>1, <1>5, <1>6, <1>7, <1>8, <1>9, <1>10, <1>11, <1>12, <1>13, <1>14 DEF Book

(* A row just inserted is new: nobody has listed it for deletion.          *)
LEMMA CommittedIsNew ==
  ASSUME Book, NEW k \in Jobs, job[k].step = "employees", NEW i \in job[k].inserts
  PROVE  /\ i \in Item /\ i.by = k /\ i.version = job[k].version /\ i \notin items
         /\ \A x \in Jobs : Busy(x) => i \notin job[x].deletes
<1>1. i \in Item /\ i.by = k /\ i.version = job[k].version
  BY DEF Book, IInv, TypeOK, Job, OwnItems, WritesOwnVersion
<1>2. i \notin items
  BY <1>1 DEF Book, OwnItems, At
<1>3. \A x \in Jobs : Busy(x) => i \notin job[x].deletes
  BY <1>1 DEF Book, Deletions, At
<1>. QED
  BY <1>1, <1>2, <1>3

LEMMA CalculateBook ==
  ASSUME Book, NEW k \in Jobs, NEW e \in Employees, CalculateEmployee(k, e)
  PROVE  Book'
<1> DEFINE v == job[k].version
           n == NewItem(k, e)
<1>1. IInv /\ IInv'
  BY CalculateStep DEF Book
<1>2. /\ job[k].step = "employees" /\ Others(k) /\ e \in job[k].left /\ gross[e] > 0
      /\ job'[k].step = "employees"
      /\ job'[k].left = job[k].left \ {e} /\ job'[k].skipped = job[k].skipped
      /\ job'[k].version = v /\ ~job'[k].creates
      /\ job'[k].deletes = {} /\ job'[k].inserts = {n}
      /\ job'[k].total = job[k].total + gross[e] /\ job'[k].run = runs'[v]
      /\ job'[k].committed
      /\ job'[k].heals = job[k].heals /\ job'[k].met = job[k].met /\ job'[k].behind = job[k].behind
      /\ ~Clashes(k) /\ items' = (items \ job[k].deletes) \cup job[k].inserts
      /\ runs' = IF job[k].creates THEN [runs EXCEPT ![v] = Prepared] ELSE runs
      /\ UNCHANGED <<gross, torn>>
  BY <1>1, CalculateEffect
<1>3. \A l \in Jobs \ {k} : job'[l] = job[l]
  BY <1>2 DEF Others
<1>4. \A l \in Jobs : job'[l].step = job[l].step
  BY <1>2, <1>3
<1>5. n.by = k /\ n.employee = e /\ n.version = v /\ n.gross = gross[e]
  BY DEF NewItem
<1>. HIDE DEF n
<1>6. v \in Versions /\ job[k].left \subseteq Employees /\ items \subseteq Item
  BY <1>1 DEF IInv, TypeOK, Job
<1>7. StagesKept'
  BY <1>2, <1>3 DEF Book, StagesKept, At
<1>8. \A w \in Versions : runs'[w] = IF w = v /\ job[k].creates THEN Prepared ELSE runs[w]
  BY <1>2, <1>6 DEF IInv, TypeOK, Book
<1>9. OneCreator'
  <2> SUFFICES ASSUME NEW x \in Jobs, At(x, "employees")', job'[x].creates
               PROVE  /\ runs'[job'[x].version] = NoRun
                      /\ \A l \in Jobs : At(l, "employees")' /\ job'[l].creates /\ job'[l].version = job'[x].version => l = x
    BY DEF OneCreator
  <2>1. x # k /\ job'[x] = job[x] /\ At(x, "employees") /\ job[x].creates /\ job[x].version \in Versions
    BY <1>1, <1>2, <1>3 DEF At, IInv, TypeOK, Job
  <2>2. /\ runs[job[x].version] = NoRun
        /\ \A l \in Jobs : At(l, "employees") /\ job[l].creates /\ job[l].version = job[x].version => l = x
    BY <2>1 DEF Book, OneCreator
  <2>. QED
    BY <2>1, <2>2, <1>2, <1>3, <1>8 DEF At
<1>10. e \notin job[k].skipped /\ ~PaidBy(k, e)
  BY <1>2 DEF PaidBy, Book, StagesKept, At
<1>11. \A l \in Jobs : \A d : PaidBy(l, d)' <=> PaidBy(l, d) \/ (l = k /\ d = e)
  BY <1>2, <1>3, <1>10 DEF PaidBy, At
<1>12. \A i \in job[k].inserts : /\ i \in Item /\ i.by = k /\ i.version = v /\ i \notin items
                                 /\ \A x \in Jobs : Busy(x) => i \notin job[x].deletes
  BY <1>2, CommittedIsNew
<1>13. \A l \in Jobs : \A i \in job[l].inserts : i.by = l /\ PaidBy(l, i.employee)
  BY DEF Book, OwnItems
<1>14. \A l \in Jobs : ~At(l, "done") => \A i \in items : i.by = l =>
         PaidBy(l, i.employee) /\ i.version = job[l].version /\ \A h \in job[l].inserts : h.employee # i.employee
  BY DEF Book, OwnItems
<1>15. OwnItems'
  <2>1. \A l \in Jobs : \A i \in job'[l].inserts : i.by = l /\ PaidBy(l, i.employee)'
    BY <1>2, <1>3, <1>5, <1>11, <1>13
  <2>2. ASSUME NEW l \in Jobs, ~At(l, "done")', NEW i \in items', i.by = l
        PROVE  PaidBy(l, i.employee)' /\ i.version = job'[l].version /\ \A h \in job'[l].inserts : h.employee # i.employee
    <3>1. CASE l = k
      <4>1. PaidBy(k, i.employee) /\ i.version = v
        BY <2>2, <3>1, <1>2, <1>12, <1>13, <1>14 DEF At
      <4>. QED
        BY <4>1, <3>1, <1>2, <1>5, <1>10, <1>11
    <3>2. CASE l # k
      <4>1. i \in items /\ ~At(l, "done")
        BY <2>2, <3>2, <1>2, <1>4, <1>12 DEF At
      <4>. QED
        BY <4>1, <2>2, <3>2, <1>3, <1>11, <1>14
    <3>. QED
      BY <3>1, <3>2
  <2>. QED
    BY <2>1, <2>2 DEF OwnItems
<1>16. Deletions'
  <2> SUFFICES ASSUME NEW x \in Jobs, Busy(x)', NEW i \in job'[x].deletes
               PROVE  /\ i.employee \notin job'[x].skipped
                      /\ \A l \in Jobs : i.by = l /\ ~At(l, "done")' =>
                           /\ l \in job'[x].behind /\ PaidBy(l, i.employee)'
                           /\ \A h \in job'[l].inserts : h.employee # i.employee
    BY DEF Deletions
  <2>1. x # k /\ job'[x] = job[x] /\ Busy(x) /\ i \in job[x].deletes
    BY <1>2, <1>3 DEF Busy, At
  <2>2. /\ i.employee \notin job[x].skipped
        /\ \A l \in Jobs : i.by = l /\ ~At(l, "done") =>
             /\ l \in job[x].behind /\ PaidBy(l, i.employee)
             /\ \A h \in job[l].inserts : h.employee # i.employee
    BY <2>1 DEF Book, Deletions
  <2>. QED
    BY <2>1, <2>2, <1>2, <1>3, <1>4, <1>5, <1>10, <1>11 DEF At
<1>17. PaidStaysPaid'
  BY <1>2, <1>3, <1>5 DEF Book, PaidStaysPaid
<1>18. /\ \A l \in Jobs : job'[l].version = job[l].version /\ job'[l].heals = job[l].heals
       /\ \A l \in Jobs : job'[l].met = job[l].met /\ job'[l].behind = job[l].behind
  BY <1>2, <1>3
<1>19. \A l \in Jobs : (Busy(l)' <=> Busy(l)) /\ (At(l, "done")' <=> At(l, "done"))
                       /\ (At(l, "waiting")' <=> At(l, "waiting"))
  BY <1>4 DEF Busy, At
<1>20. OneBeforeOther' /\ MetTransitive'
  BY <1>18, <1>19 DEF Book, OneBeforeOther, MetTransitive
<1>21. MetUnderWay'
  <2>1. \A l \in Jobs : job[l].committed => job'[l].committed
    BY <1>2, <1>3
  <2>. QED
    BY <2>1, <1>18, <1>19 DEF Book, MetUnderWay
<1>22. MetListed'
  <2> SUFFICES ASSUME NEW q \in Jobs, NEW l \in Jobs, Busy(q), Busy(l), l \in job[q].met,
                      NEW i \in items', i \in job'[l].deletes
               PROVE  i \in job'[q].deletes
    BY <1>18, <1>19 DEF MetListed
  <2>1. l # k /\ i \in job[l].deletes
    BY <1>2, <1>3
  <2>2. i \in items /\ i \notin job[k].deletes
    BY <2>1, <1>2, <1>12
  <2>3. i \in job[q].deletes
    BY <2>1, <2>2 DEF Book, MetListed
  <2>. QED
    BY <2>2, <2>3, <1>3
<1>23. TornEnded'
  <2>1. \A x \in Jobs : job[x].heals \subseteq Jobs /\ torn \subseteq Jobs
    BY <1>1 DEF IInv, TypeOK, Job
  <2>. QED
    BY <2>1, <1>2, <1>18, <1>19 DEF Book, TornEnded
<1>24. SomebodyPaid'
  <2>1. \A l \in Jobs : PaysSomebody(l) => PaysSomebody(l)'
    BY <1>2, <1>3 DEF PaysSomebody
  <2>2. PaysSomebody(k)'
    BY <1>2, <1>10 DEF PaysSomebody
  <2>3. \A l \in Jobs \ {k} : job'[l].run = job[l].run
    BY <1>3
  <2>4. \E d \in Employees : gross'[d] > 0
    BY <1>2
  <2>. QED
    BY <2>1, <2>2, <2>3, <2>4, <1>18, <1>19 DEF Book, SomebodyPaid
<1>25. FiniteItems'
  <2>1. IsFiniteSet(items \ job[k].deletes)
    BY FS_Difference DEF Book, FiniteItems
  <2>2. IsFiniteSet(items')
    BY <2>1, <1>2, FS_Union DEF Book, FiniteItems
  <2>3. IsFiniteSet({n})
    BY FS_Singleton
  <2>. QED
    BY <2>2, <2>3, <1>2, <1>3 DEF Book, FiniteItems
<1>. QED
  BY <1>1, <1>7, <1>9, <1>15, <1>16, <1>17, <1>20, <1>21, <1>22, <1>23, <1>24, <1>25 DEF Book

(* A job that has been through all employees and paid nobody has found     *)
(* nothing of an earlier calculation.                                      *)
LEMMA NobodyPaid ==
  ASSUME Book, NEW k \in Jobs, job[k].step = "employees", job[k].left = {}, ~job[k].committed
  PROVE  /\ job[k].deletes = {} /\ job[k].inserts = {} /\ job[k].heals = {} /\ job[k].total = 0
         /\ Employees \subseteq job[k].skipped
         /\ job[k].run # NoRun => job[k].run.total = 0
<1>1. job[k].inserts = {} /\ Employees \subseteq job[k].skipped /\ job[k].total = 0
  BY DEF Book, StagesKept, At
<1>2. job[k].deletes \subseteq Item
  BY DEF Book, IInv, TypeOK, Job
<1>3. job[k].deletes = {}
  BY <1>1, <1>2 DEF Book, Deletions, Busy, At, Item
<1>4. ~PaysSomebody(k)
  BY <1>1 DEF PaysSomebody
<1>5. job[k].run # NoRun => job[k].run.total \in Nat
  BY DEF Book, IInv, TypeOK, Job, Run
<1>. QED
  BY <1>1, <1>3, <1>4, <1>5 DEF Book, SomebodyPaid, Busy, At

(* So what a job that finishes commits is its last item, if it has paid    *)
(* anybody.                                                                *)
LEMMA FinishDeletesNothing ==
  ASSUME Book, NEW k \in Jobs, Finish(k)
  PROVE  job[k].deletes = {} /\ items' = items \cup job[k].inserts
<1>1. /\ job[k].step = "employees" /\ job[k].left = {}
      /\ items' = (items \ job[k].deletes) \cup job[k].inserts
  BY FinishEffect DEF Book
<1>2. job[k].deletes = {}
  BY <1>1, NobodyPaid DEF Book, StagesKept, At
<1>. QED
  BY <1>1, <1>2

LEMMA FinishBook ==
  ASSUME Book, NEW k \in Jobs, Finish(k)
  PROVE  Book'
<1> DEFINE v == job[k].version
<1>1. IInv /\ IInv'
  BY FinishStep DEF Book
<1>2. /\ job[k].step = "employees" /\ Others(k) /\ job[k].left = {}
      /\ job'[k].step = "done" /\ job'[k].version = v
      /\ job'[k].inserts = {} /\ job'[k].deletes = {}
      /\ ~Clashes(k) /\ items' = items \cup job[k].inserts
      /\ runs' = [runs EXCEPT ![v] = Updated(k)]
      /\ torn' = (torn \ job[k].heals) \cup (IF Overlooks(k) THEN {k} ELSE {})
      /\ UNCHANGED gross
  BY <1>1, FinishEffect, FinishDeletesNothing
<1>0. job'[k].committed
  <2>1. job \in [Jobs -> Job] /\ job[k] \in Job
    BY <1>1 DEF IInv, TypeOK
  <2>. QED
    BY <2>1 DEF Finish, Job, Waiting
<1>3. \A l \in Jobs \ {k} : job'[l] = job[l]
  BY <1>2 DEF Others
<1>4. \A l \in Jobs : Busy(l)' <=> Busy(l) /\ l # k
  BY <1>2, <1>3 DEF Busy, At
<1>5. v \in Versions /\ items \subseteq Item /\ torn \subseteq Jobs
  BY <1>1 DEF IInv, TypeOK, Job
<1>6. StagesKept'
  BY <1>2, <1>3 DEF Book, StagesKept, At
<1>7. \A w \in Versions : runs'[w] = IF w = v THEN Updated(k) ELSE runs[w]
  BY <1>2, <1>5 DEF IInv, TypeOK, Book
<1>8. OneCreator'
  <2> SUFFICES ASSUME NEW x \in Jobs, At(x, "employees")', job'[x].creates
               PROVE  /\ runs'[job'[x].version] = NoRun
                      /\ \A l \in Jobs : At(l, "employees")' /\ job'[l].creates /\ job'[l].version = job'[x].version => l = x
    BY DEF OneCreator
  <2>1. x # k /\ job'[x] = job[x] /\ At(x, "employees") /\ job[x].creates /\ job[x].version \in Versions
    BY <1>1, <1>2, <1>3 DEF At, IInv, TypeOK, Job
  <2>2. /\ runs[job[x].version] = NoRun
        /\ \A l \in Jobs : At(l, "employees") /\ job[l].creates /\ job[l].version = job[x].version => l = x
    BY <2>1 DEF Book, OneCreator
  <2>3. job[x].version # v
    <3>1. ~job[k].creates => runs[v] # NoRun
      BY NoRunAssumption, <1>1, <1>2 DEF IInv, RunExists
    <3>2. job[k].creates /\ job[x].version = v => k = x
      BY <1>2, <2>1, <2>2 DEF At
    <3>. QED
      BY <2>1, <2>2, <3>1, <3>2
  <2>. QED
    BY <2>1, <2>2, <2>3, <1>2, <1>3, <1>7 DEF At
<1>9. \A i \in job[k].inserts : /\ i \in Item /\ i.by = k /\ i.version = v /\ i \notin items
                                /\ \A x \in Jobs : Busy(x) => i \notin job[x].deletes
  BY <1>2, CommittedIsNew
<1>10. OwnItems'
  BY <1>2, <1>3, <1>9 DEF Book, OwnItems, PaidBy, At
<1>11. Deletions'
  BY <1>2, <1>3, <1>4 DEF Book, Deletions, PaidBy, At
<1>12. PaidStaysPaid'
  BY <1>2, <1>3 DEF Book, PaidStaysPaid
<1>13. FiniteItems'
  BY <1>2, <1>3, FS_EmptySet, FS_Union DEF Book, FiniteItems
<1>14. OneBeforeOther' /\ MetTransitive'
  BY <1>2, <1>3, <1>4 DEF Book, OneBeforeOther, MetTransitive
<1>15. MetListed'
  BY <1>2, <1>3, <1>4, <1>9 DEF Book, MetListed
<1>16. MetUnderWay'
  BY <1>0, <1>2, <1>3, <1>4 DEF Book, MetUnderWay, At
<1>17. TornEnded'
  <2>1. \A x \in Jobs : job[x].heals \subseteq Jobs /\ torn \subseteq Jobs
    BY <1>1 DEF IInv, TypeOK, Job
  <2>. QED
    BY <2>1, <1>2, <1>3, <1>4 DEF Book, TornEnded, At
<1>18. Overlooks(k) => \E e \in Employees : gross[e] > 0
  BY <1>5 DEF Overlooks, Item, Book, PaidStaysPaid
<1>19. job[k].committed => \E e \in Employees : gross[e] > 0
  <2> SUFFICES ASSUME job[k].committed PROVE \E e \in Employees : gross[e] > 0
    OBVIOUS
  <2>1. PICK i \in job[k].inserts : TRUE
    BY <1>2 DEF Book, StagesKept, At
  <2>. QED
    BY <2>1 DEF Book, OwnItems, PaidBy, PaidStaysPaid
<1>20. runs'[v].total > 0 => \E e \in Employees : gross[e] > 0
  <2> SUFFICES ASSUME ~job[k].committed, Updated(k).total > 0 PROVE \E e \in Employees : gross[e] > 0
    BY <1>5, <1>7, <1>19
  <2>1. job[k].total = 0 /\ (job[k].run # NoRun => job[k].run.total = 0)
    BY <1>2, NobodyPaid
  <2>2. Updated(k).total = IF job[k].creates THEN 0 ELSE IF job[k].run.total = 0 THEN runs[v].total ELSE 0
    BY <2>1 DEF Updated, Total
  <2>3. ~job[k].creates /\ runs[v].total > 0
    BY <2>2
  <2>4. runs[v] # NoRun
    BY NoRunAssumption, <2>3, <1>1, <1>2 DEF IInv, RunExists
  <2>. QED
    BY <2>3, <2>4, <1>5 DEF Book, SomebodyPaid
<1>21. SomebodyPaid'
  <2>1. \A l \in Jobs \ {k} : PaysSomebody(l) => PaysSomebody(l)'
    BY <1>2, <1>3 DEF PaysSomebody
  <2>2. torn' # {} => \E e \in Employees : gross'[e] > 0
    BY <1>2, <1>18 DEF Book, SomebodyPaid
  <2>3. \A w \in Versions : runs'[w] # NoRun /\ runs'[w].total > 0 => \E e \in Employees : gross'[e] > 0
    BY <1>2, <1>7, <1>20 DEF Book, SomebodyPaid
  <2>4. \A l \in Jobs : Busy(l)' /\ (job'[l].heals # {} \/ (job'[l].run # NoRun /\ job'[l].run.total > 0)) => PaysSomebody(l)'
    BY <2>1, <1>3, <1>4 DEF Book, SomebodyPaid
  <2>. QED
    BY <2>2, <2>3, <2>4 DEF SomebodyPaid
<1>. QED
  BY <1>1, <1>6, <1>8, <1>10, <1>11, <1>12, <1>13, <1>14, <1>15, <1>16, <1>17, <1>21 DEF Book

(* What others do leaves items and jobs alone, keeps totals, and takes     *)
(* nobody's compensation away.                                             *)
Surroundings ==
  /\ UNCHANGED <<items, job, torn>>
  /\ \A e \in Employees : gross[e] > 0 => gross'[e] > 0
  /\ \A v \in Versions : /\ runs'[v] = NoRun <=> runs[v] = NoRun
                         /\ runs[v] # NoRun => runs'[v].total = runs[v].total

LEMMA EnvironmentSurrounds ==
  ASSUME IInv, Environment \/ UNCHANGED vars
  PROVE  Surroundings
<1>1. ASSUME NEW s \in PeriodStatuses, SetPeriod(s) PROVE Surroundings
  BY <1>1 DEF SetPeriod, Surroundings
<1>2. ASSUME NEW e \in Employees, NEW g \in Grosses, Revise(e, g) PROVE Surroundings
  BY <1>2, GrossesAssumption DEF Revise, Surroundings, IInv, TypeOK
<1>3. ASSUME NEW v \in Versions, LockRun(v) PROVE Surroundings
  <2>1. runs[v] \in Run /\ runs' = [runs EXCEPT ![v] = [runs[v] EXCEPT !.status = "LOCKED"]]
    BY <1>3 DEF LockRun, IInv, TypeOK
  <2>2. [runs[v] EXCEPT !.status = "LOCKED"] \in Run /\ [runs[v] EXCEPT !.status = "LOCKED"].total = runs[v].total
    BY <2>1 DEF Run
  <2>. HIDE DEF LockRun
  <2>3. \A w \in Versions : runs'[w] = IF w = v THEN [runs[v] EXCEPT !.status = "LOCKED"] ELSE runs[w]
    BY <2>1 DEF IInv, TypeOK
  <2>. QED
    BY <1>3, <2>1, <2>2, <2>3, NoRunAssumption DEF LockRun, Surroundings
<1>4. CASE UNCHANGED vars
  BY <1>4 DEF vars, Surroundings
<1>. QED
  BY <1>1, <1>2, <1>3, <1>4 DEF Environment, PeriodStatuses

LEMMA SurroundingsBook ==
  ASSUME Book, IInv', Surroundings
  PROVE  Book'
<1>1. \A v \in Versions : runs'[v] = NoRun <=> runs[v] = NoRun
  BY DEF Surroundings
<1>2. /\ items \subseteq Item
      /\ \A k \in Jobs : /\ job[k].version \in Versions
                         /\ \A i \in job[k].deletes \cup job[k].inserts : i.employee \in Employees
  BY DEF Book, IInv, TypeOK, Job, Item
<1>3. StagesKept' /\ OwnItems' /\ Deletions'
  BY DEF Surroundings, Book, StagesKept, OwnItems, Deletions, PaidBy, Busy, At
<1>4. OneCreator'
  BY <1>1, <1>2 DEF Surroundings, Book, OneCreator, At
<1>5. PaidStaysPaid'
  BY <1>2 DEF Surroundings, Book, PaidStaysPaid, Item
<1>6. OneBeforeOther' /\ MetUnderWay' /\ MetListed' /\ MetTransitive'
  BY DEF Surroundings, Book, OneBeforeOther, MetUnderWay, MetListed, MetTransitive, Busy, At
<1>7. TornEnded' /\ FiniteItems'
  BY DEF Surroundings, Book, TornEnded, FiniteItems, Busy, At
<1>8. SomebodyPaid'
  BY DEF Surroundings, Book, SomebodyPaid, PaysSomebody, Busy, At
<1>. QED
  BY <1>3, <1>4, <1>5, <1>6, <1>7, <1>8 DEF Book

-----------------------------------------------------------------------------
(* Third layer: what becomes of jobs that overlap.  A doomed job stays so. *)
DoomedStay == \A k \in Jobs : Busy(k) /\ Busy(k)' /\ job[k].committed /\ Doomed(k) => Doomed(k)'

(* A step that changes none of this keeps it.                              *)
LEMMA StillFates ==
  ASSUME Fates, Book', UNCHANGED <<items, torn>>,
         \A k \in Jobs : /\ job'[k].step = job[k].step /\ job'[k].version = job[k].version
                         /\ job'[k].inserts = job[k].inserts /\ job'[k].deletes = job[k].deletes
                         /\ job'[k].committed = job[k].committed /\ job'[k].heals = job[k].heals
                         /\ job'[k].met = job[k].met /\ job'[k].behind = job[k].behind,
         \A k \in Jobs, e \in Employees : PaidBy(k, e)' => PaidBy(k, e),
         \A k \in Jobs, e \in Employees :
           e \in job'[k].skipped => e \in job[k].skipped \/ ~(gross[e] > 0)
  PROVE  Fates' /\ DoomedStay
<1>1. \A k \in Jobs : (Busy(k)' <=> Busy(k)) /\ (At(k, "employees")' <=> At(k, "employees"))
  BY DEF Busy, At
<1>2. \A i, k : Spared(i, k)' <=> Spared(i, k)
  BY <1>1 DEF Spared
<1>3. \A k \in Jobs : (Beaten(k) => Beaten(k)') /\ (TornBehind(k) => TornBehind(k)') /\ (Chased(k) => Chased(k)')
  <2>1. torn \subseteq Jobs
    BY DEF Fates, Book, IInv, TypeOK
  <2>. QED
    BY <2>1, <1>1, <1>2 DEF Beaten, TornBehind, Chased
<1>4. \A k \in Jobs : Intact(k) => Intact(k)'
  BY DEF Intact
<1>5. IntactOrDoomed'
  BY <1>1, <1>3, <1>4 DEF Fates, IntactOrDoomed, Doomed
<1>6. \A q, k \in Jobs : (TornAfter(q, k) => TornAfter(q, k)') /\ (ChasedAfter(q, k) => ChasedAfter(q, k)')
  <2>1. torn \subseteq Jobs
    BY DEF Fates, Book, IInv, TypeOK
  <2>. QED
    BY <2>1, <1>1 DEF TornAfter, ChasedAfter
<1>7. \A q, k \in Jobs : Contests(q, k) => Contests(q, k)'
  <2>1. \A k \in Jobs : \A i \in items \cup job[k].inserts : i.employee \in Employees /\ gross[i.employee] > 0
    BY DEF Fates, Book, PaidStaysPaid, IInv, TypeOK, Job, Item
  <2>. QED
    BY <2>1 DEF Contests
<1>8. Contested'
  BY <1>1, <1>3, <1>6, <1>7 DEF Fates, Contested
<1>9. DoomedStay
  BY <1>3 DEF DoomedStay, Doomed
<1>. QED
  BY <1>5, <1>8, <1>9 DEF Fates

LEMMA StartFates ==
  ASSUME Fates, NEW s \in Jobs, Start(s)
  PROVE  Fates' /\ DoomedStay
<1> DEFINE v == job[s].version
<1>1. IInv /\ Book /\ Book'
  BY StartBook DEF Fates, Book
<1>2. /\ job[s].step = "waiting" /\ Others(s)
      /\ job'[s].step = "flush" /\ job'[s].version = v
      /\ job'[s].deletes = ItemsOf(v) /\ job'[s].inserts = job[s].inserts
      /\ job'[s].committed = job[s].committed /\ job'[s].skipped = job[s].skipped
      /\ job'[s].heals = {t \in torn : job[t].version = v}
      /\ job'[s].met = UnderWay(v)
      /\ job'[s].behind = {l \in UnderWay(v) : job[l].committed}
      /\ UNCHANGED <<runs, items, gross, torn>>
  BY <1>1, StartEffect
<1>3. \A l \in Jobs \ {s} : job'[l] = job[l]
  BY <1>2 DEF Others
<1>4. \A l \in Jobs : l \in UnderWay(v) <=> job[l].version = v /\ Busy(l)
  BY DEF UnderWay, Busy, At
<1>5. \A l \in Jobs : Busy(l)' <=> Busy(l) \/ l = s
  BY <1>2, <1>3 DEF Busy, At
<1>6. ~Busy(s) /\ ~job[s].committed /\ job[s].inserts = {} /\ job[s].skipped = {}
  BY <1>2, <1>1 DEF Book, StagesKept, Busy, At
<1>7. torn \subseteq Jobs /\ items \subseteq Item
  BY <1>1 DEF IInv, TypeOK
<1>8. ASSUME NEW k \in Jobs, Busy(k), job[k].committed
      PROVE  /\ k # s /\ job'[k] = job[k]
             /\ Beaten(k) => Beaten(k)'
             /\ TornBehind(k) => TornBehind(k)'
             /\ Chased(k) => Chased(k)'
             /\ Intact(k) => Intact(k)'
  <2>1. k # s /\ job'[k] = job[k]
    BY <1>8, <1>6, <1>3
  <2>2. \A i \in items : i.version = job[k].version /\ Spared(i, k) => Spared(i, k)'
    BY <1>8, <1>2, <1>3, <1>4, <1>5 DEF Spared, ItemsOf
  <2>3. Beaten(k) => Beaten(k)'
    BY <2>1, <2>2, <1>2 DEF Beaten
  <2>4. TornBehind(k) => TornBehind(k)'
    BY <1>8, <2>1, <1>2, <1>3, <1>4, <1>5, <1>7, <1>1 DEF TornBehind, Book, TornEnded, At
  <2>5. Chased(k) => Chased(k)'
    BY <2>1, <1>3, <1>5, <1>6 DEF Chased
  <2>6. Intact(k) => Intact(k)'
    BY <2>1, <1>2 DEF Intact, PaidBy, At
  <2>. QED
    BY <2>1, <2>3, <2>4, <2>5, <2>6
<1>9. IntactOrDoomed'
  <2>1. \A k \in Jobs : At(k, "employees")' /\ job'[k].committed => At(k, "employees") /\ Busy(k) /\ job[k].committed
    BY <1>2, <1>3, <1>6 DEF At, Busy
  <2>. QED
    BY <2>1, <1>8 DEF Fates, IntactOrDoomed, Doomed
<1>10. Contested'
  <2> SUFFICES ASSUME NEW q \in Jobs, NEW k \in Jobs, Busy(q)', Busy(k)', k \in job'[q].behind
               PROVE  Contests(q, k)' \/ Beaten(k)' \/ TornAfter(q, k)' \/ ChasedAfter(q, k)'
    BY DEF Contested
  <2>1. CASE q = s
    <3>1. Busy(k) /\ job[k].committed /\ k # s
      BY <2>1, <1>2, <1>4, <1>6
    <3>2. PICK h \in job[k].inserts : TRUE
      BY <3>1, <1>1 DEF Book, StagesKept, Busy
    <3>3. h.by = k /\ h \notin items
      BY <3>1, <3>2, <1>1, CommittedIsNew DEF Book, StagesKept, Busy, At
    <3>. QED
      BY <2>1, <3>1, <3>2, <3>3, <1>2, <1>3, <1>6 DEF Contests, ItemsOf
  <2>2. CASE q # s
    <3>1. Busy(q) /\ job'[q] = job[q] /\ k \in job[q].behind
      BY <2>2, <1>3, <1>5
    <3>2. /\ k # s /\ Busy(k) /\ job[k].committed /\ job[k].version = job[q].version
          /\ job'[k] = job[k]
      BY <3>1, <1>1, <1>2, <1>3, <1>5 DEF Book, MetUnderWay, At
    <3>3. Contests(q, k) => Contests(q, k)'
      BY <3>1, <3>2, <1>2 DEF Contests
    <3>4. TornAfter(q, k) => TornAfter(q, k)'
      BY <3>1, <3>2, <1>1, <1>2, <1>3, <1>4, <1>5, <1>7 DEF TornAfter, Book, TornEnded, At
    <3>5. ChasedAfter(q, k) => ChasedAfter(q, k)'
      BY <1>3, <1>5, <1>6 DEF ChasedAfter
    <3>. QED
      BY <3>1, <3>2, <3>3, <3>4, <3>5, <1>8 DEF Fates, Contested
  <2>. QED
    BY <2>1, <2>2
<1>11. DoomedStay
  BY <1>8 DEF DoomedStay, Doomed
<1>. QED
  BY <1>1, <1>9, <1>10, <1>11 DEF Fates

LEMMA QuietFates ==
  ASSUME Fates, Book', Surroundings \/ \E k \in Jobs : Flush(k) \/ \E e \in Employees : SkipEmployee(k, e)
  PROVE  Fates' /\ DoomedStay
<1>1. IInv
  BY DEF Fates, Book
<1>2. CASE Surroundings
  BY <1>2, StillFates DEF Surroundings, PaidBy, At
<1>3. ASSUME NEW k \in Jobs, Flush(k) PROVE Fates' /\ DoomedStay
  <2>1. /\ job[k].step = "flush" /\ Others(k)
        /\ job'[k].step = "employees" /\ job'[k].left = Employees
        /\ job'[k].version = job[k].version
        /\ job'[k].deletes = job[k].deletes /\ job'[k].inserts = job[k].inserts
        /\ job'[k].committed = job[k].committed /\ job'[k].skipped = job[k].skipped
        /\ job'[k].heals = job[k].heals /\ job'[k].met = job[k].met /\ job'[k].behind = job[k].behind
        /\ UNCHANGED <<runs, items, gross, torn>>
    BY <1>1, <1>3, FlushEffect
  <2>2. \A l \in Jobs \ {k} : job'[l] = job[l]
    BY <2>1 DEF Others
  <2>3. job[k].inserts = {} /\ ~job[k].committed
    BY <2>1 DEF Fates, Book, StagesKept, At
  <2>4. \A l \in Jobs : Busy(l)' <=> Busy(l)
    BY <2>1, <2>2 DEF Busy, At
  <2>5. /\ \A l \in Jobs : job'[l].version = job[l].version /\ job'[l].inserts = job[l].inserts
        /\ \A l \in Jobs : job'[l].deletes = job[l].deletes /\ job'[l].committed = job[l].committed
        /\ \A l \in Jobs : job'[l].heals = job[l].heals /\ job'[l].met = job[l].met
        /\ \A l \in Jobs : job'[l].behind = job[l].behind /\ job'[l].skipped = job[l].skipped
    BY <2>1, <2>2
  <2>6. torn \subseteq Jobs
    BY <1>1 DEF IInv, TypeOK
  <2>7. \A l \in Jobs : (Beaten(l) => Beaten(l)') /\ (TornBehind(l) => TornBehind(l)') /\ (Chased(l) => Chased(l)')
    BY <2>1, <2>4, <2>5, <2>6 DEF Beaten, Spared, TornBehind, Chased
  <2>8. IntactOrDoomed'
    <3>1. \A l \in Jobs : At(l, "employees")' /\ job'[l].committed =>
            At(l, "employees") /\ job[l].committed /\ job'[l] = job[l]
      BY <2>1, <2>2, <2>3 DEF At
    <3>2. \A l \in Jobs : job'[l] = job[l] => (Intact(l) => Intact(l)')
      BY <2>1 DEF Intact, PaidBy, At
    <3>. QED
      BY <3>1, <3>2, <2>7 DEF Fates, IntactOrDoomed, Doomed
  <2>9. Contested'
    <3>1. \A q, l \in Jobs : /\ Contests(q, l) => Contests(q, l)'
                             /\ TornAfter(q, l) => TornAfter(q, l)'
                             /\ ChasedAfter(q, l) => ChasedAfter(q, l)'
      BY <2>1, <2>4, <2>5, <2>6 DEF Contests, TornAfter, ChasedAfter
    <3>. QED
      BY <3>1, <2>4, <2>5, <2>7 DEF Fates, Contested
  <2>. QED
    BY <2>7, <2>8, <2>9 DEF Fates, DoomedStay, Doomed
<1>4. ASSUME NEW k \in Jobs, NEW e \in Employees, SkipEmployee(k, e) PROVE Fates' /\ DoomedStay
  <2>1. /\ job[k].step = "employees" /\ Others(k) /\ e \in job[k].left /\ gross[e] = 0
        /\ job'[k].step = "employees"
        /\ job'[k].left = job[k].left \ {e} /\ job'[k].skipped = job[k].skipped \cup {e}
        /\ job'[k].version = job[k].version
        /\ job'[k].deletes = job[k].deletes /\ job'[k].inserts = job[k].inserts
        /\ job'[k].committed = job[k].committed
        /\ job'[k].heals = job[k].heals /\ job'[k].met = job[k].met /\ job'[k].behind = job[k].behind
        /\ UNCHANGED <<runs, items, gross, torn>>
    BY <1>1, <1>4, SkipEffect
  <2>2. \A l \in Jobs \ {k} : job'[l] = job[l]
    BY <2>1 DEF Others
  <2>3. \A l \in Jobs : /\ job'[l].step = job[l].step /\ job'[l].version = job[l].version
                        /\ job'[l].inserts = job[l].inserts /\ job'[l].deletes = job[l].deletes
                        /\ job'[l].committed = job[l].committed /\ job'[l].heals = job[l].heals
                        /\ job'[l].met = job[l].met /\ job'[l].behind = job[l].behind
    BY <2>1, <2>2
  <2>4. \A l \in Jobs, d \in Employees : PaidBy(l, d)' => PaidBy(l, d)
    BY <2>1, <2>2 DEF PaidBy, At
  <2>5. ~(gross[e] > 0)
    BY <2>1
  <2>6. \A l \in Jobs, d \in Employees : d \in job'[l].skipped => d \in job[l].skipped \/ ~(gross[d] > 0)
    BY <2>1, <2>2, <2>5
  <2>. QED
    BY <2>1, <2>3, <2>4, <2>6, StillFates
<1>. QED
  BY <1>2, <1>3, <1>4

LEMMA AbortFates ==
  ASSUME Fates, NEW s \in Jobs, Abort(s), ~At(s, "done")
  PROVE  Fates' /\ DoomedStay
<1>1. IInv /\ Book /\ Book'
  BY AbortBook DEF Fates, Book
<1>2. /\ Others(s) /\ job'[s].step = "done" /\ job'[s].version = job[s].version
      /\ torn' = torn \cup (IF job[s].committed THEN {s} ELSE {})
      /\ UNCHANGED <<runs, items, gross>>
  BY <1>1, AbortEffect
<1>3. \A l \in Jobs \ {s} : job'[l] = job[l]
  BY <1>2 DEF Others
<1>4. \A l \in Jobs : Busy(l)' <=> Busy(l) /\ l # s
  BY <1>2, <1>3 DEF Busy, At
<1>5. \A x \in Jobs : Busy(x) => s \notin job[x].heals
  BY <1>1 DEF Book, TornEnded
<1>6. torn \subseteq Jobs /\ \A l \in Jobs : job'[l].version = job[l].version
  BY <1>1, <1>2, <1>3 DEF IInv, TypeOK
<1>7. \A k \in Jobs \ {s} : Beaten(k) => Beaten(k)'
  BY <1>2, <1>3, <1>4 DEF Beaten, Spared
<1>8. \A k \in Jobs \ {s} : TornBehind(k) => TornBehind(k)'
  BY <1>2, <1>3, <1>4, <1>6 DEF TornBehind
<1>9. \A k \in Jobs \ {s} : Chased(k) => Chased(k)' \/ TornBehind(k)'
  <2> SUFFICES ASSUME NEW k \in Jobs \ {s}, NEW q \in Jobs, Busy(q), job[q].committed, k \in job[q].behind
               PROVE  Chased(k)' \/ TornBehind(k)'
    BY DEF Chased
  <2>1. CASE q = s
    <3>1. s \in torn' /\ job'[s].version = job'[k].version
      BY <2>1, <1>1, <1>2, <1>6 DEF Book, MetUnderWay
    <3>. QED
      BY <3>1, <1>3, <1>4, <1>5 DEF TornBehind
  <2>2. CASE q # s
    BY <2>2, <1>3, <1>4 DEF Chased
  <2>. QED
    BY <2>1, <2>2
<1>10. IntactOrDoomed'
  <2>1. \A k \in Jobs : At(k, "employees")' => k # s /\ At(k, "employees") /\ job'[k] = job[k]
    BY <1>2, <1>3 DEF At
  <2>2. \A k \in Jobs \ {s} : Intact(k) => Intact(k)'
    BY <1>2, <1>3 DEF Intact, PaidBy, At
  <2>. QED
    BY <2>1, <2>2, <1>7, <1>8, <1>9 DEF Fates, IntactOrDoomed, Doomed
<1>11. ASSUME NEW q \in Jobs \ {s}, NEW k \in Jobs \ {s}, k \in job[q].behind, Busy(q)
       PROVE  /\ Contests(q, k) => Contests(q, k)'
              /\ TornAfter(q, k) => TornAfter(q, k)'
              /\ ChasedAfter(q, k) => ChasedAfter(q, k)' \/ TornAfter(q, k)'
  <2>1. Contests(q, k) => Contests(q, k)'
    BY <1>2, <1>3 DEF Contests
  <2>2. TornAfter(q, k) => TornAfter(q, k)'
    BY <1>2, <1>3, <1>4, <1>6 DEF TornAfter
  <2>3. ASSUME NEW x \in Jobs, Busy(x), job[x].committed, k \in job[x].behind, q \in job[x].met
        PROVE  ChasedAfter(q, k)' \/ TornAfter(q, k)'
    <3>1. CASE x = s
      <4>1. s \in torn' /\ job'[s].version = job'[k].version
        BY <2>3, <3>1, <1>1, <1>2, <1>6 DEF Book, MetUnderWay
      <4>. QED
        BY <4>1, <1>3, <1>4, <1>5 DEF TornAfter
    <3>2. CASE x # s
      BY <2>3, <3>2, <1>3, <1>4 DEF ChasedAfter
    <3>. QED
      BY <3>1, <3>2
  <2>. QED
    BY <2>1, <2>2, <2>3 DEF ChasedAfter
<1>12. Contested'
  <2>1. \A q, k \in Jobs : Busy(q)' /\ Busy(k)' /\ k \in job'[q].behind =>
          q # s /\ k # s /\ Busy(q) /\ Busy(k) /\ k \in job[q].behind
    BY <1>3, <1>4
  <2>. QED
    BY <2>1, <1>7, <1>11 DEF Fates, Contested
<1>13. DoomedStay
  BY <1>4, <1>7, <1>8, <1>9 DEF DoomedStay, Doomed
<1>. QED
  BY <1>1, <1>10, <1>12, <1>13 DEF Fates

LEMMA CalculateFates ==
  ASSUME Fates, NEW s \in Jobs, NEW e \in Employees, CalculateEmployee(s, e)
  PROVE  Fates' /\ DoomedStay
<1> DEFINE v == job[s].version
           n == NewItem(s, e)
<1>1. IInv /\ Book /\ Book'
  BY CalculateBook DEF Fates, Book
<1>2. /\ job[s].step = "employees" /\ Others(s) /\ job'[s].step = "employees"
      /\ job'[s].left = job[s].left \ {e} /\ job'[s].skipped = job[s].skipped
      /\ job'[s].version = v /\ job'[s].deletes = {} /\ job'[s].inserts = {n} /\ job'[s].committed
      /\ job'[s].heals = job[s].heals /\ job'[s].met = job[s].met /\ job'[s].behind = job[s].behind
      /\ ~Clashes(s) /\ items' = (items \ job[s].deletes) \cup job[s].inserts
      /\ UNCHANGED <<gross, torn>>
  BY <1>1, CalculateEffect
<1>3. \A l \in Jobs \ {s} : job'[l] = job[l]
  BY <1>2 DEF Others
<1>4. \A l \in Jobs : (Busy(l)' <=> Busy(l)) /\ (At(l, "employees")' <=> At(l, "employees"))
  BY <1>2, <1>3 DEF Busy, At
<1>5. n.by = s /\ n.employee = e
  BY DEF NewItem
<1>. HIDE DEF n
<1>6. /\ \A l \in Jobs : job'[l].version = job[l].version /\ job'[l].heals = job[l].heals
      /\ \A l \in Jobs : job'[l].met = job[l].met /\ job'[l].behind = job[l].behind
      /\ \A l \in Jobs : job[l].committed => job'[l].committed
      /\ \A l \in Jobs : job'[l].skipped = job[l].skipped
  BY <1>2, <1>3
<1>7. torn \subseteq Jobs /\ Busy(s)
  BY <1>1, <1>2 DEF IInv, TypeOK, Busy, At
<1>8. /\ \A k \in Jobs : TornBehind(k) => TornBehind(k)'
      /\ \A k \in Jobs : Chased(k) => Chased(k)'
      /\ \A q, k \in Jobs : TornAfter(q, k) => TornAfter(q, k)'
      /\ \A q, k \in Jobs : ChasedAfter(q, k) => ChasedAfter(q, k)'
  BY <1>2, <1>4, <1>6, <1>7 DEF TornBehind, Chased, TornAfter, ChasedAfter
<1>9. \A i, k : Spared(i, k) => Spared(i, k)'
  BY <1>2, <1>3, <1>4 DEF Spared
<1>10. job[s].committed => ~Beaten(s) /\ job[s].deletes = {}
  <2>1. job[s].committed => job[s].deletes = {}
    BY <1>1, <1>2 DEF Book, StagesKept, At
  <2>2. \A h \in job[s].inserts : h.version = v
    BY <1>1 DEF IInv, WritesOwnVersion
  <2>. QED
    BY <2>1, <2>2, <1>2 DEF Beaten, Clashes
<1>11. ASSUME NEW k \in Jobs \ {s}, Busy(k)
       PROVE  /\ job'[k] = job[k]
              /\ \A i \in items \cup job[k].inserts : i.by = k /\ i \in job[s].deletes => i \in items /\ k \in job[s].behind
              /\ Intact(k) => Intact(k)' \/ Chased(k)'
              /\ Beaten(k) => Beaten(k)' \/ Chased(k)'
  <2>1. job'[k] = job[k]
    BY <1>3
  <2>2. \A i \in items \cup job[k].inserts : i.by = k /\ i \in job[s].deletes => i \in items /\ k \in job[s].behind
    BY <1>1, <1>7, <1>11 DEF Book, Deletions, Busy, At
  <2>3. k \in job[s].behind => Chased(k)'
    BY <1>2, <1>4, <1>7 DEF Chased
  <2>4. Intact(k) => Intact(k)' \/ Chased(k)'
    BY <2>1, <2>2, <2>3, <1>2 DEF Intact, PaidBy, At
  <2>5. Beaten(k) => Beaten(k)' \/ Chased(k)'
    <3> SUFFICES ASSUME NEW h \in job[k].inserts, NEW j \in items, j.by # k, j.version = job[k].version,
                        j.employee = h.employee, Spared(j, k)
                 PROVE  Beaten(k)' \/ Chased(k)'
      BY DEF Beaten
    <3>1. CASE j \in job[s].deletes
      BY <3>1, <2>3, <1>7 DEF Spared
    <3>2. CASE j \notin job[s].deletes
      BY <3>2, <2>1, <1>2, <1>9 DEF Beaten
    <3>. QED
      BY <3>1, <3>2
  <2>. QED
    BY <2>1, <2>2, <2>4, <2>5
<1>12. IntactOrDoomed'
  <2>1. ASSUME NEW k \in Jobs \ {s}, At(k, "employees"), job[k].committed
        PROVE  Intact(k)' \/ Doomed(k)'
    BY <2>1, <1>8, <1>11 DEF Fates, IntactOrDoomed, Doomed, Busy
  <2>2. Intact(s)' \/ Doomed(s)'
    <3>1. CASE job[s].committed
      <4>1. Intact(s) => Intact(s)'
        <5>1. \A d \in Employees : PaidBy(s, d)' => PaidBy(s, d) \/ d = e
          BY <1>2 DEF PaidBy, At
        <5>2. \A i \in items \cup job[s].inserts : i \in items' \cup job'[s].inserts
          BY <3>1, <1>2, <1>10
        <5>3. n \in job'[s].inserts
          BY <1>2
        <5>. QED
          BY <5>1, <5>2, <5>3, <1>5 DEF Intact
      <4>. QED
        BY <3>1, <4>1, <1>2, <1>8, <1>10 DEF Fates, IntactOrDoomed, Doomed, At
    <3>2. CASE ~job[s].committed
      <4>1. \A d \in Employees : PaidBy(s, d)' => d = e
        BY <3>2, <1>1, <1>2 DEF Book, StagesKept, PaidBy, At
      <4>. QED
        BY <4>1, <1>2, <1>5 DEF Intact
    <3>. QED
      BY <3>1, <3>2
  <2>3. \A k \in Jobs \ {s} : At(k, "employees")' /\ job'[k].committed => At(k, "employees") /\ job[k].committed
    BY <1>3, <1>4
  <2>. QED
    BY <2>1, <2>2, <2>3 DEF IntactOrDoomed
<1>13. Contested'
  <2> SUFFICES ASSUME NEW q \in Jobs, NEW k \in Jobs, Busy(q), Busy(k), k \in job[q].behind
               PROVE  Contests(q, k)' \/ Beaten(k)' \/ TornAfter(q, k)' \/ ChasedAfter(q, k)'
    BY <1>4, <1>6 DEF Contested
  <2>1. /\ job[k].committed /\ k # q /\ job[k].version = job[q].version
        /\ Contests(q, k) \/ Beaten(k) \/ TornAfter(q, k) \/ ChasedAfter(q, k)
    BY <1>1 DEF Fates, Contested, Book, MetUnderWay
  <2>2. job'[q].deletes \subseteq job[q].deletes
    BY <1>2, <1>3
  <2>3. CASE k = s
    <3>1. Contests(q, k) => Contests(q, k)'
      BY <2>1, <2>2, <2>3, <1>2, <1>6, <1>10 DEF Contests
    <3>. QED
      BY <3>1, <2>1, <2>3, <1>8, <1>10
  <2>4. CASE k # s
    <3>1. k \in job[s].behind /\ q # s => q \in job[s].met \/ s \in job[q].met
      BY <2>1, <1>1, <1>7 DEF Book, OneBeforeOther, MetUnderWay
    <3>2. k \in job[s].behind /\ q \in job[s].met => ChasedAfter(q, k)'
      BY <1>2, <1>4, <1>7 DEF ChasedAfter
    <3>3. s \in job[q].met => \A i \in items : i \in job[s].deletes => i \in job[q].deletes
      BY <1>1, <1>7 DEF Book, MetListed
    <3>4. Contests(q, k) => Contests(q, k)' \/ ChasedAfter(q, k)'
      <4> SUFFICES ASSUME NEW i \in items \cup job[k].inserts, i.by = k, i \notin job[q].deletes,
                          i.employee \notin job[q].skipped
                   PROVE  Contests(q, k)' \/ ChasedAfter(q, k)'
        BY DEF Contests
      <4>1. CASE i \in job[s].deletes
        BY <4>1, <3>1, <3>2, <3>3, <1>11, <2>4
      <4>2. CASE i \notin job[s].deletes
        BY <4>2, <2>2, <2>4, <1>2, <1>3, <1>6 DEF Contests
      <4>. QED
        BY <4>1, <4>2
    <3>5. Beaten(k) => Beaten(k)' \/ Contests(q, k)' \/ ChasedAfter(q, k)'
      <4> SUFFICES ASSUME NEW h \in job[k].inserts, NEW j \in items, j.by # k, j.version = job[k].version,
                          j.employee = h.employee, Spared(j, k)
                   PROVE  Beaten(k)' \/ Contests(q, k)' \/ ChasedAfter(q, k)'
        BY DEF Beaten
      <4>0. h.by = k /\ \A x \in Jobs : Busy(x) => h \notin job[x].deletes
        BY <2>1, <1>1, CommittedIsNew DEF Book, StagesKept, Busy, At
      <4>1. CASE j \notin job[s].deletes
        BY <4>1, <2>4, <1>2, <1>3, <1>9 DEF Beaten
      <4>2. CASE j \in job[s].deletes
        <5>1. k \in job[s].behind
          BY <4>2, <1>7 DEF Spared
        <5>2. q = s \/ s \in job[q].met => j \in job[q].deletes
          BY <4>2, <3>3
        <5>3. j \in job[q].deletes => j.employee \notin job[q].skipped
          BY <1>1 DEF Book, Deletions
        <5>4. j \in job[q].deletes => Contests(q, k)'
          BY <4>0, <5>3, <2>2, <2>4, <1>3, <1>6 DEF Contests
        <5>. QED
          BY <5>1, <5>2, <5>4, <3>1, <3>2
      <4>. QED
        BY <4>1, <4>2
    <3>. QED
      BY <2>1, <3>4, <3>5, <1>8
  <2>. QED
    BY <2>3, <2>4
<1>14. DoomedStay
  BY <1>8, <1>10, <1>11 DEF DoomedStay, Doomed
<1>. QED
  BY <1>1, <1>12, <1>13, <1>14 DEF Fates

(* A job that finishes while one that had committed when it started is     *)
(* still under way leaves behind what will decide between the two.         *)
LEMMA FinishDecides ==
  ASSUME Fates, NEW x \in Jobs, Finish(x), NEW k \in Jobs, Busy(k), k \in job[x].behind
  PROVE  Beaten(k)' \/ TornAfter(x, k)' \/ ChasedAfter(x, k)'
<1> DEFINE v == job[x].version
<1>1. IInv /\ Book /\ Book'
  BY FinishBook DEF Fates, Book
<1>2. /\ job[x].step = "employees" /\ Others(x) /\ job[x].left = {}
      /\ job'[x].step = "done" /\ job'[x].version = v
      /\ ~Clashes(x) /\ items' = items \cup job[x].inserts /\ job[x].deletes = {}
      /\ torn' = (torn \ job[x].heals) \cup (IF Overlooks(x) THEN {x} ELSE {})
      /\ UNCHANGED gross
  BY <1>1, FinishEffect, FinishDeletesNothing
<1>3. \A l \in Jobs \ {x} : job'[l] = job[l]
  BY <1>2 DEF Others
<1>4. \A l \in Jobs : Busy(l)' <=> Busy(l) /\ l # x
  BY <1>2, <1>3 DEF Busy, At
<1>5. Busy(x) /\ ~At(k, "done") /\ ~At(x, "done") /\ ~At(x, "flush")
  BY <1>2 DEF Busy, At
<1>6. k # x /\ job[k].version = v /\ job[k].committed
  BY <1>1, <1>5 DEF Book, MetUnderWay
<1>7. job'[k] = job[k] /\ torn \subseteq Jobs /\ \A l \in Jobs : job'[l].version = job[l].version
  BY <1>1, <1>2, <1>3, <1>6 DEF IInv, TypeOK
<1>8. /\ x \notin job[x].met
      /\ \A y \in Jobs : Busy(y) /\ x \in job[y].behind => x \in job[y].met
      /\ \A y \in Jobs : Busy(y) /\ x \in job[y].met => k \in job[y].behind
  BY <1>1, <1>5 DEF Book, MetUnderWay, MetTransitive
<1>9. CASE TornAfter(x, k)
  BY <1>9, <1>2, <1>3, <1>4, <1>5, <1>7, <1>8 DEF TornAfter
<1>10. CASE Beaten(k)
  BY <1>10, <1>2, <1>3, <1>4, <1>7 DEF Beaten, Spared
<1>11. CASE ChasedAfter(x, k)
  BY <1>11, <1>3, <1>4, <1>5, <1>8 DEF ChasedAfter
<1>12. CASE Contests(x, k)
  <2>1. PICK i \in items \cup job[k].inserts : i.by = k /\ i.employee \notin job[x].skipped
    BY <1>12 DEF Contests
  <2>2. i.employee \in Employees /\ i.version = v
    <3>1. At(k, "employees")
      BY <1>6, <1>1 DEF Book, StagesKept, Busy
    <3>. QED
      BY <3>1, <2>1, <1>1, <1>5, <1>6, CommittedIsNew DEF Book, OwnItems, PaidBy, At
  <2>3. PaidBy(x, i.employee)
    BY <2>1, <2>2, <1>2 DEF PaidBy, At
  <2>4. job[x].committed
    BY <2>2, <2>1, <1>1, <1>2, NobodyPaid
  <2>5. CASE Intact(x)
    <3>1. PICK j \in items \cup job[x].inserts : j.by = x /\ j.employee = i.employee
      BY <2>2, <2>3, <2>5 DEF Intact
    <3>2. j.version = v
      BY <3>1, <1>1, <1>2, <1>5, CommittedIsNew DEF Book, OwnItems
    <3>3. i \notin items
      <4>1. j \in job[x].inserts => i \notin items
        BY <3>1, <3>2, <2>2, <1>2 DEF Clashes
      <4>2. j \in items => i \notin items
        BY <3>1, <3>2, <2>1, <2>2, <1>1, <1>6 DEF IInv, PaidOnce
      <4>. QED
        BY <4>1, <4>2
    <3>4. Spared(j, k)
      <4>1. j \in job[x].inserts => Spared(j, k)
        BY <1>1, <1>2, CommittedIsNew DEF Spared
      <4>2. j \in items => Spared(j, k)
        BY <3>1, <1>1, <1>5, <1>8 DEF Spared, Book, Deletions
      <4>. QED
        BY <4>1, <4>2
    <3>5. Spared(j, k)'
      BY <3>4, <1>3, <1>4 DEF Spared
    <3>6. j \in items' /\ i \in job'[k].inserts
      BY <3>3, <2>1, <1>2, <1>7
    <3>. QED
      BY <3>1, <3>2, <3>5, <3>6, <2>1, <2>2, <1>6, <1>7 DEF Beaten
  <2>6. CASE TornBehind(x)
    BY <2>6, <1>2, <1>3, <1>4, <1>5, <1>6, <1>7, <1>8 DEF TornBehind, TornAfter
  <2>7. CASE Beaten(x)
    BY <2>7, <1>1, <1>2, CommittedIsNew DEF Beaten, Clashes
  <2>8. CASE Chased(x)
    BY <2>8, <1>3, <1>4, <1>5, <1>8 DEF Chased, ChasedAfter
  <2>. QED
    BY <2>4, <2>5, <2>6, <2>7, <2>8, <1>2 DEF Fates, IntactOrDoomed, Doomed, At
<1>. QED
  BY <1>5, <1>9, <1>10, <1>11, <1>12 DEF Fates, Contested

LEMMA FinishFates ==
  ASSUME Fates, NEW x \in Jobs, Finish(x)
  PROVE  Fates' /\ DoomedStay
<1>1. IInv /\ Book /\ Book'
  BY FinishBook DEF Fates, Book
<1>2. /\ job[x].step = "employees" /\ Others(x) /\ job'[x].step = "done" /\ job'[x].version = job[x].version
      /\ items' = items \cup job[x].inserts
      /\ torn' = (torn \ job[x].heals) \cup (IF Overlooks(x) THEN {x} ELSE {})
  BY <1>1, FinishEffect, FinishDeletesNothing
<1>3. \A l \in Jobs \ {x} : job'[l] = job[l]
  BY <1>2 DEF Others
<1>4. \A l \in Jobs : Busy(l)' <=> Busy(l) /\ l # x
  BY <1>2, <1>3 DEF Busy, At
<1>5. Busy(x) /\ torn \subseteq Jobs /\ \A l \in Jobs : job'[l].version = job[l].version
  BY <1>1, <1>2, <1>3 DEF Busy, At, IInv, TypeOK
<1>6. \A k \in Jobs \ {x} : Beaten(k) => Beaten(k)'
  BY <1>2, <1>3, <1>4 DEF Beaten, Spared
<1>7. \A k \in Jobs \ {x} : Intact(k) => Intact(k)'
  BY <1>2, <1>3 DEF Intact, PaidBy, At
<1>8. \A k \in Jobs : (TornAfter(x, k)' => TornBehind(k)') /\ (ChasedAfter(x, k)' => Chased(k)')
  BY DEF TornAfter, TornBehind, ChasedAfter, Chased
<1>9. ASSUME NEW k \in Jobs \ {x}, Busy(k), Doomed(k)
      PROVE  Doomed(k)'
  <2>1. k \in job[x].behind => Doomed(k)'
    BY <1>8, <1>9, FinishDecides DEF Doomed
  <2>2. ASSUME k \notin job[x].behind, TornBehind(k)
        PROVE  Doomed(k)'
    BY <2>2, <1>2, <1>3, <1>4, <1>5 DEF TornBehind, Doomed
  <2>3. ASSUME k \notin job[x].behind, Chased(k)
        PROVE  Doomed(k)'
    BY <2>3, <1>3, <1>4 DEF Chased, Doomed
  <2>. QED
    BY <2>1, <2>2, <2>3, <1>6, <1>9 DEF Doomed
<1>10. IntactOrDoomed'
  BY <1>2, <1>3, <1>7, <1>9 DEF Fates, IntactOrDoomed, At, Busy
<1>11. ASSUME NEW q \in Jobs \ {x}, NEW k \in Jobs \ {x}, Busy(q), Busy(k), k \in job[q].behind
       PROVE  Contests(q, k)' \/ Beaten(k)' \/ TornAfter(q, k)' \/ ChasedAfter(q, k)'
  <2>1. Contests(q, k) => Contests(q, k)'
    BY <1>2, <1>3 DEF Contests
  <2>2. ASSUME k \in job[x].behind, q \in job[x].met
        PROVE  Beaten(k)' \/ TornAfter(q, k)' \/ ChasedAfter(q, k)'
    <3>1. \A y \in Jobs : Busy(y) /\ x \in job[y].met => q \in job[y].met
      BY <2>2, <1>1, <1>5, <1>11 DEF Book, MetTransitive
    <3>2. TornAfter(x, k)' => TornAfter(q, k)'
      BY <3>1, <1>3, <1>4 DEF TornAfter
    <3>3. ChasedAfter(x, k)' => ChasedAfter(q, k)'
      BY <3>1, <1>3, <1>4 DEF ChasedAfter
    <3>. QED
      BY <3>2, <3>3, <2>2, <1>11, FinishDecides
  <2>3. ASSUME ~(k \in job[x].behind /\ q \in job[x].met), TornAfter(q, k)
        PROVE  TornAfter(q, k)'
    BY <2>3, <1>2, <1>3, <1>4, <1>5 DEF TornAfter
  <2>4. ASSUME ~(k \in job[x].behind /\ q \in job[x].met), ChasedAfter(q, k)
        PROVE  ChasedAfter(q, k)'
    BY <2>4, <1>3, <1>4 DEF ChasedAfter
  <2>. QED
    BY <2>1, <2>2, <2>3, <2>4, <1>6, <1>11 DEF Fates, Contested
<1>12. Contested'
  <2>1. \A q, k \in Jobs : Busy(q)' /\ Busy(k)' /\ k \in job'[q].behind =>
          q # x /\ k # x /\ Busy(q) /\ Busy(k) /\ k \in job[q].behind
    BY <1>3, <1>4
  <2>. QED
    BY <2>1, <1>11 DEF Contested
<1>13. DoomedStay
  BY <1>4, <1>9 DEF DoomedStay
<1>. QED
  BY <1>1, <1>10, <1>12, <1>13 DEF Fates

LEMMA InitFates == Init => Fates
<1>1. Init => \A k \in Jobs : job[k].step = "waiting"
  BY DEF Init, Waiting
<1>. QED
  BY <1>1, InitBook DEF Fates, IntactOrDoomed, Contested, Busy, At

LEMMA NextFates == Fates /\ [Next]_vars => Fates' /\ DoomedStay
<1> SUFFICES ASSUME Fates, [Next]_vars PROVE Fates' /\ DoomedStay
  OBVIOUS
<1>1. IInv /\ IInv' /\ Book
  BY NextInv DEF Fates, Book
<1>2. ASSUME Environment \/ UNCHANGED vars PROVE Fates' /\ DoomedStay
  BY <1>1, <1>2, EnvironmentSurrounds, SurroundingsBook, QuietFates
<1>3. ASSUME NEW k \in Jobs, Abort(k), ~At(k, "done") PROVE Fates' /\ DoomedStay
  BY <1>3, AbortFates
<1>4. ASSUME NEW k \in Jobs, Flush(k) PROVE Fates' /\ DoomedStay
  BY <1>1, <1>4, FlushBook, QuietFates
<1>5. ASSUME NEW k \in Jobs, NEW e \in Employees, SkipEmployee(k, e) PROVE Fates' /\ DoomedStay
  BY <1>1, <1>5, SkipBook, QuietFates
<1>6. ASSUME NEW k \in Jobs, Refuse(k) \/ FlushRefused(k) \/ EmployeeFails(k) \/ FinishFails(k) PROVE Fates' /\ DoomedStay
  BY <1>3, <1>6 DEF Refuse, FlushRefused, EmployeeFails, FinishFails, At
<1>. QED
  BY <1>2, <1>4, <1>5, <1>6, StartFates, CalculateFates, FinishFates DEF Next, Step

-----------------------------------------------------------------------------
(* Fourth layer: totals.  Sums over finite sets of items.                  *)
LEMMA SumEmpty == Sum({}) = 0
<1>1. Units({}) = {}
  BY DEF Units
<1>. QED
  BY <1>1, FS_EmptySet DEF Sum

LEMMA UnitsOfItem ==
  ASSUME NEW i \in Item
  PROVE  IsFiniteSet(UnitsOf(i)) /\ Cardinality(UnitsOf(i)) = i.gross
<1>1. i.gross \in Nat
  BY DEF Item
<1>0. /\ IsFiniteSet(1..i.gross)
      /\ Cardinality(1..i.gross) = IF 1 > i.gross THEN 0 ELSE i.gross - 1 + 1
  <2>1. 1 \in Int /\ i.gross \in Int
    BY <1>1
  <2>. QED
    BY <2>1, FS_Interval
<1>2. IsFiniteSet(1..i.gross) /\ Cardinality(1..i.gross) = i.gross
  BY <1>0, <1>1
<1>3. IsFiniteSet({i}) /\ Cardinality({i}) = 1
  BY FS_Singleton
<1> DEFINE I == {i}
           N == 1..i.gross
<1>. HIDE DEF I, N
<1>4. IsFiniteSet(I \X N) /\ Cardinality(I \X N) = Cardinality(I) * Cardinality(N)
  BY <1>2, <1>3, FS_Product DEF I, N
<1>5. Cardinality(I) = 1 /\ Cardinality(N) = i.gross
  BY <1>2, <1>3 DEF I, N
<1>6. UnitsOf(i) = I \X N
  BY DEF UnitsOf, I, N
<1>. QED
  BY <1>1, <1>4, <1>5, <1>6

LEMMA UnitsFinite ==
  ASSUME NEW S \in SUBSET Item, IsFiniteSet(S)
  PROVE  IsFiniteSet(Units(S))
<1> DEFINE T == {UnitsOf(i) : i \in S}
           f == [i \in S |-> UnitsOf(i)]
<1>1. f \in Surjection(S, T)
  BY DEF Surjection
<1>. HIDE DEF f
<1>2. IsFiniteSet(T)
  BY <1>1, FS_Surjection
<1>3. \A U \in T : IsFiniteSet(U)
  BY UnitsOfItem
<1>. QED
  BY <1>2, <1>3, FS_UNION DEF Units

LEMMA SumAdd ==
  ASSUME NEW S \in SUBSET Item, IsFiniteSet(S), NEW i \in Item, i \notin S
  PROVE  Sum(S \cup {i}) = Sum(S) + i.gross
<1>1. Units(S \cup {i}) = Units(S) \cup UnitsOf(i)
  BY DEF Units
<1>2. Units(S) \cap UnitsOf(i) = {}
  BY DEF Units, UnitsOf
<1>3. IsFiniteSet(Units(S))
  BY UnitsFinite
<1>4. IsFiniteSet(UnitsOf(i)) /\ Cardinality(UnitsOf(i)) = i.gross /\ i.gross \in Nat
  BY UnitsOfItem DEF Item
<1>5. Cardinality(Units(S) \cup UnitsOf(i)) = Cardinality(Units(S)) + i.gross - 0
  BY <1>2, <1>3, <1>4, FS_Union, FS_EmptySet
<1>6. Cardinality(Units(S)) \in Nat
  BY <1>3, FS_CardinalityType
<1>7. Cardinality(Units(S)) + i.gross - 0 = Cardinality(Units(S)) + i.gross
  BY <1>4, <1>6
<1>8. Cardinality(Units(S \cup {i})) = Cardinality(Units(S)) + i.gross
  BY Zenon, <1>1, <1>5, <1>7
<1>. QED
  BY Zenon, <1>8 DEF Sum

LEMMA SumOfVersion == \A v : SumOf(v) = Sum(ItemsOf(v))
  BY DEF SumOf, Sum, Units, UnitsOf

-----------------------------------------------------------------------------
(* A step that changes none of this keeps it.                              *)
LEMMA StillAccounts ==
  ASSUME Accounts, Fates', DoomedStay, UNCHANGED <<items, torn>>,
         \A v \in Versions : /\ runs'[v] = NoRun <=> runs[v] = NoRun
                             /\ runs[v] # NoRun => runs'[v].total = runs[v].total,
         \A k \in Jobs : /\ Busy(k)' <=> Busy(k)
                         /\ job'[k].version = job[k].version /\ job'[k].creates = job[k].creates
                         /\ job'[k].inserts = job[k].inserts /\ job'[k].deletes = job[k].deletes
                         /\ job'[k].total = job[k].total /\ job'[k].run = job[k].run
                         /\ job'[k].committed = job[k].committed
                         /\ job'[k].heals = job[k].heals /\ job'[k].behind = job[k].behind,
         \A k \in Jobs : job[k].committed => job[k].left \cup job[k].skipped \subseteq job'[k].left \cup job'[k].skipped,
         \A k \in Jobs, e \in Employees : PaidBy(k, e) => PaidBy(k, e)'
  PROVE  Accounts'
<1>1. /\ IInv /\ items \subseteq Item /\ torn \subseteq Jobs
      /\ \A k \in Jobs : job[k].version \in Versions
  BY DEF Accounts, Fates, Book, IInv, TypeOK, Job
<1>2. Totalled'
  <2>1. \A k \in Jobs : Intact(k)' => Intact(k)
    BY DEF Intact
  <2>2. \A k \in Jobs : OwnOf(k)' = OwnOf(k)
    BY DEF OwnOf
  <2>3. \A k \in Jobs : Sum(OwnOf(k))' = Sum(OwnOf(k))
    BY <2>2 DEF Sum, Units, UnitsOf
  <2>. QED
    BY <2>1, <2>3 DEF Accounts, Totalled
<1>3. ASSUME NEW k \in Jobs, Busy(k), ~job[k].creates
      PROVE  \/ RowSeen(k)'
             \/ job[k].committed /\ (Doomed(k)' \/ Overlooking(k)')
             \/ ~job[k].committed /\ (Foreign(k)' \/ Rival(k)' \/ TornSince(k)')
  <2>1. runs[job[k].version] # NoRun
    BY <1>1, <1>3, NoRunAssumption DEF IInv, RunExists, Busy, At
  <2>2. RowSeen(k) => RowSeen(k)'
    BY <2>1, <1>1 DEF RowSeen
  <2>3. job[k].committed /\ Doomed(k) => Doomed(k)'
    BY <1>3 DEF DoomedStay
  <2>4. job[k].committed /\ Overlooking(k) => Overlooking(k)'
    BY DEF Overlooking, Spared
  <2>5. (Foreign(k) => Foreign(k)') /\ (Rival(k) => Rival(k)')
    BY DEF Foreign, Rival
  <2>6. TornSince(k) => TornSince(k)'
    BY <1>1 DEF TornSince
  <2>. QED
    BY <2>2, <2>3, <2>4, <2>5, <2>6, <1>3 DEF Accounts, RowKnown
<1>4. RowKnown'
  BY <1>3 DEF RowKnown
<1>5. WholeAtRest'
  <2>1. \A v \in Versions : ItemsOf(v)' = ItemsOf(v)
    BY DEF ItemsOf
  <2>2. \A v \in Versions : SumOf(v)' = SumOf(v)
    BY <2>1 DEF SumOf
  <2>3. \A v \in Versions : AtRest(v)' => AtRest(v)
    BY <1>1 DEF AtRest, Torn
  <2>. QED
    BY <2>1, <2>2, <2>3 DEF Accounts, WholeAtRest
<1>. QED
  BY <1>2, <1>4, <1>5 DEF Accounts

LEMMA QuietAccounts ==
  ASSUME Accounts, Fates', DoomedStay,
         Surroundings \/ \E k \in Jobs : Flush(k) \/ \E e \in Employees : SkipEmployee(k, e)
  PROVE  Accounts'
<1>1. IInv /\ Book
  BY DEF Accounts, Fates, Book
<1>2. CASE Surroundings
  BY <1>2, StillAccounts DEF Surroundings, PaidBy, Busy, At
<1>3. ASSUME NEW k \in Jobs, Flush(k) PROVE Accounts'
  <2>1. /\ job[k].step = "flush" /\ Others(k)
        /\ job'[k].step = "employees" /\ job'[k].left = Employees
        /\ job'[k].version = job[k].version /\ job'[k].creates = job[k].creates
        /\ job'[k].deletes = job[k].deletes /\ job'[k].inserts = job[k].inserts
        /\ job'[k].total = job[k].total /\ job'[k].run = job[k].run
        /\ job'[k].committed = job[k].committed /\ job'[k].skipped = job[k].skipped
        /\ job'[k].heals = job[k].heals /\ job'[k].behind = job[k].behind
        /\ UNCHANGED <<runs, items, gross, torn>>
    BY <1>1, <1>3, FlushEffect
  <2>2. \A l \in Jobs \ {k} : job'[l] = job[l]
    BY <2>1 DEF Others
  <2>3. ~job[k].committed /\ ~At(k, "employees")
    BY <2>1, <1>1 DEF Book, StagesKept, At
  <2>4. \A l \in Jobs : Busy(l)' <=> Busy(l)
    BY <2>1, <2>2 DEF Busy, At
  <2>5. \A l \in Jobs, e \in Employees : PaidBy(l, e) => PaidBy(l, e)'
    BY <2>2, <2>3 DEF PaidBy, At
  <2>. QED
    BY <2>1, <2>2, <2>3, <2>4, <2>5, StillAccounts
<1>4. ASSUME NEW k \in Jobs, NEW e \in Employees, SkipEmployee(k, e) PROVE Accounts'
  <2>1. /\ job[k].step = "employees" /\ Others(k) /\ e \in job[k].left
        /\ job'[k].step = "employees"
        /\ job'[k].left = job[k].left \ {e} /\ job'[k].skipped = job[k].skipped \cup {e}
        /\ job'[k].version = job[k].version /\ job'[k].creates = job[k].creates
        /\ job'[k].deletes = job[k].deletes /\ job'[k].inserts = job[k].inserts
        /\ job'[k].total = job[k].total /\ job'[k].run = job[k].run
        /\ job'[k].committed = job[k].committed
        /\ job'[k].heals = job[k].heals /\ job'[k].behind = job[k].behind
        /\ UNCHANGED <<runs, items, gross, torn>>
    BY <1>1, <1>4, SkipEffect
  <2>2. \A l \in Jobs \ {k} : job'[l] = job[l]
    BY <2>1 DEF Others
  <2>3. \A l \in Jobs : Busy(l)' <=> Busy(l)
    BY <2>1, <2>2 DEF Busy, At
  <2>4. \A l \in Jobs, d \in Employees : PaidBy(l, d) => PaidBy(l, d)'
    BY <2>1, <2>2 DEF PaidBy, At
  <2>. QED
    BY <2>1, <2>2, <2>3, <2>4, StillAccounts
<1>. QED
  BY <1>2, <1>3, <1>4

LEMMA StartAccounts ==
  ASSUME Accounts, NEW s \in Jobs, Start(s)
  PROVE  Accounts'
<1> DEFINE v == job[s].version
<1>1. IInv /\ Book /\ Book' /\ Fates' /\ DoomedStay
  BY StartBook, StartFates DEF Accounts, Fates, Book
<1>2. /\ job[s].step = "waiting" /\ Others(s)
      /\ job'[s].step = "flush" /\ job'[s].version = v
      /\ job'[s].inserts = job[s].inserts /\ job'[s].total = job[s].total
      /\ job'[s].run = runs[v] /\ job'[s].committed = job[s].committed
      /\ job'[s].behind = {l \in UnderWay(v) : job[l].committed}
      /\ job'[s].deletes = ItemsOf(v)
      /\ UNCHANGED <<runs, items, gross, torn>>
  BY <1>1, StartEffect
<1>3. \A l \in Jobs \ {s} : job'[l] = job[l]
  BY <1>2 DEF Others
<1>4. \A l \in Jobs : l \in UnderWay(v) <=> job[l].version = v /\ Busy(l)
  BY DEF UnderWay, Busy, At
<1>5. \A l \in Jobs : Busy(l)' <=> Busy(l) \/ l = s
  BY <1>2, <1>3 DEF Busy, At
<1>6. ~Busy(s) /\ ~job[s].committed /\ job[s].inserts = {} /\ job[s].total = 0
  BY <1>2, <1>1 DEF Book, StagesKept, Busy, At
<1>7. torn \subseteq Jobs /\ items \subseteq Item /\ \A l \in Jobs : job'[l].version = job[l].version
  BY <1>1, <1>2, <1>3 DEF IInv, TypeOK
<1>8. Totalled'
  <2>1. OwnOf(s)' = {}
    <3>1. \A i \in items : i.by # s
      BY <1>1, <1>2 DEF Book, OwnItems, PaidBy, At
    <3>. QED
      BY <3>1, <1>2, <1>6 DEF OwnOf
  <2>2. job'[s].total = Sum(OwnOf(s)')
    BY <2>1, <1>2, <1>6, SumEmpty
  <2>3. ASSUME NEW k \in Jobs \ {s}, Busy(k), Intact(k)'
        PROVE  job'[k].total = Sum(OwnOf(k)')
    <3>1. Intact(k) /\ OwnOf(k)' = OwnOf(k)
      BY <2>3, <1>2, <1>3 DEF Intact, PaidBy, OwnOf, At
    <3>. QED
      BY <2>3, <3>1, <1>3 DEF Accounts, Totalled
  <2>4. \A k \in Jobs : Sum(OwnOf(k))' = Sum(OwnOf(k)')
    BY DEF Sum, Units, UnitsOf
  <2>. QED
    BY <2>2, <2>3, <2>4, <1>5 DEF Totalled
<1>9. RowKnown'
  <2>1. RowSeen(s)'
    BY <1>2 DEF RowSeen
  <2>2. ASSUME NEW k \in Jobs \ {s}, Busy(k), ~job[k].creates
        PROVE  \/ RowSeen(k)'
               \/ job[k].committed /\ (Doomed(k)' \/ Overlooking(k)')
               \/ ~job[k].committed /\ (Foreign(k)' \/ Rival(k)' \/ TornSince(k)')
    <3>1. job'[k] = job[k] /\ Busy(k)'
      BY <2>2, <1>3, <1>5
    <3>2. RowSeen(k) => RowSeen(k)'
      BY <3>1, <1>2 DEF RowSeen
    <3>3. job[k].committed /\ Doomed(k) => Doomed(k)'
      BY <3>1, <2>2, <1>1 DEF DoomedStay
    <3>4. job[k].committed /\ Overlooking(k) => Overlooking(k)'
      <4>1. job[k].committed => \A i \in items : i.version = job[k].version /\ Spared(i, k) => Spared(i, k)'
        BY <2>2, <1>2, <1>3, <1>4, <1>5 DEF Spared, ItemsOf
      <4>. QED
        BY <4>1, <3>1, <1>2 DEF Overlooking
    <3>5. (Foreign(k) => Foreign(k)') /\ (Rival(k) => Rival(k)') /\ (TornSince(k) => TornSince(k)')
      BY <3>1, <1>2, <1>3, <1>5, <1>6, <1>7 DEF Foreign, Rival, TornSince
    <3>. QED
      BY <3>2, <3>3, <3>4, <3>5, <2>2 DEF Accounts, RowKnown
  <2>. QED
    BY <2>1, <2>2, <1>3, <1>5 DEF RowKnown
<1>10. WholeAtRest'
  <2>1. \A w \in Versions : ItemsOf(w)' = ItemsOf(w)
    BY <1>2 DEF ItemsOf
  <2>2. \A w \in Versions : SumOf(w)' = SumOf(w)
    BY <2>1 DEF SumOf
  <2>3. \A w \in Versions : AtRest(w)' => AtRest(w)
    BY <1>2, <1>3, <1>5, <1>6, <1>7 DEF AtRest, Torn
  <2>. QED
    BY <2>1, <2>2, <2>3, <1>2 DEF Accounts, WholeAtRest
<1>. QED
  BY <1>1, <1>8, <1>9, <1>10 DEF Accounts

LEMMA AbortAccounts ==
  ASSUME Accounts, NEW s \in Jobs, Abort(s), ~At(s, "done")
  PROVE  Accounts'
<1>1. IInv /\ Book /\ Fates' /\ DoomedStay
  BY AbortFates DEF Accounts, Fates, Book
<1>2. /\ Others(s) /\ job'[s].step = "done" /\ job'[s].version = job[s].version
      /\ torn' = torn \cup (IF job[s].committed THEN {s} ELSE {})
      /\ UNCHANGED <<runs, items, gross>>
  BY <1>1, AbortEffect
<1>3. \A l \in Jobs \ {s} : job'[l] = job[l]
  BY <1>2 DEF Others
<1>4. \A l \in Jobs : Busy(l)' <=> Busy(l) /\ l # s
  BY <1>2, <1>3 DEF Busy, At
<1>5. \A x \in Jobs : Busy(x) => s \notin job[x].heals
  BY <1>1 DEF Book, TornEnded
<1>6. torn \subseteq Jobs /\ \A l \in Jobs : job'[l].version = job[l].version
  BY <1>1, <1>2, <1>3 DEF IInv, TypeOK
<1>7. Totalled'
  <2>1. \A k \in Jobs \ {s} : Intact(k)' => Intact(k)
    BY <1>2, <1>3 DEF Intact, PaidBy, At
  <2>2. \A k \in Jobs \ {s} : OwnOf(k)' = OwnOf(k)
    BY <1>2, <1>3 DEF OwnOf
  <2>3. \A k \in Jobs \ {s} : Sum(OwnOf(k))' = Sum(OwnOf(k))
    BY <2>2 DEF Sum, Units, UnitsOf
  <2>. QED
    BY <2>1, <2>3, <1>3, <1>4 DEF Accounts, Totalled
<1>8. RowKnown'
  <2>1. ASSUME NEW k \in Jobs \ {s}, Busy(k), ~job[k].creates
        PROVE  \/ RowSeen(k)'
               \/ job[k].committed /\ (Doomed(k)' \/ Overlooking(k)')
               \/ ~job[k].committed /\ (Foreign(k)' \/ Rival(k)' \/ TornSince(k)')
    <3>1. job'[k] = job[k] /\ Busy(k)'
      BY <2>1, <1>3, <1>4
    <3>2. RowSeen(k) => RowSeen(k)'
      BY <3>1, <1>2 DEF RowSeen
    <3>3. job[k].committed /\ Doomed(k) => Doomed(k)'
      BY <3>1, <2>1, <1>1 DEF DoomedStay
    <3>4. Overlooking(k) => Overlooking(k)'
      BY <3>1, <1>2, <1>3, <1>4 DEF Overlooking, Spared
    <3>5. (Foreign(k) => Foreign(k)') /\ (TornSince(k) => TornSince(k)')
      BY <3>1, <1>2, <1>6 DEF Foreign, TornSince
    <3>6. Rival(k) => Rival(k)' \/ TornSince(k)'
      <4> SUFFICES ASSUME NEW q \in Jobs, Busy(q), job[q].committed, job[q].version = job[k].version
                   PROVE  Rival(k)' \/ TornSince(k)'
        BY DEF Rival
      <4>1. CASE q = s
        BY <4>1, <3>1, <2>1, <1>2, <1>5, <1>6 DEF TornSince
      <4>2. CASE q # s
        BY <4>2, <3>1, <1>3, <1>4 DEF Rival
      <4>. QED
        BY <4>1, <4>2
    <3>. QED
      BY <3>2, <3>3, <3>4, <3>5, <3>6, <2>1 DEF Accounts, RowKnown
  <2>. QED
    BY <2>1, <1>3, <1>4 DEF RowKnown
<1>9. WholeAtRest'
  <2>1. \A w \in Versions : ItemsOf(w)' = ItemsOf(w)
    BY <1>2 DEF ItemsOf
  <2>2. \A w \in Versions : SumOf(w)' = SumOf(w)
    BY <2>1 DEF SumOf
  <2>3. \A w \in Versions : AtRest(w)' => AtRest(w)
    BY <1>2, <1>3, <1>4, <1>6 DEF AtRest, Torn
  <2>. QED
    BY <2>1, <2>2, <2>3, <1>2 DEF Accounts, WholeAtRest
<1>. QED
  BY <1>1, <1>7, <1>8, <1>9 DEF Accounts

(* The items of one job are finitely many.                                 *)
LEMMA OwnFinite ==
  ASSUME Book, NEW k \in Jobs
  PROVE  OwnOf(k) \in SUBSET Item /\ IsFiniteSet(OwnOf(k))
<1>1. {i \in items : i.by = k} \in SUBSET items
  OBVIOUS
<1>2. IsFiniteSet(items) /\ IsFiniteSet(job[k].inserts)
  BY DEF Book, FiniteItems
<1>3. IsFiniteSet({i \in items : i.by = k})
  BY <1>1, <1>2, FS_Subset
<1>4. IsFiniteSet({i \in items : i.by = k} \cup job[k].inserts)
  BY <1>2, <1>3, FS_Union
<1>5. items \subseteq Item /\ job[k].inserts \subseteq Item
  BY DEF Book, IInv, TypeOK, Job
<1>. QED
  BY <1>4, <1>5 DEF OwnOf

(* What a job commits leaves the other versions alone, and a job that      *)
(* creates its run is the only one there is.                               *)
LEMMA OtherVersions ==
  ASSUME Book, NEW s \in Jobs, job[s].step = "employees",
         items' = (items \ job[s].deletes) \cup job[s].inserts
  PROVE  /\ \A w \in Versions : w # job[s].version => ItemsOf(w)' = ItemsOf(w)
         /\ \A k \in Jobs : Busy(k) /\ ~job[k].creates /\ job[s].creates => job[k].version # job[s].version
<1>1. \A i \in job[s].deletes \cup job[s].inserts : i.version = job[s].version
  BY DEF Book, IInv, WritesOwnVersion
<1>2. \A k \in Jobs : Busy(k) /\ ~job[k].creates => runs[job[k].version] # NoRun
  BY NoRunAssumption DEF Book, IInv, RunExists, Busy, At
<1>3. job[s].creates => runs[job[s].version] = NoRun
  BY DEF Book, OneCreator, At
<1>. QED
  BY <1>1, <1>2, <1>3 DEF ItemsOf

LEMMA CalculateAccounts ==
  ASSUME Accounts, NEW s \in Jobs, NEW e \in Employees, CalculateEmployee(s, e)
  PROVE  Accounts'
<1> DEFINE v == job[s].version
           n == NewItem(s, e)
<1>1. IInv /\ Book /\ Book' /\ Fates' /\ DoomedStay
  BY CalculateBook, CalculateFates DEF Accounts, Fates, Book
<1>2. /\ job[s].step = "employees" /\ Others(s) /\ e \in job[s].left /\ job'[s].step = "employees"
      /\ job'[s].left = job[s].left \ {e} /\ job'[s].skipped = job[s].skipped
      /\ job'[s].version = v /\ job'[s].deletes = {} /\ job'[s].inserts = {n} /\ job'[s].committed
      /\ job'[s].total = job[s].total + gross[e] /\ job'[s].run = runs'[v]
      /\ ~Clashes(s) /\ items' = (items \ job[s].deletes) \cup job[s].inserts
      /\ runs' = IF job[s].creates THEN [runs EXCEPT ![v] = Prepared] ELSE runs
      /\ UNCHANGED <<gross, torn>>
  BY <1>1, CalculateEffect
<1>3. \A l \in Jobs \ {s} : job'[l] = job[l]
  BY <1>2 DEF Others
<1>4. \A l \in Jobs : Busy(l)' <=> Busy(l)
  BY <1>2, <1>3 DEF Busy, At
<1>5. n.by = s /\ n.employee = e /\ n.gross = gross[e]
  BY DEF NewItem
<1>6. n \in Item
  <2>1. n \in job'[s].inserts /\ job' \in [Jobs -> Job]
    BY <1>1, <1>2 DEF Book, IInv, TypeOK
  <2>. QED
    BY <2>1 DEF Job
<1>. HIDE DEF n
<1>7. /\ Busy(s) /\ torn \subseteq Jobs /\ v \in Versions /\ \A l \in Jobs : job'[l].version = job[l].version
      /\ \A i \in job[s].deletes \cup job[s].inserts : i.version = v
  BY <1>1, <1>2, <1>3 DEF IInv, TypeOK, Job, WritesOwnVersion, Busy, At
<1>8. \A w \in Versions : w # v \/ ~job[s].creates => runs'[w] = runs[w]
  BY <1>1, <1>2 DEF IInv, TypeOK
<1>10. Intact(s)' => job'[s].total = Sum(OwnOf(s)')
  <2>1. \A d \in Employees : PaidBy(s, d) => PaidBy(s, d)' /\ d # e
    BY <1>2 DEF PaidBy, At
  <2>2. Intact(s)' => Intact(s)
    BY <2>1, <1>2, <1>5 DEF Intact
  <2>3. \A i \in items : i.by = s => i \notin job[s].deletes
    BY <1>1, <1>2, <1>7 DEF Book, Deletions, MetUnderWay, Busy, At
  <2>4. \A i \in job[s].inserts : i.by = s
    BY <1>1 DEF Book, OwnItems
  <2>5. OwnOf(s)' = OwnOf(s) \cup {n}
    BY <2>3, <2>4, <1>2, <1>5 DEF OwnOf
  <2>6. n \notin OwnOf(s)
    <3>1. \A i \in OwnOf(s) : PaidBy(s, i.employee)
      BY <1>1, <1>2 DEF OwnOf, Book, OwnItems, At
    <3>. QED
      BY <3>1, <2>1, <1>5 DEF PaidBy
  <2>7. Sum(OwnOf(s) \cup {n}) = Sum(OwnOf(s)) + n.gross
    BY <2>6, <1>1, <1>6, OwnFinite, SumAdd
  <2>8. Intact(s) => job[s].total = Sum(OwnOf(s))
    BY <1>7 DEF Accounts, Totalled
  <2>. QED
    BY <2>2, <2>5, <2>7, <2>8, <1>2, <1>5
<1>11. ASSUME NEW k \in Jobs \ {s}, Busy(k), Intact(k)'
       PROVE  Intact(k) /\ OwnOf(k)' = OwnOf(k)
  <2>1. job'[k] = job[k] /\ ~At(k, "done")
    BY <1>3, <1>11 DEF Busy, At
  <2>2. \A i \in job[s].inserts : i.by = s
    BY <1>1 DEF Book, OwnItems
  <2>3. ASSUME NEW i \in items, i.by = k PROVE i \in items'
    <3>1. PaidBy(k, i.employee)'
      BY <2>1, <2>3, <1>1 DEF Book, OwnItems, PaidBy, At
    <3>2. PICK j \in items' \cup job[k].inserts : j.by = k /\ j.employee = i.employee
      BY <3>1, <2>1, <1>11 DEF Intact, PaidBy
    <3>3. j \in items
      BY <3>2, <2>1, <2>2, <2>3, <1>1, <1>2 DEF Book, OwnItems
    <3>4. j.version = i.version
      BY <3>2, <3>3, <2>1, <2>3, <1>1 DEF Book, OwnItems
    <3>5. j = i
      BY <3>2, <3>3, <3>4, <2>3, <1>1 DEF IInv, PaidOnce
    <3>6. i \notin job[k].inserts
      BY <2>1, <2>3, <1>1 DEF Book, OwnItems
    <3>. QED
      BY <3>2, <3>5, <3>6
  <2>4. OwnOf(k)' = OwnOf(k)
    BY <2>1, <2>2, <2>3, <1>2 DEF OwnOf
  <2>5. \A i \in items' \cup job'[k].inserts : i.by = k => i \in items \cup job[k].inserts
    BY <2>1, <2>2, <1>2
  <2>. QED
    BY <2>1, <2>4, <2>5, <1>11 DEF Intact, PaidBy, At
<1>12. Totalled'
  <2>1. \A k \in Jobs : Sum(OwnOf(k))' = Sum(OwnOf(k)')
    BY DEF Sum, Units, UnitsOf
  <2>. QED
    BY <2>1, <1>3, <1>4, <1>10, <1>11 DEF Accounts, Totalled
<1>13. RowKnown'
  <2>1. RowSeen(s)'
    BY <1>2 DEF RowSeen
  <2>2. ASSUME NEW k \in Jobs \ {s}, Busy(k), ~job[k].creates
        PROVE  \/ RowSeen(k)'
               \/ job[k].committed /\ (Doomed(k)' \/ Overlooking(k)')
               \/ ~job[k].committed /\ (Foreign(k)' \/ Rival(k)' \/ TornSince(k)')
    <3>1. job'[k] = job[k] /\ Busy(k)' /\ job[k].version \in Versions
      BY <2>2, <1>1, <1>3, <1>4 DEF IInv, TypeOK, Job
    <3>2. RowSeen(k) => RowSeen(k)'
      <4>1. runs'[job[k].version] = runs[job[k].version]
        BY <2>2, <3>1, <1>1, <1>2, <1>8, OtherVersions
      <4>. QED
        BY <3>1, <4>1 DEF RowSeen
    <3>3. job[k].committed /\ Doomed(k) => Doomed(k)'
      BY <3>1, <2>2, <1>1 DEF DoomedStay
    <3>4. Overlooking(k) => Overlooking(k)' \/ Doomed(k)'
      <4> SUFFICES ASSUME NEW j \in items, j.by # k, j.version = job[k].version, Spared(j, k),
                          j.employee \in job[k].left \cup job[k].skipped
                   PROVE  Overlooking(k)' \/ Doomed(k)'
        BY DEF Overlooking
      <4>1. CASE j \in job[s].deletes
        <5>1. k \in job[s].behind /\ job'[s].behind = job[s].behind
          BY <4>1, <1>1, <1>7, CalculateEffect DEF Spared
        <5>. QED
          BY <5>1, <1>2, <1>4, <1>7 DEF Doomed, Chased
      <4>2. CASE j \notin job[s].deletes
        <5>1. Spared(j, k)'
          <6>1. job'[s].behind = job[s].behind
            BY <1>1, CalculateEffect
          <6>. QED
            BY <6>1, <1>2, <1>3, <1>4 DEF Spared
        <5>. QED
          BY <4>2, <5>1, <3>1, <1>2 DEF Overlooking
      <4>. QED
        BY <4>1, <4>2
    <3>5. Foreign(k) => Foreign(k)' \/ Rival(k)'
      <4>1. job[s].version = job[k].version => Rival(k)'
        BY <3>1, <1>2, <1>4, <1>7 DEF Rival
      <4>. QED
        BY <4>1, <3>1, <1>2, <1>7 DEF Foreign
    <3>6. Rival(k) => Rival(k)'
      BY <3>1, <1>2, <1>3, <1>4, <1>7 DEF Rival
    <3>7. TornSince(k) => TornSince(k)'
      BY <3>1, <1>2, <1>7 DEF TornSince
    <3>. QED
      BY <3>2, <3>3, <3>4, <3>5, <3>6, <3>7, <2>2 DEF Accounts, RowKnown
  <2>. QED
    BY <2>1, <2>2, <1>3, <1>4 DEF RowKnown
<1>14. WholeAtRest'
  <2>1. \A w \in Versions : AtRest(w)' => w # v
    BY <1>2, <1>4, <1>7 DEF AtRest
  <2>2. ASSUME NEW w \in Versions \ {v}
        PROVE  ItemsOf(w)' = ItemsOf(w) /\ (AtRest(w)' => AtRest(w)) /\ runs'[w] = runs[w]
    BY <2>2, <1>1, <1>2, <1>3, <1>4, <1>7, <1>8, OtherVersions DEF AtRest, Torn
  <2>3. \A w \in Versions \ {v} : SumOf(w)' = SumOf(w)
    BY <2>2 DEF SumOf
  <2> SUFFICES ASSUME NEW w \in Versions, runs'[w] # NoRun, AtRest(w)'
               PROVE  runs'[w].total = SumOf(w)' /\ \A i, j \in ItemsOf(w)' : i.by = j.by
    BY DEF WholeAtRest
  <2>4. w \in Versions \ {v}
    BY <2>1
  <2>5. runs[w].total = SumOf(w) /\ \A i, j \in ItemsOf(w) : i.by = j.by
    BY <2>2, <2>4 DEF Accounts, WholeAtRest
  <2>. QED
    BY <2>2, <2>3, <2>4, <2>5
<1>. QED
  BY <1>1, <1>12, <1>13, <1>14 DEF Accounts

(* A job that finishes with nothing torn and nobody else under way has the *)
(* items of everybody it has paid, and the version has no others.          *)
LEMMA LastHasAll ==
  ASSUME Accounts, NEW x \in Jobs, Finish(x), job[x].committed,
         NEW v \in Versions, v = job[x].version, AtRest(v)'
  PROVE  /\ Intact(x) /\ ~Doomed(x) /\ ~Overlooks(x)
         /\ ItemsOf(v)' = OwnOf(x)
<1>1. IInv /\ Book /\ Fates
  BY DEF Accounts, Fates, Book
<1>2. /\ job[x].step = "employees" /\ Others(x) /\ job[x].left = {}
      /\ job'[x].step = "done" /\ job'[x].version = job[x].version
      /\ ~Clashes(x) /\ items' = items \cup job[x].inserts /\ job[x].deletes = {}
      /\ torn' = (torn \ job[x].heals) \cup (IF Overlooks(x) THEN {x} ELSE {})
  BY <1>1, FinishEffect, FinishDeletesNothing
<1>3. \A l \in Jobs \ {x} : job'[l] = job[l]
  BY <1>2 DEF Others
<1>4. /\ \A l \in Jobs : Busy(l)' <=> Busy(l) /\ l # x
      /\ \A l \in Jobs : job'[l].version = job[l].version
      /\ Busy(x) /\ ~At(x, "done") /\ torn \subseteq Jobs /\ items \subseteq Item /\ v \in Versions
  BY <1>1, <1>2, <1>3 DEF Busy, At, IInv, TypeOK, Job
<1>5. /\ \A t \in torn' : job[t].version # v
      /\ \A k \in Jobs \ {x} : Busy(k) /\ job[k].version = v => ~job[k].committed
  BY <1>2, <1>3, <1>4 DEF AtRest, Torn
<1>6. ~Overlooks(x)
  BY <1>2, <1>5
<1>7. ~Doomed(x)
  <2>1. ~TornBehind(x)
    <3>1. x \notin job[x].behind
      BY <1>1, <1>4 DEF Book, MetUnderWay
    <3>. QED
      BY <3>1, <1>2, <1>4, <1>5 DEF TornBehind
  <2>2. ~Beaten(x)
    BY <1>1, <1>2, CommittedIsNew DEF Beaten, Clashes
  <2>3. ~Chased(x)
    BY <1>1, <1>4, <1>5 DEF Chased, Book, MetUnderWay
  <2>. QED
    BY <2>1, <2>2, <2>3 DEF Doomed
<1>8. Intact(x)
  BY <1>1, <1>2, <1>7 DEF Fates, IntactOrDoomed, At
<1>9. \A i \in job[x].inserts : i.by = x /\ i.version = v
  BY <1>1, <1>2, CommittedIsNew
<1>10. ASSUME NEW i \in items, i.version = v PROVE i.by = x
  <2>1. i.employee \in Employees /\ i.employee \notin job[x].skipped
    BY <1>2, <1>4, <1>6, <1>10 DEF Overlooks, Item
  <2>2. PICK j \in items \cup job[x].inserts : j.by = x /\ j.employee = i.employee
    BY <2>1, <1>2, <1>8 DEF Intact, PaidBy, At
  <2>3. j \in items
    BY <2>2, <1>2, <1>9, <1>10 DEF Clashes
  <2>4. j.version = v
    BY <2>2, <2>3, <1>1, <1>4 DEF Book, OwnItems
  <2>. QED
    BY <2>2, <2>3, <2>4, <1>1, <1>10 DEF IInv, PaidOnce
<1>11. \A i \in items : i.by = x => i.version = v
  BY <1>1, <1>4 DEF Book, OwnItems
<1>12. ItemsOf(v)' = {i \in items' : i.version = v}
  BY <1>2 DEF ItemsOf
<1>. QED
  BY <1>2, <1>6, <1>7, <1>8, <1>9, <1>10, <1>11, <1>12 DEF OwnOf

(* What the UPDATE at the end makes of the total.                          *)
LEMMA UpdatedTotal ==
  ASSUME Book, NEW x \in Jobs, Finish(x)
  PROVE  LET row == runs'[job[x].version]
         IN  /\ row.total = IF job[x].creates \/ job[x].run.total # job[x].total THEN job[x].total
                            ELSE runs[job[x].version].total
             /\ \A w \in Versions : w # job[x].version => runs'[w] = runs[w]
<1>1. runs \in [Versions -> Run \cup {NoRun}] /\ job[x].version \in Versions
  BY DEF Book, IInv, TypeOK, Job
<1>2. runs' = [runs EXCEPT ![job[x].version] = Updated(x)]
  BY FinishEffect DEF Book
<1>3. runs'[job[x].version] = Updated(x) /\ \A w \in Versions : w # job[x].version => runs'[w] = runs[w]
  BY <1>1, <1>2
<1>4. Updated(x).total = IF job[x].creates \/ job[x].run.total # job[x].total THEN job[x].total
                         ELSE runs[job[x].version].total
  BY DEF Updated, Total
<1>. QED
  BY <1>3, <1>4

LEMMA FinishAccounts ==
  ASSUME Accounts, NEW x \in Jobs, Finish(x)
  PROVE  Accounts'
<1> DEFINE v == job[x].version
<1>1. IInv /\ Book /\ Book' /\ Fates /\ Fates' /\ DoomedStay
  BY FinishBook, FinishFates DEF Accounts, Fates, Book
<1>2. /\ job[x].step = "employees" /\ Others(x) /\ job[x].left = {}
      /\ job'[x].step = "done" /\ job'[x].version = v
      /\ ~Clashes(x) /\ items' = items \cup job[x].inserts /\ job[x].deletes = {}
      /\ torn' = (torn \ job[x].heals) \cup (IF Overlooks(x) THEN {x} ELSE {})
  BY <1>1, FinishEffect, FinishDeletesNothing
<1>3. \A l \in Jobs \ {x} : job'[l] = job[l]
  BY <1>2 DEF Others
<1>4. /\ \A l \in Jobs : Busy(l)' <=> Busy(l) /\ l # x
      /\ \A l \in Jobs : job'[l].version = job[l].version /\ job[l].version \in Versions
      /\ Busy(x) /\ torn \subseteq Jobs /\ items \subseteq Item
  BY <1>1, <1>2, <1>3 DEF Busy, At, IInv, TypeOK, Job
<1>5. \A i \in job[x].inserts : /\ i \in Item /\ i.by = x /\ i.version = v
                                /\ \A k \in Jobs : Busy(k) => i \notin job[k].deletes
  BY <1>1, <1>2, CommittedIsNew
<1>6. /\ runs'[v].total = IF job[x].creates \/ job[x].run.total # job[x].total THEN job[x].total ELSE runs[v].total
      /\ \A w \in Versions : w # v => runs'[w] = runs[w]
  BY <1>1, UpdatedTotal
<1>7. IF job[x].committed THEN job[x].inserts # {} /\ ~job[x].creates
      ELSE /\ job[x].inserts = {} /\ job[x].heals = {} /\ job[x].total = 0
           /\ Employees \subseteq job[x].skipped /\ (job[x].run # NoRun => job[x].run.total = 0)
  BY <1>1, <1>2, NobodyPaid DEF Book, StagesKept, At
<1>8. ~job[x].creates => job[x].run # NoRun /\ runs[v] # NoRun
  BY <1>1, <1>2, NoRunAssumption DEF IInv, RunExists
<1>9. ~job[x].committed /\ ~job[x].creates => runs'[v].total = runs[v].total
  BY <1>6, <1>7, <1>8
<1>10. Totalled'
  <2>1. \A k \in Jobs \ {x} : Busy(k) => \A i \in job[x].inserts : i.by # k
    BY <1>5
  <2>2. ASSUME NEW k \in Jobs \ {x}, Busy(k), Intact(k)'
        PROVE  Intact(k) /\ OwnOf(k)' = OwnOf(k)
    BY <2>1, <2>2, <1>2, <1>3 DEF Intact, PaidBy, OwnOf, At
  <2>3. \A k \in Jobs : Sum(OwnOf(k))' = Sum(OwnOf(k)')
    BY DEF Sum, Units, UnitsOf
  <2>. QED
    BY <2>2, <2>3, <1>3, <1>4 DEF Accounts, Totalled
<1>11. \A k \in Jobs \ {x}, i \in items' : Busy(k) /\ Spared(i, k) => Spared(i, k)'
  BY <1>3, <1>4 DEF Spared
<1>12. ASSUME NEW k \in Jobs \ {x}, Busy(k), job[k].version = v, job[x].committed, job[k].committed
       PROVE  Doomed(k)' \/ Overlooking(k)'
  <2>1. PICK h \in job[x].inserts : TRUE
    BY <1>7, <1>12
  <2>2. /\ h \in items' /\ h.by = x /\ h.version = v /\ h.employee \in Employees
        /\ \A y \in Jobs : Busy(y) => h \notin job[y].deletes
    BY <2>1, <1>2, <1>5 DEF Item
  <2>3. Spared(h, k)'
    BY <2>2, <1>3, <1>4 DEF Spared
  <2>4. job'[k] = job[k] /\ At(k, "employees") /\ Busy(k)'
    BY <1>1, <1>3, <1>4, <1>12 DEF Book, StagesKept, Busy
  <2>5. CASE h.employee \in job[k].left \cup job[k].skipped
    BY <2>2, <2>3, <2>4, <2>5, <1>12 DEF Overlooking
  <2>6. CASE \E i \in job[k].inserts : i.employee = h.employee
    BY <2>2, <2>3, <2>4, <2>6, <1>12 DEF Beaten, Doomed
  <2>7. CASE /\ h.employee \notin job[k].left \cup job[k].skipped
             /\ ~\E i \in job[k].inserts : i.employee = h.employee
    <3>1. PaidBy(k, h.employee)
      BY <2>2, <2>4, <2>7 DEF PaidBy
    <3>2. \A i \in items : i.by = k /\ ~At(k, "done") => i.version = v
      BY <1>1, <1>12 DEF Book, OwnItems
    <3>3. ~Intact(k)
      BY <2>1, <2>2, <2>4, <2>7, <3>1, <3>2, <1>2 DEF Intact, Clashes, At
    <3>. QED
      BY <3>3, <2>4, <1>1, <1>12 DEF Fates, IntactOrDoomed, DoomedStay
  <2>. QED
    BY <2>5, <2>6, <2>7
<1>13. RowKnown'
  <2>1. ASSUME NEW k \in Jobs \ {x}, Busy(k), ~job[k].creates
        PROVE  \/ RowSeen(k)'
               \/ job[k].committed /\ (Doomed(k)' \/ Overlooking(k)')
               \/ ~job[k].committed /\ (Foreign(k)' \/ Rival(k)' \/ TornSince(k)')
    <3>1. job'[k] = job[k] /\ Busy(k)'
      BY <2>1, <1>3, <1>4
    <3>2. job[k].version = v => ~job[x].creates
      BY <2>1, <1>1, <1>2, OtherVersions
    <3>3. job[x].committed /\ job[k].version = v => Foreign(k)'
      BY <3>1, <2>1, <1>2, <1>5, <1>7 DEF Foreign
    <3>4. CASE RowSeen(k)
      <4>1. ~(job[x].committed /\ job[k].version = v) => RowSeen(k)'
        BY <3>1, <3>2, <3>4, <1>4, <1>6, <1>9 DEF RowSeen
      <4>. QED
        BY <4>1, <3>3, <2>1, <1>12
    <3>5. job[k].committed /\ Doomed(k) => Doomed(k)'
      BY <3>1, <2>1, <1>1 DEF DoomedStay
    <3>6. Overlooking(k) => Overlooking(k)'
      BY <3>1, <2>1, <1>2, <1>11 DEF Overlooking
    <3>7. Foreign(k) => Foreign(k)'
      BY <3>1, <1>2 DEF Foreign
    <3>8. Rival(k) => Rival(k)' \/ Foreign(k)'
      BY <3>1, <3>3, <1>3, <1>4 DEF Rival
    <3>9. TornSince(k) => TornSince(k)' \/ Foreign(k)'
      <4> SUFFICES ASSUME NEW t \in torn, t \notin job[k].heals, job[t].version = job[k].version
                   PROVE  TornSince(k)' \/ Foreign(k)'
        BY DEF TornSince
      <4>1. CASE t \in job[x].heals
        BY <4>1, <3>3, <1>1, <1>4, <1>7 DEF Book, TornEnded
      <4>2. CASE t \notin job[x].heals
        BY <4>2, <3>1, <1>2, <1>4 DEF TornSince
      <4>. QED
        BY <4>1, <4>2
    <3>. QED
      BY <3>4, <3>5, <3>6, <3>7, <3>8, <3>9, <2>1 DEF Accounts, RowKnown
  <2>. QED
    BY <2>1, <1>3, <1>4 DEF RowKnown
<1>14. WholeAtRest'
  <2> SUFFICES ASSUME NEW w \in Versions, runs'[w] # NoRun, AtRest(w)'
               PROVE  runs'[w].total = SumOf(w)' /\ \A i, j \in ItemsOf(w)' : i.by = j.by
    BY DEF WholeAtRest
  <2>0. SumOf(w)' = Sum(ItemsOf(w)')
    BY DEF SumOf, Sum, Units, UnitsOf
  <2>1. CASE w # v
    <3>1. runs'[w] = runs[w] /\ ItemsOf(w)' = ItemsOf(w)
      BY <2>1, <1>1, <1>2, <1>6, OtherVersions
    <3>2. AtRest(w)
      BY <2>1, <1>1, <1>2, <1>3, <1>4 DEF AtRest, Torn, Book, TornEnded
    <3>3. runs[w].total = SumOf(w) /\ \A i, j \in ItemsOf(w) : i.by = j.by
      BY <3>1, <3>2 DEF Accounts, WholeAtRest
    <3>. QED
      BY <2>0, <3>1, <3>3, SumOfVersion
  <2>2. CASE w = v /\ ~job[x].committed
    <3>1. ItemsOf(w)' = ItemsOf(w)
      BY <2>2, <1>2, <1>7 DEF ItemsOf
    <3>2. ~Overlooks(x) /\ AtRest(w)
      BY <2>2, <1>2, <1>3, <1>4, <1>7 DEF AtRest, Torn
    <3>3. CASE job[x].creates
      <4>1. ItemsOf(w) = {}
        BY <3>2, <2>2, <1>2, <1>4, <1>7 DEF ItemsOf, Overlooks, Item
      <4>. QED
        BY <4>1, <3>1, <3>3, <2>0, <2>2, <1>6, <1>7, SumEmpty
    <3>4. CASE ~job[x].creates
      <4>1. runs[w].total = SumOf(w) /\ \A i, j \in ItemsOf(w) : i.by = j.by
        BY <3>2, <3>4, <2>2, <1>8 DEF Accounts, WholeAtRest
      <4>. QED
        BY <4>1, <3>1, <3>4, <2>0, <2>2, <1>9, SumOfVersion
    <3>. QED
      BY <3>3, <3>4
  <2>3. CASE w = v /\ job[x].committed
    <3>1. Intact(x) /\ ~Doomed(x) /\ ~Overlooks(x) /\ ItemsOf(w)' = OwnOf(x)
      BY <2>3, LastHasAll
    <3>2. job[x].total = Sum(OwnOf(x))
      BY <3>1, <1>4 DEF Accounts, Totalled
    <3>3. ~Overlooking(x)
      BY <3>1, <1>2, <1>4 DEF Overlooking, Overlooks
    <3>4. job[x].run.total = runs[v].total
      BY <3>1, <3>3, <2>3, <1>4, <1>7 DEF Accounts, RowKnown, RowSeen
    <3>5. \A i \in OwnOf(x) : i.by = x
      BY <1>5 DEF OwnOf
    <3>. QED
      BY <3>1, <3>2, <3>4, <3>5, <2>0, <2>3, <1>6, <1>7
  <2>. QED
    BY <2>1, <2>2, <2>3
<1>. QED
  BY <1>1, <1>10, <1>13, <1>14 DEF Accounts

LEMMA InitAccounts == Init => Accounts
<1>1. Init => \A k \in Jobs : ~Busy(k)
  BY DEF Init, Waiting, Busy, At
<1>2. Init => \A v \in Versions : runs[v] = NoRun
  BY DEF Init
<1>. QED
  BY <1>1, <1>2, InitFates DEF Accounts, Totalled, RowKnown, WholeAtRest

LEMMA NextAccounts == Accounts /\ [Next]_vars => Accounts'
<1> SUFFICES ASSUME Accounts, [Next]_vars PROVE Accounts'
  OBVIOUS
<1>1. IInv /\ Fates' /\ DoomedStay
  BY NextFates DEF Accounts, Fates, Book
<1>2. ASSUME Environment \/ UNCHANGED vars PROVE Accounts'
  BY <1>1, <1>2, EnvironmentSurrounds, QuietAccounts
<1>3. ASSUME NEW k \in Jobs, Refuse(k) \/ FlushRefused(k) \/ EmployeeFails(k) \/ FinishFails(k) PROVE Accounts'
  BY <1>3, AbortAccounts DEF Refuse, FlushRefused, EmployeeFails, FinishFails, At
<1>4. ASSUME NEW k \in Jobs, Flush(k) \/ \E e \in Employees : SkipEmployee(k, e) PROVE Accounts'
  BY <1>1, <1>4, QuietAccounts
<1>. QED
  BY <1>2, <1>3, <1>4, StartAccounts, CalculateAccounts, FinishAccounts DEF Next, Step

(* A calculated run at rest has the totals of its items, all of them from  *)
(* one calculation, unless a job failed between its commits or passed over *)
(* an employee: whatever calls of calculate_payroll_run overlap, and       *)
(* although each of them commits once per employee.                        *)
THEOREM CalculatedRunsWhole == Spec => []CalculatedRunWhole
<1>1. Accounts => CalculatedRunWhole
  <2>1. ASSUME Accounts, NEW v \in Versions, ~Torn(v), ~InFlight(v) PROVE AtRest(v)
    BY <2>1 DEF AtRest, InFlight, UnderWay, Busy, At
  <2>. QED
    BY <2>1 DEF Accounts, WholeAtRest, CalculatedRunWhole
<1>. QED
  BY InitAccounts, NextAccounts, <1>1, PTL DEF Spec
=============================================================================
