-------------------------- MODULE PayrollInvariants --------------------------
(***************************************************************************)
(* Why payroll runs end whole: the inductive invariants of PayrollRun, in  *)
(* four layers.  IInv is about the tables and what a session may write;    *)
(* Book about what the jobs under way have written, listed and met; Fates  *)
(* about what becomes of jobs that overlap; Accounts about the totals.     *)
(* Each layer contains the one before it, and PayrollProofs proves them in *)
(* that order.                                                             *)
(***************************************************************************)
EXTENDS PayrollRun

(* What a job may write is of the version it computes, its session holds   *)
(* at most one item, and only while it goes through the employees.         *)
WritesOwnVersion ==
  \A k \in Jobs : \A i \in job[k].deletes \cup job[k].inserts : i.version = job[k].version

OneItemHeld == \A k \in Jobs : \A i, j \in job[k].inserts : i = j

IdleWritesNothing ==
  \A k \in Jobs : job[k].step \in {"waiting", "done"} =>
    job[k].deletes = {} /\ job[k].inserts = {} /\ ~job[k].creates

(* A job that creates no run works on one that exists.                     *)
RunExists ==
  \A k \in Jobs : (job[k].step \in {"flush", "employees"} /\ ~job[k].creates) =>
    job[k].run \in Run /\ runs[job[k].version] \in Run

IInv == TypeOK /\ WritesOwnVersion /\ OneItemHeld /\ IdleWritesNothing /\ RunExists /\ PaidOnce

-----------------------------------------------------------------------------
(* A job under way, and the employees it has paid.                         *)
Busy(k) == At(k, "flush") \/ At(k, "employees")
PaidBy(k, e) == At(k, "employees") /\ e \in Employees /\ e \notin job[k].left /\ e \notin job[k].skipped

(* A job that has committed holds the item of the last employee it paid;   *)
(* one that has not has paid nobody.                                       *)
StagesKept ==
  \A k \in Jobs :
    /\ At(k, "waiting") \/ At(k, "flush") =>
         /\ job[k].inserts = {} /\ job[k].skipped = {} /\ job[k].left = {}
         /\ job[k].total = 0 /\ ~job[k].committed
    /\ At(k, "employees") =>
         /\ \A e \in job[k].left : e \notin job[k].skipped
         /\ IF job[k].committed THEN job[k].inserts # {} /\ job[k].deletes = {} /\ ~job[k].creates
            ELSE job[k].inserts = {} /\ Employees \subseteq job[k].left \cup job[k].skipped /\ job[k].total = 0

(* Among the jobs that go through the employees one at most creates the    *)
(* run, and it is not there yet.                                           *)
OneCreator ==
  \A k \in Jobs : At(k, "employees") /\ job[k].creates =>
    /\ runs[job[k].version] = NoRun
    /\ \A l \in Jobs : At(l, "employees") /\ job[l].creates /\ job[l].version = job[k].version => l = k

(* What a job under way has written is of its version and its employees,   *)
(* one item each.                                                          *)
OwnItems ==
  \A k \in Jobs :
    /\ \A i \in job[k].inserts : i.by = k /\ PaidBy(k, i.employee)
    /\ ~At(k, "done") => \A i \in items : i.by = k =>
         /\ PaidBy(k, i.employee) /\ i.version = job[k].version
         /\ \A h \in job[k].inserts : h.employee # i.employee

(* A job that lists items for deletion has seen them, so it will pay their *)
(* employees; and a job that has written one of them and is still under    *)
(* way had committed then.                                                 *)
Deletions ==
  \A x \in Jobs : Busy(x) => \A i \in job[x].deletes :
    /\ i.employee \notin job[x].skipped
    /\ \A k \in Jobs : i.by = k /\ ~At(k, "done") =>
         /\ k \in job[x].behind /\ PaidBy(k, i.employee)
         /\ \A h \in job[k].inserts : h.employee # i.employee

(* Compensation is revised and never taken away.                           *)
PaidStaysPaid ==
  /\ \A i \in items : gross[i.employee] > 0
  /\ \A k \in Jobs : \A i \in job[k].deletes \cup job[k].inserts : gross[i.employee] > 0

(* Who started after whom: of two jobs of a version one has met the other, *)
(* the later one lists whatever the earlier one still lists, and what came *)
(* before the earlier one came before the later one.                       *)
OneBeforeOther ==
  \A q, k \in Jobs : Busy(q) /\ Busy(k) /\ job[q].version = job[k].version /\ q # k =>
    q \in job[k].met \/ k \in job[q].met
MetUnderWay ==
  \A q, k \in Jobs : Busy(q) =>
    /\ k \in job[q].met => k # q /\ ~At(k, "waiting") /\ job[k].version = job[q].version
    /\ k \in job[q].behind => k \in job[q].met /\ job[k].committed
MetListed ==
  \A q, k \in Jobs : Busy(q) /\ Busy(k) /\ k \in job[q].met =>
    \A i \in items : i \in job[k].deletes => i \in job[q].deletes
MetTransitive ==
  \A k, q, x \in Jobs : Busy(k) /\ Busy(q) /\ Busy(x) /\ q \in job[x].met =>
    /\ k \in job[q].met => k \in job[x].met
    /\ k \in job[q].behind => k \in job[x].behind

(* A torn job has ended, and only jobs of its version will heal it.        *)
TornEnded ==
  /\ \A t \in torn : At(t, "done")
  /\ \A x \in Jobs : Busy(x) => \A t \in job[x].heals : At(t, "done") /\ job[t].version = job[x].version

(* Where there is something to be seen of an earlier calculation, somebody *)
(* is paid.                                                                *)
PaysSomebody(k) == \E e \in Employees : gross[e] > 0 /\ e \notin job[k].skipped
SomebodyPaid ==
  /\ torn # {} => \E e \in Employees : gross[e] > 0
  /\ \A v \in Versions : runs[v] # NoRun /\ runs[v].total > 0 => \E e \in Employees : gross[e] > 0
  /\ \A k \in Jobs : Busy(k) /\ (job[k].heals # {} \/ (job[k].run # NoRun /\ job[k].run.total > 0)) => PaysSomebody(k)

FiniteItems == IsFiniteSet(items) /\ \A k \in Jobs : IsFiniteSet(job[k].inserts)

Book ==
  /\ IInv /\ StagesKept /\ OneCreator /\ OwnItems /\ Deletions /\ PaidStaysPaid
  /\ OneBeforeOther /\ MetUnderWay /\ MetListed /\ MetTransitive
  /\ TornEnded /\ SomebodyPaid /\ FiniteItems

-----------------------------------------------------------------------------
(* What becomes of jobs that overlap.  A job is intact while everybody it  *)
(* has paid has its item; Spared: whoever deletes the item started after k *)
(* had committed.                                                          *)
Intact(k) == \A e \in Employees : PaidBy(k, e) => \E i \in items \cup job[k].inserts : i.by = k /\ i.employee = e

Spared(i, k) == \A x \in Jobs : Busy(x) /\ i \in job[x].deletes => k \in job[x].behind

TornBehind(k) ==
  \E t \in torn : /\ job[t].version = job[k].version
                  /\ \A x \in Jobs : Busy(x) /\ t \in job[x].heals => k \in job[x].behind
Beaten(k) ==
  \E h \in job[k].inserts, j \in items :
    j.by # k /\ j.version = job[k].version /\ j.employee = h.employee /\ Spared(j, k)
Chased(k) == \E q \in Jobs : Busy(q) /\ job[q].committed /\ k \in job[q].behind

(* A job that will not end at rest with all it has paid for: a later one   *)
(* has beaten it, is under way, or has failed.                             *)
Doomed(k) == TornBehind(k) \/ Beaten(k) \/ Chased(k)

IntactOrDoomed == \A k \in Jobs : At(k, "employees") /\ job[k].committed => Intact(k) \/ Doomed(k)

(* Where q has started after k had committed, the two will pay the same    *)
(* employee, unless one that started after q decides between them.         *)
Contests(q, k) ==
  \E i \in items \cup job[k].inserts : i.by = k /\ i \notin job[q].deletes /\ i.employee \notin job[q].skipped
TornAfter(q, k) ==
  \E t \in torn : /\ job[t].version = job[k].version
                  /\ \A x \in Jobs : Busy(x) /\ t \in job[x].heals => k \in job[x].behind /\ q \in job[x].met
ChasedAfter(q, k) ==
  \E x \in Jobs : Busy(x) /\ job[x].committed /\ k \in job[x].behind /\ q \in job[x].met

Contested ==
  \A q, k \in Jobs : Busy(q) /\ Busy(k) /\ k \in job[q].behind =>
    Contests(q, k) \/ Beaten(k) \/ TornAfter(q, k) \/ ChasedAfter(q, k)

Fates == Book /\ IntactOrDoomed /\ Contested

-----------------------------------------------------------------------------
(* Every unit of every item of S, and how many they are.                   *)
UnitsOf(i) == {i} \X (1..i.gross)
Units(S) == UNION {UnitsOf(i) : i \in S}
Sum(S) == Cardinality(Units(S))

(* The total a job has added up is that of its items, as long as it has    *)
(* one for everybody it has paid.                                          *)
OwnOf(k) == {i \in items : i.by = k} \cup job[k].inserts
Totalled == \A k \in Jobs : Busy(k) /\ Intact(k) => job[k].total = Sum(OwnOf(k))

(* The row of the run is as the job has last loaded it, unless another one *)
(* has finished since: then there is an item the job has not seen, or one  *)
(* it will not overcome.                                                   *)
RowSeen(k) == job[k].run.total = runs[job[k].version].total
Overlooking(k) ==
  \E j \in items : /\ j.by # k /\ j.version = job[k].version /\ Spared(j, k)
                   /\ j.employee \in job[k].left \cup job[k].skipped
Foreign(k) == \E j \in items : j \notin job[k].deletes /\ j.version = job[k].version
Rival(k) == \E q \in Jobs : Busy(q) /\ job[q].committed /\ job[q].version = job[k].version
TornSince(k) == \E t \in torn : t \notin job[k].heals /\ job[t].version = job[k].version

RowKnown ==
  \A k \in Jobs : Busy(k) /\ ~job[k].creates =>
    \/ RowSeen(k)
    \/ job[k].committed /\ (Doomed(k) \/ Overlooking(k))
    \/ ~job[k].committed /\ (Foreign(k) \/ Rival(k) \/ TornSince(k))

(* A version whose jobs have committed nothing, or ended, and left nothing *)
(* torn.                                                                   *)
AtRest(v) == ~Torn(v) /\ \A k \in Jobs : Busy(k) /\ job[k].version = v => ~job[k].committed
WholeAtRest ==
  \A v \in Versions : runs[v] # NoRun /\ AtRest(v) =>
    /\ runs[v].total = SumOf(v)
    /\ \A i, j \in ItemsOf(v) : i.by = j.by

Accounts == Fates /\ Totalled /\ RowKnown /\ WholeAtRest
=============================================================================
