----------------------------- MODULE Compensation -----------------------------
(***************************************************************************)
(* The compensation versions of one employee (salary_records): what        *)
(* CompensationService admits, and which of them the payroll engine pays.  *)
(* Admission reads every record, compares, and inserts in the same         *)
(* transaction but without a lock or a constraint, so two requests may     *)
(* both have looked before either inserts.  Records are never changed or   *)
(* deleted.  A date is a day number; an amount plays no part.              *)
(***************************************************************************)
EXTENDS Naturals, Sequences

CONSTANTS
  LastDay,      \* bound on the days that records and pay dates fall on
  MaxRecords,   \* bound on the number of records
  Requests,     \* calls of create_compensation_version, repeatable
  NoRecord

ASSUME BoundsAssumption == LastDay \in Nat \ {0} /\ MaxRecords \in Nat

VARIABLES
  records,      \* rows of salary_records, in the order of insertion
  request       \* request[r]: the range r has found free, or NoRecord

vars == <<records, request>>

Days == 1..LastDay
Indefinite == LastDay + 1     \* effective_to is NULL: compared as 9999-12-31

Record == [effective_from : Days, effective_to : Days \cup {Indefinite}]

Init ==
  /\ records = <<>>
  /\ request = [r \in Requests |-> NoRecord]

Latest(a, b) == IF a > b THEN a ELSE b
Earliest(a, b) == IF a < b THEN a ELSE b

OverlapStrict(a, b) ==
  Latest(a.effective_from, b.effective_from) < Earliest(a.effective_to, b.effective_to)
Overlap(a, b) ==
  Latest(a.effective_from, b.effective_from) <= Earliest(a.effective_to, b.effective_to)

check_date_overlap(range) == \E i \in DOMAIN records : Overlap(range, records[i])

(* The range is compared with the committed records.  Nothing asks that it *)
(* end after it begins.                                                    *)
Check(r, range) ==
  /\ request[r] = NoRecord
  /\ ~check_date_overlap(range)
  /\ request' = [request EXCEPT ![r] = range]
  /\ UNCHANGED records

InsertUnchecked(r) ==
  /\ Len(records) < MaxRecords
  /\ records' = Append(records, request[r])
  /\ UNCHANGED request
Insert(r) ==
  /\ request[r] # NoRecord
  /\ Len(records) < MaxRecords
  /\ records' = Append(records, request[r])
  /\ request' = [request EXCEPT ![r] = NoRecord]

(* Inserting the components fails: the transaction is rolled back.         *)
Fail(r) ==
  /\ request[r] # NoRecord
  /\ request' = [request EXCEPT ![r] = NoRecord]
  /\ UNCHANGED records

Next == \E r \in Requests : Insert(r) \/ Fail(r) \/ \E range \in Record : Check(r, range)

Spec == Init /\ [][Next]_vars

-----------------------------------------------------------------------------
(* The payroll engine's choice for a pay date: the record that began last. *)

Begun(day) == {i \in DOMAIN records : records[i].effective_from <= day}

EarliestBegun(day) ==
  {i \in Begun(day) : \A j \in Begun(day) : records[i].effective_from <= records[j].effective_from}
Paid(day) ==
  {i \in Begun(day) : \A j \in Begun(day) : records[j].effective_from <= records[i].effective_from}

InForce(i, day) == records[i].effective_from <= day /\ day <= records[i].effective_to

-----------------------------------------------------------------------------
(* Every variable holds values of its type.                                *)
TypeOK ==
  /\ records \in Seq(Record) /\ Len(records) <= MaxRecords
  /\ request \in [Requests -> Record \cup {NoRecord}]

(* "Active compensation date ranges for the same employee MUST NOT         *)
(* overlap": no day lies in two of them.  Holds while requests for an      *)
(* employee come one at a time.                                            *)
NoDayInTwo ==
  \A i, j \in DOMAIN records, day \in Days : InForce(i, day) /\ InForce(j, day) => i = j

(* If some record is in force on the pay date, the engine pays that one:   *)
(* ordering by effective_from finds it whatever past and future records    *)
(* there are.  A record that ends before it begins slips through the check *)
(* inside another's range, and hides it.                                   *)
InForceIsPaid ==
  \A day \in Days :
    (/\ \E i \in DOMAIN records : InForce(i, day)
     /\ \A i \in Begun(day) : records[i].effective_from <= records[i].effective_to)
      => \A i \in Paid(day) : InForce(i, day)
=============================================================================
