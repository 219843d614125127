---------------------------- MODULE ServiceProofs ----------------------------
(***************************************************************************)
(* Four services that share no state.                                      *)
(*                                                                         *)
(* What an employee is paid: while requests come one at a time, no two     *)
(* compensation records share a day, for any number of days, records and   *)
(* ranges.                                                                 *)
(*                                                                         *)
(* What the payslip says of it: for every payroll item and every misprint, *)
(* a slip rounded to rupees is accepted, and a verdict short of critical   *)
(* vouches for the slip.                                                   *)
(*                                                                         *)
(* Who is let in: the rate limiters, for any number of calls, any limit    *)
(* and any window.                                                         *)
(*                                                                         *)
(* What they are kept in: for any chain of revisions written one upon the  *)
(* other, the tables are those of the revision on record, whatever        *)
(* commands ran or died before.                                            *)
(***************************************************************************)
EXTENDS Compensation, PayslipReconciliation, RateLimiter, Migrations, SequenceTheorems, FiniteSetTheorems, TLAPS

-----------------------------------------------------------------------------
(* Compensation records and payslips.                                      *)

(* No two records overlap, in the sense of the check itself.               *)
Disjoint == \A i, j \in DOMAIN records : i # j => ~Overlap(records[i], records[j])

(* What a request found free is still free when it inserts.                *)
StillFree == \A r \in Requests : request[r] # NoRecord =>
               \A i \in DOMAIN records : ~Overlap(request[r], records[i])

IInv == TypeOK /\ Disjoint /\ StillFree

(* The check compares from both sides alike.                               *)
LEMMA OverlapSymmetric ==
  ASSUME NEW a \in Record, NEW b \in Record
  PROVE  Overlap(a, b) <=> Overlap(b, a)
BY BoundsAssumption DEF Record, Days, Indefinite, Overlap, Latest, Earliest

(* Ranges that pass the check have no day in common.                       *)
LEMMA DisjointDays ==
  ASSUME NEW a \in Record, NEW b \in Record, ~Overlap(a, b), NEW day \in Days
  PROVE  ~(/\ a.effective_from <= day /\ day <= a.effective_to
           /\ b.effective_from <= day /\ day <= b.effective_to)
BY BoundsAssumption DEF Record, Days, Indefinite, Overlap, Latest, Earliest

LEMMA InitHolds == Init => IInv
BY BoundsAssumption DEF Init, IInv, TypeOK, Disjoint, StillFree, Record

(* One step, when at most one request is under way.                        *)
LEMMA NextHolds ==
  ASSUME \A r, s \in Requests : r = s
  PROVE  IInv /\ [Next]_vars => IInv'
<1> SUFFICES ASSUME IInv, [Next]_vars PROVE IInv'
  OBVIOUS
<1> USE DEF IInv
<1>1. CASE UNCHANGED vars
  BY <1>1 DEF vars, TypeOK, Disjoint, StillFree
<1>2. ASSUME NEW r \in Requests, NEW range \in Record, Check(r, range) PROVE IInv'
  <2>1. TypeOK'
    BY <1>2 DEF Check, TypeOK
  <2>2. Disjoint'
    BY <1>2 DEF Check, Disjoint
  <2>3. StillFree'
    BY <1>2 DEF Check, StillFree, TypeOK, check_date_overlap
  <2> QED BY <2>1, <2>2, <2>3
<1>3. ASSUME NEW r \in Requests, Insert(r) PROVE IInv'
  <2> PICK new : new = request[r]
    OBVIOUS
  <2>1. new \in Record /\ records \in Seq(Record) /\ records' = Append(records, new)
    BY <1>3 DEF Insert, TypeOK
  <2>2. /\ records' \in Seq(Record) /\ Len(records') = Len(records) + 1
        /\ \A i \in 1..Len(records) : records'[i] = records[i]
        /\ records'[Len(records) + 1] = new
    BY <2>1, AppendProperties
  <2>3. TypeOK'
    <3>1. Len(records) \in Nat /\ Len(records) + 1 <= MaxRecords
      BY <1>3, <2>1, LenProperties, BoundsAssumption DEF Insert
    <3>2. request' \in [Requests -> Record \cup {NoRecord}]
      BY <1>3 DEF Insert, TypeOK
    <3> QED BY <2>2, <3>1, <3>2 DEF TypeOK
  <2>4. \A i \in DOMAIN records : ~Overlap(new, records[i]) /\ ~Overlap(records[i], new)
    BY <1>3, <2>1, OverlapSymmetric DEF Insert, StillFree
  <2>5. Disjoint'
    <3> SUFFICES ASSUME NEW i \in 1..Len(records) + 1, NEW j \in 1..Len(records) + 1, i # j
                 PROVE  ~Overlap(records'[i], records'[j])
      BY <2>2 DEF Disjoint
    <3>1. CASE i \in 1..Len(records) /\ j \in 1..Len(records)
      BY <3>1, <2>1, <2>2 DEF Disjoint
    <3>2. CASE i = Len(records) + 1 /\ j \in 1..Len(records)
      BY <3>2, <2>1, <2>2, <2>4
    <3>3. CASE i \in 1..Len(records) /\ j = Len(records) + 1
      BY <3>3, <2>1, <2>2, <2>4
    <3> QED BY <2>1, <3>1, <3>2, <3>3
  <2>6. StillFree'
    BY <1>3 DEF Insert, StillFree, TypeOK
  <2> QED BY <2>3, <2>5, <2>6
<1>4. ASSUME NEW r \in Requests, Fail(r) PROVE IInv'
  BY <1>4 DEF Fail, TypeOK, Disjoint, StillFree
<1> QED BY <1>1, <1>2, <1>3, <1>4 DEF Next

(* "Active compensation date ranges for the same employee MUST NOT         *)
(* overlap" holds of CompensationService.create_compensation_version when  *)
(* at most one request is between its check and its insert.                *)
THEOREM SerialRequestsNeverOverlap ==
  ASSUME \A r, s \in Requests : r = s
  PROVE  Spec => []NoDayInTwo
<1>1. Init => IInv
  BY InitHolds
<1>2. IInv /\ [Next]_vars => IInv'
  BY NextHolds
<1>3. IInv => NoDayInTwo
  <2> SUFFICES ASSUME IInv, NEW i \in DOMAIN records, NEW j \in DOMAIN records, NEW day \in Days,
                      i # j, InForce(i, day), InForce(j, day)
               PROVE  FALSE
    BY DEF NoDayInTwo
  <2>1. records[i] \in Record /\ records[j] \in Record
    BY DEF IInv, TypeOK
  <2> QED BY <2>1, DisjointDays DEF IInv, Disjoint, InForce
<1> QED BY <1>1, <1>2, <1>3, PTL DEF Spec

(* The records in force that PayrollProcessingService.calculate_payroll_run*)
(* looks for are the ones it finds by effective_from alone, when requests  *)
(* come one at a time and no record ends before it begins.                 *)
THEOREM InForceIsPaidSerially ==
  ASSUME \A r, s \in Requests : r = s
  PROVE  Spec => []InForceIsPaid
<1>1. Init => IInv
  BY InitHolds
<1>2. IInv /\ [Next]_vars => IInv'
  BY NextHolds
<1>3. IInv => InForceIsPaid
  <2> SUFFICES ASSUME IInv, NEW day \in Days, NEW k \in DOMAIN records, InForce(k, day),
                      \A i \in Begun(day) : records[i].effective_from <= records[i].effective_to,
                      NEW i \in Paid(day)
               PROVE  InForce(i, day)
    BY DEF InForceIsPaid
  <2>1. /\ records[i] \in Record /\ records[k] \in Record
        /\ i \in DOMAIN records /\ i \in Begun(day) /\ k \in Begun(day)
    BY DEF IInv, TypeOK, Paid, Begun, InForce
  <2>2. /\ records[k].effective_from <= records[i].effective_from
        /\ records[i].effective_from <= records[i].effective_to
        /\ records[i].effective_from <= day
    BY <2>1 DEF Paid, Begun
  <2>3. CASE i = k
    BY <2>3
  <2>4. CASE i # k
    (* They would both lie over the day on which record i begins.          *)
    <3>1. ~Overlap(records[i], records[k])
      BY <2>1, <2>4 DEF IInv, Disjoint
    <3>2. records[i].effective_from <= records[k].effective_to
      BY <2>1, <2>2, BoundsAssumption DEF InForce, Record, Days, Indefinite
    <3> QED BY <2>1, <2>2, <3>1, <3>2, BoundsAssumption DEF Overlap, Latest, Earliest, Record, Days, Indefinite
  <2> QED BY <2>3, <2>4
<1> QED BY <1>1, <1>2, <1>3, PTL DEF Spec

------------------------------------------------------------------------------
(* The fields by their status, as reconcile counts them.                   *)
Criticals == {f \in Fields : FieldStatus(f, Read(Seen)) = "CRITICAL"}
Warnings == {f \in Fields : Warned(f, Read(Seen))}
Matched == {f \in Fields : FieldStatus(f, Read(Seen)) = "MATCHED"}

(* A verdict is the one the engine gives to the slip as it is.             *)
Judged ==
  verdict # NoVerdict =>
    /\ verdict.status = Overall(Cardinality(Criticals), Cardinality(Warnings), FormulaVerified(Seen))
    /\ verdict.matched = Cardinality(Matched)

SlipTypeOK ==
  /\ item \in Item /\ slip \in [Printed -> Nat]
  /\ DOMAIN statutory \subseteq Fields /\ \A f \in DOMAIN statutory : statutory[f] \in Nat

SlipIInv == SlipTypeOK /\ Judged

(* What rounding to rupees does to an amount.                              *)
LEMMA Rounding ==
  ASSUME NEW amount \in Nat
  PROVE  \E k \in Nat : /\ WholeRupees(amount) = 100 * k
                        /\ amount - 50 < 100 * k /\ 100 * k <= amount + 50
<1> WITNESS (amount + 50) \div 100 \in Nat
<1> QED BY DEF WholeRupees

LEMMA WholeAlready ==
  ASSUME NEW amount \in Nat, amount % 100 = 0
  PROVE  WholeRupees(amount) = amount
<1>1. PICK k \in Nat : WholeRupees(amount) = 100 * k /\ amount - 50 < 100 * k /\ 100 * k <= amount + 50
  BY Rounding
<1>2. amount = 100 * (amount \div 100) /\ amount \div 100 \in Nat
  OBVIOUS
<1> QED BY <1>1, <1>2

LEMMA SlipInitHolds == SlipInit => SlipIInv
<1> SUFFICES ASSUME SlipInit PROVE SlipIInv
  OBVIOUS
<1>1. item \in Item
  BY ItemsAssumption DEF SlipInit
<1>2. slip \in [Printed -> Nat]
  <2>1. \A f \in Printed : item[f] \in Nat
    BY <1>1 DEF Item
  <2>2. \A f \in Printed : WholeRupees(item[f]) \in Nat
    BY <2>1 DEF WholeRupees
  <2> QED BY <2>2 DEF SlipInit, Rounded
<1>3. \A i \in Items : i \in [Printed -> Nat]
  BY ItemsAssumption DEF Item
<1>4. DOMAIN statutory \subseteq Fields /\ \A f \in DOMAIN statutory : statutory[f] \in Nat
  <2>1. CASE statutory = [f \in {} |-> 0]
    BY <2>1
  <2>2. CASE \E i \in Items : statutory = [f \in {"gross", "epf", "pt", "tds"} |-> i[f]]
    BY <2>2, <1>3 DEF Printed, Fields
  <2> QED BY <2>1, <2>2 DEF SlipInit, Projections
<1> QED BY <1>1, <1>2, <1>4 DEF SlipIInv, SlipTypeOK, Judged, SlipInit

(* What a verdict rests on does not change while slip and references stay. *)
References == <<item, statutory, hasPayroll, scanned, slip>>

LEMMA SameGrounds ==
  ASSUME UNCHANGED References
  PROVE  /\ Criticals' = Criticals /\ Warnings' = Warnings /\ Matched' = Matched
         /\ FormulaVerified(Seen)' = FormulaVerified(Seen)
<1>1. /\ item' = item /\ statutory' = statutory /\ hasPayroll' = hasPayroll
      /\ scanned' = scanned /\ slip' = slip
  BY DEF References
<1>2. Seen' = Seen
  BY <1>1 DEF Seen
<1>3. Read(Seen)' = Read(Seen) /\ FormulaVerified(Seen)' = FormulaVerified(Seen)
  BY <1>2
<1>4. \A f \in Fields : /\ Against(f, Read(Seen))' = Against(f, Read(Seen))
                        /\ Projected(f, Read(Seen))' = Projected(f, Read(Seen))
  BY <1>1, <1>3 DEF Against, Projected
<1>5. \A f \in Fields : /\ FieldStatus(f, Read(Seen))' = FieldStatus(f, Read(Seen))
                        /\ Warned(f, Read(Seen))' = Warned(f, Read(Seen))
  BY <1>4 DEF FieldStatus, Warned
<1> QED BY <1>3, <1>5 DEF Criticals, Warnings, Matched

LEMMA SlipNextHolds == SlipIInv /\ [SlipNext]_slipVars => SlipIInv'
<1> SUFFICES ASSUME SlipIInv, [SlipNext]_slipVars PROVE SlipIInv'
  OBVIOUS
<1> USE DEF SlipIInv
<1>1. ASSUME NEW f \in Printed, NEW amount \in Misprints, Misprint(f, amount) PROVE SlipIInv'
  BY <1>1, ItemsAssumption DEF Misprint, SlipTypeOK, Judged
<1>2. CASE Reconcile
  <2>1. SlipTypeOK'
    BY <1>2 DEF Reconcile, SlipTypeOK
  <2>2. UNCHANGED References
    BY <1>2 DEF Reconcile, References
  <2>3. /\ verdict'.status = Overall(Cardinality(Criticals), Cardinality(Warnings), FormulaVerified(Seen))
        /\ verdict'.matched = Cardinality(Matched)
    BY <1>2 DEF Reconcile, reconcile, Criticals, Warnings, Matched
  <2>4. Judged'
    BY <2>2, <2>3, SameGrounds DEF Judged, Overall, References
  <2> QED BY <2>1, <2>4
<1>3. CASE UNCHANGED slipVars
  <2>1. UNCHANGED References /\ verdict' = verdict
    BY <1>3 DEF slipVars, References
  <2>2. Judged'
    BY <2>1, SameGrounds DEF Judged, Overall, References
  <2> QED BY <1>3, <2>2 DEF slipVars, SlipTypeOK
<1> QED BY <1>1, <1>2, <1>3 DEF SlipNext

(* How the counts of a verdict tell of the fields.                         *)
LEMMA FieldsFinite == IsFiniteSet(Fields)
<1>1. IsFiniteSet({"gross"}) /\ IsFiniteSet({"basic"}) /\ IsFiniteSet({"hra"}) /\ IsFiniteSet({"epf"})
      /\ IsFiniteSet({"pt"}) /\ IsFiniteSet({"tds"}) /\ IsFiniteSet({"deductions"}) /\ IsFiniteSet({"net"})
  BY FS_Singleton
<1>2. IsFiniteSet({"gross"} \cup {"basic"} \cup {"hra"} \cup {"epf"})
  BY <1>1, FS_Union
<1>3. IsFiniteSet({"pt"} \cup {"tds"} \cup {"deductions"} \cup {"net"})
  BY <1>1, FS_Union
<1>4. IsFiniteSet(({"gross"} \cup {"basic"} \cup {"hra"} \cup {"epf"})
                  \cup ({"pt"} \cup {"tds"} \cup {"deductions"} \cup {"net"}))
  BY <1>2, <1>3, FS_Union
<1>5. Fields = ({"gross"} \cup {"basic"} \cup {"hra"} \cup {"epf"})
               \cup ({"pt"} \cup {"tds"} \cup {"deductions"} \cup {"net"})
  BY DEF Fields
<1> QED BY <1>4, <1>5

LEMMA Counts ==
  ASSUME NEW S \in SUBSET Fields
  PROVE  /\ Cardinality(S) \in Nat
         /\ Cardinality(S) > 0 <=> S # {}
<1>1. IsFiniteSet(S)
  BY FieldsFinite, FS_Subset
<1> QED BY <1>1, FS_CardinalityType, FS_EmptySet

(* A rounded slip reads as its payroll item, up to half a rupee, and its   *)
(* totals are the printed ones: one that rounds to nothing has parts that  *)
(* round to nothing.                                                       *)
LEMMA RoundedSlip ==
  ASSUME NEW i \in Item, NEW s, s = Rounded(i)
  PROVE  /\ \A f \in Printed : /\ i[f] \in Nat
                               /\ \E k \in Nat : s[f] = 100 * k /\ i[f] - 50 < s[f] /\ s[f] <= i[f] + 50
         /\ s["pt"] = i["pt"] <=> i["pt"] % 100 = 0
         /\ Gross(s) = s["gross"] /\ Deductions(s) = s["deductions"]
<1>1. \A f \in Printed : i[f] \in Nat /\ s[f] = WholeRupees(i[f])
  BY DEF Item, Rounded
<1>2. \A f \in Printed : \E k \in Nat : s[f] = 100 * k /\ i[f] - 50 < s[f] /\ s[f] <= i[f] + 50
  BY <1>1, Rounding
<1>3. /\ i["gross"] = i["basic"] + i["hra"] + i["special"]
      /\ i["deductions"] = i["epf"] + i["pt"] + i["tds"]
  BY DEF Item
<1>4. \A f \in Printed : s[f] = 0 <=> i[f] < 50
  <2> SUFFICES ASSUME NEW f \in Printed PROVE s[f] = 0 <=> i[f] < 50
    OBVIOUS
  <2>1. PICK k \in Nat : s[f] = 100 * k /\ i[f] - 50 < 100 * k /\ 100 * k <= i[f] + 50
    BY <1>2
  <2> QED BY <1>1, <2>1
<1>5. s["pt"] = i["pt"] <=> i["pt"] % 100 = 0
  <2>1. i["pt"] \in Nat /\ s["pt"] = WholeRupees(i["pt"])
    BY <1>1 DEF Printed, Fields
  <2>2. PICK k \in Nat : s["pt"] = 100 * k
    BY <1>2 DEF Printed, Fields
  <2>3. s["pt"] = i["pt"] => i["pt"] % 100 = 0
    BY <2>1, <2>2
  <2> QED BY <2>1, <2>3, WholeAlready
<1>6. Gross(s) = s["gross"]
  <2>1. CASE s["gross"] # 0
    BY <2>1 DEF Gross
  <2>2. CASE s["gross"] = 0
    <3>1. s["basic"] = 0 /\ s["hra"] = 0 /\ s["special"] = 0
      BY <2>2, <1>1, <1>3, <1>4 DEF Printed, Fields
    <3> QED BY <2>2, <3>1 DEF Gross
  <2> QED BY <2>1, <2>2
<1>7. Deductions(s) = s["deductions"]
  <2>1. CASE s["deductions"] # 0
    BY <2>1 DEF Deductions
  <2>2. CASE s["deductions"] = 0
    <3>1. s["epf"] = 0 /\ s["pt"] = 0 /\ s["tds"] = 0
      BY <2>2, <1>1, <1>3, <1>4 DEF Printed, Fields
    <3> QED BY <2>2, <3>1 DEF Deductions
  <2> QED BY <2>1, <2>2
<1> QED BY <1>1, <1>2, <1>5, <1>6, <1>7

(* Three roundings of half a rupee each, but a whole number of rupees.     *)
LEMMA RoundedFormula ==
  ASSUME NEW i \in Item, NEW s, s = Rounded(i)
  PROVE  /\ Calculated(s) \in Int
         /\ Formula(s["net"], Calculated(s))
         /\ Abs(Calculated(s) - i["net"]) <= 100
<1>1. PICK g \in Nat : s["gross"] = 100 * g /\ i["gross"] - 50 < 100 * g /\ 100 * g <= i["gross"] + 50
  BY RoundedSlip DEF Printed, Fields
<1>2. PICK d \in Nat :
        s["deductions"] = 100 * d /\ i["deductions"] - 50 < 100 * d /\ 100 * d <= i["deductions"] + 50
  BY RoundedSlip DEF Printed, Fields
<1>3. PICK n \in Nat : s["net"] = 100 * n /\ i["net"] - 50 < 100 * n /\ 100 * n <= i["net"] + 50
  BY RoundedSlip DEF Printed, Fields
<1>4. /\ i["gross"] = i["net"] + i["deductions"]
      /\ i["gross"] \in Nat /\ i["net"] \in Nat /\ i["deductions"] \in Nat
  BY DEF Item, Printed, Fields
<1>5. Calculated(s) = 100 * g - 100 * d
  BY <1>1, <1>2, RoundedSlip DEF Calculated
<1>6. -2 < n - g + d /\ n - g + d < 2
  BY <1>1, <1>2, <1>3, <1>4
<1>7. 100 * n - (100 * g - 100 * d) <= 100 /\ 100 * n - (100 * g - 100 * d) >= -100
  BY <1>6
<1>8. 100 * g - 100 * d - i["net"] <= 100 /\ 100 * g - 100 * d - i["net"] >= -100
  BY <1>1, <1>2, <1>4
<1> QED BY <1>3, <1>4, <1>5, <1>7, <1>8 DEF Formula, Abs

(* No figure of a rounded slip is out of tolerance but a professional tax  *)
(* that had to be rounded.                                                 *)
LEMMA RoundedFields ==
  ASSUME NEW i \in Item, NEW s, s = Rounded(i), NEW f \in Fields
  PROVE  evaluate_difference(f, Read(s)[f], i[f]) = "CRITICAL_MISMATCH" <=> f = "pt" /\ i["pt"] % 100 # 0
<1> SUFFICES (evaluate_difference(f, Read(s)[f], i[f]) = "CRITICAL_MISMATCH") = (f = "pt" /\ i["pt"] % 100 # 0)
  OBVIOUS
<1>1. PICK k \in Nat : s[f] = 100 * k /\ i[f] - 50 < 100 * k /\ 100 * k <= i[f] + 50
  BY RoundedSlip DEF Printed
<1>2. i[f] \in Nat
  BY RoundedSlip DEF Printed
<1>3. CASE f = "pt"
  <2>1. Read(s)[f] = s["pt"] /\ s["pt"] \in Nat /\ i["pt"] \in Nat
    BY <1>1, <1>2, <1>3 DEF Read, Fields
  <2>2. Absolute[f] = 0 /\ Part[f] = 0
    BY <1>3 DEF Absolute, Part, Fields
  <2>3. s["pt"] = i["pt"] <=> i["pt"] % 100 = 0
    BY RoundedSlip
  <2>4. Abs(s["pt"] - i["pt"]) \in Nat /\ (Abs(s["pt"] - i["pt"]) = 0 <=> s["pt"] = i["pt"])
    BY <2>1 DEF Abs
  <2> QED BY <1>3, <2>1, <2>2, <2>3, <2>4 DEF evaluate_difference
<1>4. CASE f = "net"
  <2>1. Read(s)[f] = IF s["net"] > 0 THEN s["net"] ELSE Calculated(s)
    BY <1>4 DEF Read
  <2>2. Read(s)[f] \in Int /\ Abs(Read(s)[f] - i[f]) <= 100
    BY <1>1, <1>2, <1>4, <2>1, RoundedFormula DEF Abs
  <2>3. Absolute[f] = 200
    BY <1>4 DEF Absolute, Fields
  <2>4. evaluate_difference(f, Read(s)[f], i[f]) # "CRITICAL_MISMATCH"
    BY <1>2, <2>2, <2>3 DEF evaluate_difference, Abs
  <2> QED BY <1>4, <2>4
<1>5. CASE f \notin {"pt", "net"}
  <2>1. Read(s)[f] = s[f]
    BY <1>5, RoundedSlip DEF Read, Fields
  <2>2. Absolute[f] \in {100, 200, 500, 1000}
    BY <1>5 DEF Absolute, Fields
  <2>3. Abs(Read(s)[f] - i[f]) <= 50
    BY <1>1, <1>2, <2>1 DEF Abs
  <2>4. evaluate_difference(f, Read(s)[f], i[f]) # "CRITICAL_MISMATCH"
    BY <1>2, <2>2, <2>3, <1>1, <2>1 DEF evaluate_difference, Abs
  <2> QED BY <1>5, <2>4
<1> QED BY <1>3, <1>4, <1>5

(* Whatever the amounts of the payroll item, ReconciliationEngine.reconcile*)
(* holds printing in whole rupees against the employer exactly when the    *)
(* professional tax of the item has paise.                                 *)
THEOREM RoundingAlwaysJudged == SlipSpec => []RoundedSlipJudged
<1>1. SlipIInv => RoundedSlipJudged
  <2> SUFFICES ASSUME SlipIInv, verdict # NoVerdict, slip = Rounded(item), ~scanned, DOMAIN statutory = {}
               PROVE  verdict.status = "DISCREPANCY_CRITICAL" <=> hasPayroll /\ item["pt"] % 100 # 0
    BY DEF RoundedSlipJudged
  <2>1. item \in Item /\ Seen = slip
    BY DEF SlipIInv, SlipTypeOK, Seen
  <2>2. \A f \in Fields :
          Against(f, Read(Seen)) = "CRITICAL_MISMATCH" <=> hasPayroll /\ f = "pt" /\ item["pt"] % 100 # 0
    BY <2>1, RoundedFields DEF Against
  <2>3. \A f \in Fields : Projected(f, Read(Seen)) = "EXACT"
    BY DEF Projected
  <2>4. \A f \in Fields : FieldStatus(f, Read(Seen)) = "CRITICAL" <=> hasPayroll /\ f = "pt" /\ item["pt"] % 100 # 0
    BY <2>2, <2>3 DEF FieldStatus
  <2>5. Criticals \in SUBSET Fields /\ (Criticals # {} <=> hasPayroll /\ item["pt"] % 100 # 0)
    BY <2>4 DEF Criticals, Fields
  <2>6. FormulaVerified(Seen)
    BY <2>1, RoundedFormula DEF FormulaVerified
  <2>7. /\ Cardinality(Criticals) > 0 <=> hasPayroll /\ item["pt"] % 100 # 0
        /\ verdict.status = Overall(Cardinality(Criticals), Cardinality(Warnings), FormulaVerified(Seen))
    BY <2>5, Counts DEF SlipIInv, Judged
  <2> QED BY <2>6, <2>7 DEF Overall
<1> QED BY SlipInitHolds, SlipNextHolds, <1>1, PTL DEF SlipSpec

(* What a field that is not critical says about its amounts.               *)
LEMMA NotCriticalAgrees ==
  ASSUME NEW f \in Fields, NEW a \in Int, NEW b \in Nat, evaluate_difference(f, a, b) # "CRITICAL_MISMATCH"
  PROVE  Agrees(f, a, b)
<1>1. Abs(a - b) \in Nat /\ Absolute[f] \in Nat /\ Part[f] \in Nat
  BY DEF Abs, Absolute, Part, Fields
<1>2. CASE Abs(a - b) = 0
  BY <1>1, <1>2 DEF Agrees
<1>3. CASE Abs(a - b) # 0
  <2>1. Abs(a - b) <= Absolute[f] \/ (Part[f] > 0 /\ b > 0 /\ Abs(a - b) <= b \div Part[f])
    BY <1>3 DEF evaluate_difference
  <2> QED BY <2>1 DEF Agrees
<1> QED BY <1>2, <1>3

(* A verdict of ReconciliationEngine.reconcile short of critical vouches   *)
(* for every figure of the slip, and for one that could not be read only   *)
(* where next to nothing was paid.                                         *)
THEOREM VerdictsVouch == SlipSpec => []VerdictVouches
<1>1. SlipIInv => VerdictVouches
  <2> SUFFICES ASSUME SlipIInv, verdict # NoVerdict, verdict.status \in {"MATCHED", "DISCREPANCY_WARNING"}
               PROVE  /\ \A f \in Fields :
                           /\ hasPayroll => Agrees(f, Read(Seen)[f], item[f])
                           /\ f \in DOMAIN statutory => Agrees(f, Read(Seen)[f], statutory[f])
                      /\ scanned => (hasPayroll => item["gross"] <= Absolute["gross"])
                      /\ verdict.status = "MATCHED" => verdict.matched = Cardinality(Fields)
    BY DEF VerdictVouches
  <2>1. /\ Criticals \in SUBSET Fields /\ Warnings \in SUBSET Fields
        /\ verdict.status = Overall(Cardinality(Criticals), Cardinality(Warnings), FormulaVerified(Seen))
        /\ verdict.matched = Cardinality(Matched)
    BY DEF SlipIInv, Judged, Criticals, Warnings
  <2>2. Criticals = {}
    BY <2>1, Counts DEF Overall
  <2>3. \A f \in Fields : FieldStatus(f, Read(Seen)) # "CRITICAL"
    BY <2>2 DEF Criticals
  <2>4. \A f \in Fields : /\ Against(f, Read(Seen)) # "CRITICAL_MISMATCH"
                          /\ Projected(f, Read(Seen)) # "CRITICAL_MISMATCH"
    BY <2>3 DEF FieldStatus
  <2>5. Seen \in [Printed -> Nat]
    BY DEF Seen, SlipIInv, SlipTypeOK
  <2>6. /\ Gross(Seen) \in Int /\ Deductions(Seen) \in Int /\ Calculated(Seen) \in Int
    BY <2>5 DEF Gross, Deductions, Calculated, Printed, Fields
  <2>7. \A f \in Fields : Read(Seen)[f] \in Int /\ item[f] \in Nat
    BY <2>5, <2>6 DEF Read, SlipIInv, SlipTypeOK, Item, Printed, Fields
  <2>8. ASSUME NEW f \in Fields
        PROVE  /\ hasPayroll => Agrees(f, Read(Seen)[f], item[f])
               /\ f \in DOMAIN statutory => Agrees(f, Read(Seen)[f], statutory[f])
    <3>1. hasPayroll => Agrees(f, Read(Seen)[f], item[f])
      BY <2>4, <2>7, NotCriticalAgrees DEF Against
    <3>2. f \in DOMAIN statutory => Agrees(f, Read(Seen)[f], statutory[f])
      BY <2>4, <2>7, NotCriticalAgrees DEF Projected, SlipIInv, SlipTypeOK
    <3> QED BY <3>1, <3>2
  <2>9. ASSUME scanned, hasPayroll PROVE item["gross"] <= Absolute["gross"]
    <3>1. Read(Seen)["gross"] = 0
      BY <2>9 DEF Read, Seen, Gross, Printed, Fields
    <3>2. Agrees("gross", 0, item["gross"]) /\ item["gross"] \in Nat
      BY <2>7, <2>8, <2>9, <3>1 DEF Fields
    <3>3. Absolute["gross"] = 1000 /\ Part["gross"] = 1000
      BY DEF Absolute, Part, Fields
    <3> QED BY <3>2, <3>3 DEF Agrees, Abs
  <2>10. ASSUME verdict.status = "MATCHED" PROVE verdict.matched = Cardinality(Fields)
    <3>1. Warnings = {}
      BY <2>1, <2>10, Counts DEF Overall
    <3>2. \A f \in Fields : FieldStatus(f, Read(Seen)) # "WARNING"
      BY <3>1 DEF Warnings, Warned
    <3>3. Matched = Fields
      BY <2>3, <3>2 DEF Matched, FieldStatus
    <3> QED BY <2>1, <3>3
  <2> QED BY <2>8, <2>9, <2>10
<1> QED BY SlipInitHolds, SlipNextHolds, <1>1, PTL DEF SlipSpec

-----------------------------------------------------------------------------
(* Rate limiters: the parts of the invariant.                              *)

(* The calls that no other has overlapped so far.                          *)
Serial == Checks \ overlapped

(* The calls that have come to one of these steps.                         *)
AtStep(steps) == {c \in Checks : limited[c].step \in steps}

(* Two calls under way at once have both been noticed.                     *)
OverlapNoticed == \A c, d \in UnderWay : c # d => c \in overlapped

(* A call takes the steps of the limiter it came to, in the past.          *)
RightSteps ==
  /\ AtStep(RedisSteps) # {} => limiter = "redis"
  /\ AtStep(MemorySteps \cup {"failed"}) # {} => limiter = "memory"
  /\ \A c \in Checks : limited[c].at <= now

(* The list, and what a call has filtered of it, hold admitted calls only. *)
ListAdmitted ==
  /\ stamps \subseteq AtStep({"admitted"})
  /\ \A c \in AtStep({"filtered"}) : limited[c].kept \subseteq AtStep({"admitted"})

(* The list holds every serial call that still counts, so does a copy of   *)
(* it, and so the list that such a copy has replaced.                      *)
ListHolds ==
  limiter = "memory" =>
    \A s \in Serial : limited[s].step = "admitted" /\ limited[s].at + Window > now => s \in stamps

CopyHolds ==
  limiter = "memory" =>
    \A s \in Serial, c \in Checks :
      /\ limited[s].step = "admitted" /\ limited[c].step = "filtered"
      /\ limited[s].at + Window > now
      => s \in limited[c].kept

(* For a serial call that is so from its own time on.                      *)
CountedHolds ==
  limiter = "memory" =>
    \A s, c \in Serial :
      /\ limited[s].step = "admitted" /\ limited[s].at + Window > limited[c].at
      => /\ limited[c].step \in {"arrived", "counted", "below", "full"} => s \in stamps
         /\ limited[c].step = "filtered" => s \in limited[c].kept

(* A serial call comes after all others.                                   *)
LastArrived ==
  \A c \in Serial : limited[c].step \in Moving =>
    \A x \in Checks : limited[x].step # "waiting" => limited[x].at <= limited[c].at

(* It counts the calls of its window and no others.                        *)
ListExact ==
  \A c \in Serial :
    /\ limited[c].step = "filtered" => limited[c].kept \subseteq AdmittedIn(Checks, limited[c].at)
    /\ limited[c].step \in {"counted", "below", "full"} => stamps \subseteq AdmittedIn(Checks, limited[c].at)
    /\ limited[c].step = "below" => ~(Cardinality(stamps) >= MaxRequests)
    /\ limited[c].step = "full" => Cardinality(stamps) >= MaxRequests
    /\ limited[c].step # "failed"

(* The steps of a call whose entry is in the set while it still counts.    *)
Added == {"added", "over", "admitted"}

(* The sorted set holds every call that has added itself and still counts. *)
SetHolds ==
  limiter = "redis" =>
    /\ zset \subseteq AtStep(Added \cup {"refused"})
    /\ \A s \in AtStep(Added) : limited[s].at + Window > now => s \in zset

(* For a serial call, it holds those of its own window and nothing older.  *)
SetExact ==
  limiter = "redis" =>
    \A c \in Serial :
      /\ limited[c].step \in Moving =>
           \A s \in AtStep(Added) : limited[s].at + Window > limited[c].at => s \in zset
      /\ limited[c].step \in RedisSteps => \A s \in zset : limited[s].at \in Span(limited[c].at)
      /\ limited[c].step = "over" => Cardinality(zset) > MaxRequests

(* Of the serial calls, no window admits more than the limit.              *)
SerialLimited == \A t \in Int : Cardinality(AdmittedIn(Serial, t)) <= MaxRequests

(* The other calls answered in the window of d.                            *)
Rivals(d) == {q \in Checks \ {d} : limited[q].step \in Ended /\ limited[q].at \in Span(limited[d].at)}

(* What a refusal knew is still so.                                        *)
RefusalsFounded ==
  overlapped = {} =>
    \A d \in AtStep({"refused"}) :
      /\ limiter = "memory" =>
           /\ Cardinality(AdmittedIn(Checks, limited[d].at)) >= MaxRequests
           /\ \E o \in AdmittedIn(Checks, limited[d].at) : limited[d].retry = RetryAfter(limited[o].at, limited[d].at)
      /\ limiter = "redis" => Cardinality(Rivals(d)) >= MaxRequests

(* Only so many calls have begun.                                          *)
BegunFinite == IsFiniteSet(AtStep(Moving \cup Ended))

(* What holds of the limiter at all times.                                 *)
LimiterInv ==
  /\ LimiterTypeOK /\ BegunFinite /\ OverlapNoticed /\ RightSteps /\ ListAdmitted
  /\ ListHolds /\ CopyHolds /\ CountedHolds /\ LastArrived /\ ListExact /\ SetHolds /\ SetExact
  /\ SerialLimited /\ RefusalsFounded

-----------------------------------------------------------------------------
(* A step of call c leaves the other calls as they are.                    *)
OthersStay(c) == \A d \in Checks \ {c} : limited'[d] = limited[d]

(* c, which goes on, keeps its time and the settings.                      *)
GoesOn(c, from, to) ==
  /\ limited[c].step = from /\ limited'[c].step = to /\ limited'[c].at = limited[c].at
  /\ OthersStay(c) /\ now' = now /\ limiter' = limiter /\ overlapped' = overlapped

(* c, which begins, overlaps those under way.                              *)
Comes(c) ==
  /\ limited[c].step = "waiting" /\ limited'[c].step = "arrived" /\ limited'[c].at = now
  /\ OthersStay(c) /\ now' = now /\ limiter' = limiter
  /\ overlapped \subseteq overlapped' /\ UnderWay \subseteq overlapped' /\ overlapped' \subseteq Checks
  /\ UnderWay # {} => c \in overlapped'

(* What each step does, as the proofs use it: a call arrives ...           *)
LEMMA ArriveEffect ==
  ASSUME LimiterTypeOK, NEW c \in Checks, Arrive(c)
  PROVE  Comes(c) /\ stamps' = stamps /\ zset' = zset /\ LimiterTypeOK'
<1>1. limited \in [Checks -> LimitedCall] /\ now \in 0..LastTick BY DEF LimiterTypeOK
<1>2. limited' = [limited EXCEPT ![c].step = "arrived", ![c].at = now] BY DEF Arrive
<1>3. limited' = [limited EXCEPT ![c] = [limited[c] EXCEPT !.step = "arrived", !.at = now]] BY <1>1, <1>2, Zenon
<1>4. limited[c] \in LimitedCall BY <1>1
<1>5. [limited[c] EXCEPT !.step = "arrived", !.at = now] \in LimitedCall BY <1>1, <1>4 DEF LimitedCall, Moving
<1>6. limited'[c].step = "arrived" /\ limited'[c].at = now BY <1>1, <1>3, <1>4 DEF LimitedCall
<1>7. OthersStay(c) /\ limited' \in [Checks -> LimitedCall] BY <1>1, <1>3, <1>5 DEF OthersStay
<1> QED BY <1>6, <1>7 DEF Arrive, Comes, UnderWay, LimiterTypeOK

(* ... copies what is still in the window of its own time ...              *)
LEMMA FilterEffect ==
  ASSUME LimiterTypeOK, NEW c \in Checks, Filter(c)
  PROVE  /\ GoesOn(c, "arrived", "filtered") /\ limited'[c].kept = StillIn(stamps, limited[c].at) /\ limiter = "memory"
         /\ stamps' = stamps /\ zset' = zset /\ LimiterTypeOK'
<1> DEFINE kept == StillIn(stamps, limited[c].at)
<1>1. limited \in [Checks -> LimitedCall] /\ limited[c] \in LimitedCall BY DEF LimiterTypeOK
<1>2. kept \in SUBSET Checks BY DEF LimiterTypeOK, StillIn
<1>3. limited' = [limited EXCEPT ![c].step = "filtered", ![c].kept = kept] BY DEF Filter
<1> HIDE DEF kept
<1>4. limited' = [limited EXCEPT ![c] = [limited[c] EXCEPT !.step = "filtered", !.kept = kept]] BY <1>1, <1>3, Zenon
<1>5. [limited[c] EXCEPT !.step = "filtered", !.kept = kept] \in LimitedCall
  BY <1>1, <1>2 DEF LimitedCall, Moving, MemorySteps
<1>6. limited'[c].step = "filtered" /\ limited'[c].at = limited[c].at /\ limited'[c].kept = kept
  BY <1>1, <1>4 DEF LimitedCall
<1>7. OthersStay(c) /\ limited' \in [Checks -> LimitedCall] BY <1>1, <1>4, <1>5 DEF OthersStay
<1> QED BY <1>6, <1>7 DEF Filter, GoesOn, Same, LimiterTypeOK, kept

(* ... puts the copy in the place of the list ...                          *)
LEMMA ReplaceEffect ==
  ASSUME LimiterTypeOK, NEW c \in Checks, Replace(c)
  PROVE  GoesOn(c, "filtered", "counted") /\ stamps' = limited[c].kept /\ zset' = zset /\ LimiterTypeOK'
<1>1. limited \in [Checks -> LimitedCall] /\ limited[c] \in LimitedCall BY DEF LimiterTypeOK
<1>2. limited' = [limited EXCEPT ![c].step = "counted", ![c].kept = {}] BY DEF Replace
<1>3. limited' = [limited EXCEPT ![c] = [limited[c] EXCEPT !.step = "counted", !.kept = {}]] BY <1>1, <1>2, Zenon
<1>4. [limited[c] EXCEPT !.step = "counted", !.kept = {}] \in LimitedCall
  BY <1>1 DEF LimitedCall, Moving, MemorySteps
<1>5. limited'[c].step = "counted" /\ limited'[c].at = limited[c].at BY <1>1, <1>3 DEF LimitedCall
<1>6. OthersStay(c) /\ limited' \in [Checks -> LimitedCall] BY <1>1, <1>3, <1>4 DEF OthersStay
<1>7. limited[c].kept \subseteq Checks BY <1>1 DEF LimitedCall
<1> QED BY <1>5, <1>6, <1>7 DEF Replace, GoesOn, Same, LimiterTypeOK

(* The steps that only write where the call has got to.                    *)
LEMMA GoesEffect ==
  ASSUME LimiterTypeOK, NEW c \in Checks,
         NEW to \in {"full", "below", "failed", "pruned", "added", "over", "admitted"}, Goes(c, to)
  PROVE  /\ limited'[c].step = to /\ limited'[c].at = limited[c].at
         /\ OthersStay(c) /\ limited' \in [Checks -> LimitedCall]
<1>1. limited \in [Checks -> LimitedCall] /\ limited[c] \in LimitedCall BY DEF LimiterTypeOK
<1>2. limited' = [limited EXCEPT ![c] = [limited[c] EXCEPT !.step = to]] BY <1>1, Zenon DEF Goes
<1>3. [limited[c] EXCEPT !.step = to] \in LimitedCall BY <1>1 DEF LimitedCall, Moving, MemorySteps, RedisSteps, Ended
<1>4. limited'[c].step = to /\ limited'[c].at = limited[c].at BY <1>1, <1>2 DEF LimitedCall
<1> QED BY <1>1, <1>2, <1>3, <1>4 DEF OthersStay

(* ... goes on to be admitted below the limit only ...                     *)
LEMMA CountEffect ==
  ASSUME LimiterTypeOK, NEW c \in Checks, Count(c)
  PROVE  /\ \/ GoesOn(c, "counted", "full") /\ Cardinality(stamps) >= MaxRequests
            \/ GoesOn(c, "counted", "below") /\ ~(Cardinality(stamps) >= MaxRequests)
         /\ stamps' = stamps /\ zset' = zset /\ LimiterTypeOK'
<1> DEFINE to == IF Cardinality(stamps) >= MaxRequests THEN "full" ELSE "below"
<1>1. Goes(c, to) /\ to \in {"full", "below"} BY DEF Count
<1>2. /\ limited'[c].step = to /\ limited'[c].at = limited[c].at
      /\ OthersStay(c) /\ limited' \in [Checks -> LimitedCall]
  BY <1>1, GoesEffect
<1>3. GoesOn(c, "counted", to) /\ stamps' = stamps /\ zset' = zset /\ LimiterTypeOK'
  BY <1>2 DEF Count, Same, GoesOn, LimiterTypeOK
<1> QED BY <1>3

(* ... and is appended then ...                                            *)
LEMMA AppendEffect ==
  ASSUME LimiterTypeOK, BegunFinite, NEW c \in Checks, AppendStamp(c)
  PROVE  /\ GoesOn(c, "below", "admitted") /\ stamps' = stamps \cup {c}
         /\ zset' = zset /\ LimiterTypeOK'
<1> DEFINE n == Cardinality({d \in Checks : limited[d].step = "admitted"})
<1>1. limited \in [Checks -> LimitedCall] /\ limited[c] \in LimitedCall BY DEF LimiterTypeOK
<1>2. limited' = [limited EXCEPT ![c].step = "admitted", ![c].place = n] /\ stamps' = stamps \cup {c}
  BY DEF AppendStamp
<1>3. n \in Nat
  <2>1. {d \in Checks : limited[d].step = "admitted"} \in SUBSET AtStep(Moving \cup Ended)
    BY DEF AtStep, Ended
  <2> QED BY <2>1, FS_Subset, FS_CardinalityType DEF BegunFinite
<1> HIDE DEF n
<1>4. limited' = [limited EXCEPT ![c] = [limited[c] EXCEPT !.step = "admitted", !.place = n]] BY <1>1, <1>2, Zenon
<1>5. [limited[c] EXCEPT !.step = "admitted", !.place = n] \in LimitedCall BY <1>1, <1>3 DEF LimitedCall, Ended
<1>6. limited'[c].step = "admitted" /\ limited'[c].at = limited[c].at BY <1>1, <1>4 DEF LimitedCall
<1>7. OthersStay(c) /\ limited' \in [Checks -> LimitedCall] BY <1>1, <1>4, <1>5 DEF OthersStay
<1> QED BY <1>2, <1>6, <1>7 DEF AppendStamp, Same, GoesOn, LimiterTypeOK

(* In Redis, a call prunes to the window of its own time ...               *)
LEMMA PruneEffect ==
  ASSUME LimiterTypeOK, NEW c \in Checks, Prune(c)
  PROVE  /\ GoesOn(c, "arrived", "pruned") /\ zset' = StillIn(zset, limited[c].at) /\ limiter = "redis"
         /\ stamps' = stamps /\ LimiterTypeOK'
<1>1. Goes(c, "pruned") BY DEF Prune
<1>2. /\ limited'[c].step = "pruned" /\ limited'[c].at = limited[c].at
      /\ OthersStay(c) /\ limited' \in [Checks -> LimitedCall]
  BY <1>1, GoesEffect
<1> QED BY <1>2 DEF Prune, Same, GoesOn, LimiterTypeOK, StillIn

(* ... adds itself ...                                                     *)
LEMMA AddEffect ==
  ASSUME LimiterTypeOK, NEW c \in Checks, Add(c)
  PROVE  GoesOn(c, "pruned", "added") /\ stamps' = stamps /\ zset' = zset \cup {c} /\ LimiterTypeOK'
<1>1. Goes(c, "added") BY DEF Add
<1>2. /\ limited'[c].step = "added" /\ limited'[c].at = limited[c].at
      /\ OthersStay(c) /\ limited' \in [Checks -> LimitedCall]
  BY <1>1, GoesEffect
<1> QED BY <1>2 DEF Add, Same, GoesOn, LimiterTypeOK

(* ... and is admitted up to the limit, itself included.                   *)
LEMMA CountAllEffect ==
  ASSUME LimiterTypeOK, NEW c \in Checks, CountAll(c)
  PROVE  /\ \/ GoesOn(c, "added", "over") /\ Cardinality(zset) > MaxRequests
            \/ GoesOn(c, "added", "admitted") /\ ~(Cardinality(zset) > MaxRequests)
         /\ stamps' = stamps /\ zset' = zset /\ LimiterTypeOK'
<1> DEFINE to == IF Cardinality(zset) > MaxRequests THEN "over" ELSE "admitted"
<1>1. Goes(c, to) /\ to \in {"full", "failed", "pruned", "added", "over", "admitted"} BY DEF CountAll
<1> HIDE DEF to
<1>2. /\ limited'[c].step = to /\ limited'[c].at = limited[c].at
      /\ OthersStay(c) /\ limited' \in [Checks -> LimitedCall]
  BY <1>1, GoesEffect
<1>3. GoesOn(c, "added", to) /\ stamps' = stamps /\ zset' = zset /\ LimiterTypeOK'
  BY <1>2 DEF CountAll, Same, GoesOn, LimiterTypeOK
<1> QED BY <1>3 DEF to

(* What a call is told is a number, of seconds or of a whole window.       *)
LEMMA RetryType ==
  ASSUME NEW a \in Int, NEW t \in Int PROVE RetryAfter(a, t) \in Int
BY LimiterAssumption DEF RetryAfter

(* A refused call keeps its time.                                          *)
LEMMA ToldEffect ==
  ASSUME LimiterTypeOK, NEW c \in Checks, NEW r \in Int,
         limited' = [limited EXCEPT ![c].step = "refused", ![c].retry = r]
  PROVE  /\ limited'[c].step = "refused" /\ limited'[c].at = limited[c].at /\ limited'[c].retry = r
         /\ OthersStay(c) /\ limited' \in [Checks -> LimitedCall]
<1>1. limited \in [Checks -> LimitedCall] /\ limited[c] \in LimitedCall BY DEF LimiterTypeOK
<1>2. limited' = [limited EXCEPT ![c] = [limited[c] EXCEPT !.step = "refused", !.retry = r]] BY <1>1, Zenon
<1>3. [limited[c] EXCEPT !.step = "refused", !.retry = r] \in LimitedCall BY <1>1 DEF LimitedCall, Ended
<1>4. limited'[c].step = "refused" /\ limited'[c].at = limited[c].at /\ limited'[c].retry = r
  BY <1>1, <1>2 DEF LimitedCall
<1> QED BY <1>1, <1>2, <1>3, <1>4 DEF OthersStay

(* ... or refused, by one entry of the list, if there is one.              *)
LEMMA TurnAwayEffect ==
  ASSUME LimiterTypeOK, NEW c \in Checks, TurnAway(c)
  PROVE  /\ \/ stamps = {} /\ GoesOn(c, "full", "failed")
            \/ /\ GoesOn(c, "full", "refused")
               /\ \E o \in stamps : limited'[c].retry = RetryAfter(limited[o].at, limited[c].at)
         /\ stamps' = stamps /\ zset' = zset /\ LimiterTypeOK'
<1>1. CASE stamps = {} /\ Goes(c, "failed")
  <2>1. /\ limited'[c].step = "failed" /\ limited'[c].at = limited[c].at
        /\ OthersStay(c) /\ limited' \in [Checks -> LimitedCall]
    BY <1>1, GoesEffect
  <2> QED BY <1>1, <2>1 DEF TurnAway, Same, GoesOn, LimiterTypeOK
<1>2. ASSUME NEW o \in stamps,
             limited' = [limited EXCEPT ![c].step = "refused",
                                        ![c].retry = RetryAfter(limited[o].at, limited[c].at)]
      PROVE  /\ GoesOn(c, "full", "refused") /\ limited'[c].retry = RetryAfter(limited[o].at, limited[c].at)
             /\ stamps' = stamps /\ zset' = zset /\ LimiterTypeOK'
  <2>1. limited[o].at \in Int /\ limited[c].at \in Int BY DEF LimiterTypeOK, LimitedCall
  <2>2. RetryAfter(limited[o].at, limited[c].at) \in Int BY <2>1, RetryType
  <2>3. /\ limited'[c].step = "refused" /\ limited'[c].at = limited[c].at
        /\ limited'[c].retry = RetryAfter(limited[o].at, limited[c].at)
        /\ OthersStay(c) /\ limited' \in [Checks -> LimitedCall]
    BY <1>2, <2>2, ToldEffect
  <2> QED BY <2>3 DEF TurnAway, Same, GoesOn, LimiterTypeOK
<1> QED BY <1>1, <1>2 DEF TurnAway

(* Above it, it is refused.                                                *)
LEMMA TurnAwayOverEffect ==
  ASSUME LimiterTypeOK, NEW c \in Checks, TurnAwayOver(c)
  PROVE  GoesOn(c, "over", "refused") /\ stamps' = stamps /\ zset' = zset /\ LimiterTypeOK'
<1>1. \E r \in Int : limited' = [limited EXCEPT ![c].step = "refused", ![c].retry = r]
  <2>1. CASE limited' = [limited EXCEPT ![c].step = "refused", ![c].retry = Window \div Second]
    <3>1. Window \div Second \in Int BY LimiterAssumption
    <3> QED BY <2>1, <3>1
  <2>2. ASSUME NEW o \in zset,
               limited' = [limited EXCEPT ![c].step = "refused",
                                          ![c].retry = RetryAfter(limited[o].at, limited[c].at)]
        PROVE  \E r \in Int : limited' = [limited EXCEPT ![c].step = "refused", ![c].retry = r]
    <3>1. limited[o].at \in Int /\ limited[c].at \in Int BY DEF LimiterTypeOK, LimitedCall
    <3>2. RetryAfter(limited[o].at, limited[c].at) \in Int BY <3>1, RetryType
    <3> QED BY <2>2, <3>2
  <2> QED BY <2>1, <2>2 DEF TurnAwayOver
<1>2. PICK r \in Int : limited' = [limited EXCEPT ![c].step = "refused", ![c].retry = r] BY <1>1
<1>3. /\ limited'[c].step = "refused" /\ limited'[c].at = limited[c].at
      /\ OthersStay(c) /\ limited' \in [Checks -> LimitedCall]
  BY <1>2, ToldEffect
<1> QED BY <1>3 DEF TurnAwayOver, Same, GoesOn, LimiterTypeOK

-----------------------------------------------------------------------------
(* What a step looks like to the calls that do not take it.                *)
MovesOn(c) ==
  \E from \in Moving, to \in (Moving \cup Ended) \ {"arrived"} :
    /\ GoesOn(c, from, to)
    /\ to \in MemorySteps \cup {"failed"} => from \in MemorySteps \/ limiter = "memory"
    /\ to \in RedisSteps => from \in RedisSteps \/ limiter = "redis"

(* Every action of a call is one or the other.                             *)
LEMMA Movements ==
  ASSUME LimiterTypeOK, BegunFinite, NEW c \in Checks
  PROVE  /\ Arrive(c) => LimiterTypeOK' /\ Comes(c)
         /\ \/ Filter(c) \/ Replace(c) \/ Count(c) \/ AppendStamp(c) \/ TurnAway(c)
            \/ Prune(c) \/ Add(c) \/ CountAll(c) \/ TurnAwayOver(c)
            => LimiterTypeOK' /\ MovesOn(c)
<1> USE DEF MovesOn, Moving, MemorySteps, RedisSteps, Ended
<1>1. Arrive(c) => LimiterTypeOK' /\ Comes(c) BY ArriveEffect
<1>2. ASSUME Filter(c) PROVE LimiterTypeOK' /\ MovesOn(c) BY <1>2, FilterEffect
<1>3. ASSUME Replace(c) PROVE LimiterTypeOK' /\ MovesOn(c) BY <1>3, ReplaceEffect
<1>4. ASSUME Count(c) PROVE LimiterTypeOK' /\ MovesOn(c) BY <1>4, CountEffect
<1>10. ASSUME AppendStamp(c) PROVE LimiterTypeOK' /\ MovesOn(c) BY <1>10, AppendEffect
<1>5. ASSUME TurnAway(c) PROVE LimiterTypeOK' /\ MovesOn(c) BY <1>5, TurnAwayEffect
<1>6. ASSUME Prune(c) PROVE LimiterTypeOK' /\ MovesOn(c) BY <1>6, PruneEffect
<1>7. ASSUME Add(c) PROVE LimiterTypeOK' /\ MovesOn(c) BY <1>7, AddEffect
<1>8. ASSUME CountAll(c) PROVE LimiterTypeOK' /\ MovesOn(c) BY <1>8, CountAllEffect
<1>9. ASSUME TurnAwayOver(c) PROVE LimiterTypeOK' /\ MovesOn(c) BY <1>9, TurnAwayOverEffect
<1> QED BY <1>1, <1>2, <1>3, <1>4, <1>5, <1>6, <1>7, <1>8, <1>9, <1>10

(* A step is of the clock or of one call, and keeps the types.             *)
LEMMA StepKinds ==
  ASSUME LimiterTypeOK, BegunFinite, LimiterNext
  PROVE  /\ LimiterTypeOK'
         /\ ClockTick \/ \E c \in Checks : MovesOn(c) \/ Comes(c)
<1>1. CASE ClockTick BY <1>1, LimiterAssumption DEF ClockTick, LimiterTypeOK
<1>2. CASE ~ClockTick BY <1>2, Movements DEF LimiterNext
<1> QED BY <1>1, <1>2

(* Of the calls that no other overlaps, only the one that moves is under   *)
(* way afterwards.                                                         *)
LEMMA SerialAlone ==
  ASSUME OverlapNoticed, NEW c \in Checks, MovesOn(c) \/ Comes(c)
  PROVE  /\ OverlapNoticed' /\ Serial' \subseteq Serial
         /\ \A d \in Serial' : limited[d].step \in Moving => d = c
<1> USE DEF OverlapNoticed, Serial, UnderWay, OthersStay
<1>1. CASE MovesOn(c) BY <1>1 DEF MovesOn, GoesOn
<1>2. CASE Comes(c) BY <1>2 DEF Comes
<1> QED BY <1>1, <1>2

(* A serial call under way is the one that moves.                          *)
LEMMA UnderWayMoves ==
  ASSUME OverlapNoticed, NEW c \in Checks, MovesOn(c) \/ Comes(c),
         NEW d \in Serial', limited'[d].step \in Moving
  PROVE  d = c
<1>1. d \in Checks BY DEF Serial
<1>2. CASE d # c
  <2>1. limited'[d] = limited[d] BY <1>1, <1>2 DEF MovesOn, GoesOn, Comes, OthersStay
  <2> QED BY <2>1, SerialAlone
<1> QED BY <1>2

(* The steps keep each part of the invariant: overlaps are noticed,        *)
LEMMA OverlapStep ==
  ASSUME LimiterTypeOK, BegunFinite, OverlapNoticed, LimiterNext
  PROVE  OverlapNoticed'
<1>1. CASE ClockTick BY <1>1 DEF ClockTick, OverlapNoticed, UnderWay
<1>2. CASE ~ClockTick BY <1>2, StepKinds, SerialAlone
<1> QED BY <1>1, <1>2

(* calls keep to their limiter and to the past,                            *)
LEMMA RightStepsStep ==
  ASSUME LimiterTypeOK, BegunFinite, RightSteps, LimiterNext
  PROVE  RightSteps'
<1> USE DEF RightSteps, AtStep, Moving, MemorySteps, RedisSteps, OthersStay
<1>1. CASE ClockTick BY <1>1 DEF ClockTick, LimiterTypeOK, LimitedCall
<1>2. ASSUME NEW c \in Checks, MovesOn(c) PROVE RightSteps' BY <1>2 DEF MovesOn, GoesOn, Ended
<1>3. ASSUME NEW c \in Checks, Comes(c) PROVE RightSteps' BY <1>3 DEF Comes, LimiterTypeOK
<1> QED BY <1>1, <1>2, <1>3, StepKinds

(* the calls that have begun stay finitely many,                           *)
LEMMA BegunFiniteStep ==
  ASSUME LimiterTypeOK, BegunFinite, LimiterNext
  PROVE  BegunFinite'
<1> DEFINE B == AtStep(Moving \cup Ended)
<1>1. IsFiniteSet(B) BY DEF BegunFinite
<1>2. CASE ClockTick BY <1>2 DEF ClockTick, BegunFinite, AtStep
<1>3. ASSUME NEW c \in Checks, MovesOn(c) \/ Comes(c) PROVE BegunFinite'
  <2>1. AtStep(Moving \cup Ended)' \in SUBSET (B \cup {c})
    BY <1>3 DEF MovesOn, Comes, GoesOn, OthersStay, AtStep, Moving
  <2>2. IsFiniteSet(B \cup {c}) BY <1>1, FS_AddElement
  <2> QED BY <2>1, <2>2, FS_Subset DEF BegunFinite
<1> QED BY <1>2, <1>3, StepKinds

-----------------------------------------------------------------------------
(* The list of the process-local limiter.                                  *)

(* What was admitted at some time stays so.                                *)
LEMMA AdmittedStays ==
  ASSUME LimiterTypeOK, NEW c \in Checks, MovesOn(c) \/ Comes(c), NEW t \in Int
  PROVE  AdmittedIn(Checks, t) \subseteq AdmittedIn(Checks, t)' /\ AtStep({"admitted"}) \subseteq AtStep({"admitted"})'
BY DEF AdmittedIn, AtStep, MovesOn, Comes, GoesOn, OthersStay, Moving, MemorySteps, RedisSteps

(* the list stays one of admitted calls.                                   *)
LEMMA ListAdmittedStep ==
  ASSUME LimiterTypeOK, BegunFinite, ListAdmitted, LimiterNext
  PROVE  ListAdmitted'
<1> USE DEF ListAdmitted, AtStep, OthersStay
<1>1. CASE ClockTick BY <1>1 DEF ClockTick
<1>2. ASSUME NEW c \in Checks, Arrive(c) PROVE ListAdmitted' BY <1>2, ArriveEffect DEF Comes
<1>3. ASSUME NEW c \in Checks, Filter(c) PROVE ListAdmitted' BY <1>3, FilterEffect DEF GoesOn, StillIn
<1>4. ASSUME NEW c \in Checks, Replace(c) PROVE ListAdmitted' BY <1>4, ReplaceEffect DEF GoesOn
<1>5. ASSUME NEW c \in Checks, Count(c) PROVE ListAdmitted' BY <1>5, CountEffect DEF GoesOn
<1>11. ASSUME NEW c \in Checks, AppendStamp(c) PROVE ListAdmitted' BY <1>11, AppendEffect DEF GoesOn
<1>6. ASSUME NEW c \in Checks, TurnAway(c) PROVE ListAdmitted' BY <1>6, TurnAwayEffect DEF GoesOn
<1>7. ASSUME NEW c \in Checks, Prune(c) PROVE ListAdmitted' BY <1>7, PruneEffect DEF GoesOn
<1>8. ASSUME NEW c \in Checks, Add(c) PROVE ListAdmitted' BY <1>8, AddEffect DEF GoesOn
<1>9. ASSUME NEW c \in Checks, CountAll(c) PROVE ListAdmitted' BY <1>9, CountAllEffect DEF GoesOn
<1>10. ASSUME NEW c \in Checks, TurnAwayOver(c) PROVE ListAdmitted' BY <1>10, TurnAwayOverEffect DEF GoesOn
<1> QED BY <1>1, <1>2, <1>3, <1>4, <1>5, <1>6, <1>7, <1>8, <1>9, <1>10, <1>11 DEF LimiterNext

(* A limiter that is not in use takes no steps.                            *)
LEMMA MemoryKinds ==
  ASSUME RightSteps, LimiterNext, limiter = "memory"
  PROVE  \/ ClockTick
         \/ \E c \in Checks : Arrive(c) \/ Filter(c) \/ Replace(c) \/ Count(c) \/ AppendStamp(c) \/ TurnAway(c)
BY DEF RightSteps, AtStep, RedisSteps, LimiterNext, Prune, Add, CountAll, TurnAwayOver

(* Nor does the other one.                                                 *)
LEMMA RedisKinds ==
  ASSUME RightSteps, LimiterNext, limiter = "redis"
  PROVE  \/ ClockTick
         \/ \E c \in Checks : Arrive(c) \/ Prune(c) \/ Add(c) \/ CountAll(c) \/ TurnAwayOver(c)
BY DEF RightSteps, AtStep, MemorySteps, LimiterNext, Filter, Replace, Count, AppendStamp, TurnAway

(* Nobody changes the settings.                                            *)
LEMMA SettingsStay ==
  ASSUME LimiterTypeOK, BegunFinite, LimiterNext
  PROVE  limiter' = limiter
BY StepKinds DEF ClockTick, MovesOn, GoesOn, Comes

(* The times of calls are past.                                            *)
LEMMA TimesPast ==
  ASSUME LimiterTypeOK, RightSteps
  PROVE  now \in Nat /\ \A x \in Checks : limited[x].at \in Nat /\ limited[x].at <= now
BY LimiterAssumption DEF LimiterTypeOK, LimitedCall, RightSteps

(* A serial call comes after those that have begun.                        *)
LEMMA LastArrivedStep ==
  ASSUME LimiterTypeOK, BegunFinite, OverlapNoticed, RightSteps, LastArrived, LimiterNext
  PROVE  LastArrived'
<1>1. now \in Nat /\ \A x \in Checks : limited[x].at \in Nat /\ limited[x].at <= now BY TimesPast
<1>2. CASE ClockTick BY <1>2 DEF ClockTick, Serial, LastArrived
<1>3. ASSUME NEW c \in Checks, MovesOn(c) \/ Comes(c) PROVE LastArrived'
  <2> SUFFICES ASSUME NEW d \in Serial', limited'[d].step \in Moving, NEW x \in Checks, limited'[x].step # "waiting"
               PROVE  limited'[x].at <= limited'[d].at
    BY DEF LastArrived
  <2>1. d = c /\ d \in Serial BY <1>3, UnderWayMoves, SerialAlone
  <2>2. CASE MovesOn(c)
    <3>1. /\ limited[c].step \in Moving /\ limited'[c].at = limited[c].at
          /\ \A y \in Checks \ {c} : limited'[y] = limited[y]
      BY <2>2 DEF MovesOn, GoesOn, OthersStay
    <3>2. limited[x].step # "waiting" BY <3>1 DEF Moving, MemorySteps, RedisSteps
    <3>3. limited[x].at <= limited[d].at BY <2>1, <3>1, <3>2 DEF LastArrived
    <3>4. limited'[x].at = limited[x].at BY <3>1
    <3> QED BY <2>1, <3>1, <3>3, <3>4
  <2>3. CASE Comes(c) BY <1>1, <2>1, <2>3 DEF Comes, OthersStay
  <2> QED BY <1>3, <2>2, <2>3
<1> QED BY <1>2, <1>3, StepKinds

(* A copy that replaces the list loses no serial call that counts.         *)
LEMMA ListHoldsStep ==
  ASSUME LimiterTypeOK, BegunFinite, OverlapNoticed, RightSteps, ListHolds, CopyHolds, LimiterNext
  PROVE  ListHolds'
<1> SUFFICES ASSUME limiter = "memory",
                    NEW s \in Serial', limited'[s].step = "admitted", limited'[s].at + Window > now'
             PROVE  s \in stamps'
  BY SettingsStay DEF ListHolds
<1>1. s \in Checks BY DEF Serial
<1>2. now \in Nat /\ \A x \in Checks : limited[x].at \in Nat /\ limited[x].at <= now BY TimesPast
<1> USE DEF OthersStay, ListHolds
<1>3. CASE ClockTick
  <2>1. limited' = limited /\ stamps' = stamps /\ now' = now + 1 /\ s \in Serial BY <1>3 DEF ClockTick, Serial
  <2> QED BY <1>1, <1>2, <2>1, LimiterAssumption
<1>4. ASSUME NEW c \in Checks, Arrive(c) PROVE s \in stamps'
  <2>1. Comes(c) /\ stamps' = stamps BY <1>4, ArriveEffect
  <2>2. s \in Serial BY <2>1, SerialAlone
  <2> QED BY <1>1, <2>1, <2>2 DEF Comes
<1>5. ASSUME NEW c \in Checks, Filter(c) PROVE s \in stamps'
  BY <1>1, <1>5, FilterEffect DEF GoesOn, Serial
<1>6. ASSUME NEW c \in Checks, Replace(c) PROVE s \in stamps'
  BY <1>1, <1>6, ReplaceEffect DEF GoesOn, CopyHolds, Serial
<1>7. ASSUME NEW c \in Checks, Count(c) PROVE s \in stamps'
  BY <1>1, <1>7, CountEffect DEF GoesOn, Serial
<1>9. ASSUME NEW c \in Checks, AppendStamp(c) PROVE s \in stamps'
  BY <1>1, <1>9, AppendEffect DEF GoesOn, Serial
<1>8. ASSUME NEW c \in Checks, TurnAway(c) PROVE s \in stamps'
  BY <1>1, <1>8, TurnAwayEffect DEF GoesOn, Serial
<1> QED BY <1>3, <1>4, <1>5, <1>6, <1>7, <1>8, <1>9, MemoryKinds

(* What is admitted while a copy is out has been overlapped.               *)
LEMMA CopyHoldsStep ==
  ASSUME LimiterTypeOK, BegunFinite, OverlapNoticed, RightSteps, ListHolds, CopyHolds, LimiterNext
  PROVE  CopyHolds'
<1> SUFFICES ASSUME limiter = "memory", NEW s \in Serial', NEW d \in Checks,
                    limited'[s].step = "admitted", limited'[d].step = "filtered",
                    limited'[s].at + Window > now'
             PROVE  s \in limited'[d].kept
  BY SettingsStay DEF CopyHolds
<1>1. s \in Checks BY DEF Serial
<1>2. now \in Nat /\ \A x \in Checks : limited[x].at \in Nat /\ limited[x].at <= now BY TimesPast
<1> USE DEF OthersStay, CopyHolds
<1>3. CASE ClockTick
  <2>1. limited' = limited /\ now' = now + 1 /\ s \in Serial BY <1>3 DEF ClockTick, Serial
  <2> QED BY <1>1, <1>2, <2>1, LimiterAssumption
<1>4. ASSUME NEW c \in Checks, Arrive(c) PROVE s \in limited'[d].kept
  <2>1. Comes(c) BY <1>4, ArriveEffect
  <2>2. s \in Serial BY <2>1, SerialAlone
  <2> QED BY <1>1, <2>1, <2>2 DEF Comes
<1>5. ASSUME NEW c \in Checks, Filter(c) PROVE s \in limited'[d].kept
  <2>1. GoesOn(c, "arrived", "filtered") /\ limited'[c].kept = StillIn(stamps, limited[c].at) BY <1>5, FilterEffect
  <2>2. limited'[s] = limited[s] /\ now' = now /\ s \in Serial BY <1>1, <2>1 DEF GoesOn, Serial
  <2>3. CASE d = c
    <3>1. s \in stamps BY <2>2 DEF ListHolds
    <3>2. limited[s].at + Window > limited[c].at BY <1>1, <1>2, <2>2, LimiterAssumption
    <3> QED BY <2>1, <2>3, <3>1, <3>2 DEF StillIn, InWindow
  <2>4. CASE d # c BY <2>1, <2>2, <2>4 DEF GoesOn
  <2> QED BY <2>3, <2>4
<1>6. ASSUME NEW c \in Checks, Replace(c) PROVE s \in limited'[d].kept
  BY <1>1, <1>6, ReplaceEffect DEF GoesOn, Serial
<1>7. ASSUME NEW c \in Checks, Count(c) PROVE s \in limited'[d].kept
  BY <1>1, <1>7, CountEffect DEF GoesOn, Serial
<1>9. ASSUME NEW c \in Checks, AppendStamp(c) PROVE s \in limited'[d].kept
  <2>1. GoesOn(c, "below", "admitted") BY <1>9, AppendEffect
  <2>2. d # c /\ limited'[d] = limited[d] /\ s \in Serial BY <2>1 DEF GoesOn, Serial
  <2>3. s # c
    <3>1. c \in UnderWay /\ d \in UnderWay BY <2>1, <2>2 DEF GoesOn, UnderWay, Moving, MemorySteps
    <3>2. c \in overlapped BY <2>2, <3>1 DEF OverlapNoticed
    <3> QED BY <2>2, <3>2 DEF Serial
  <2> QED BY <1>1, <2>1, <2>2, <2>3 DEF GoesOn
<1>8. ASSUME NEW c \in Checks, TurnAway(c) PROVE s \in limited'[d].kept
  BY <1>1, <1>8, TurnAwayEffect DEF GoesOn, Serial
<1> QED BY <1>3, <1>4, <1>5, <1>6, <1>7, <1>8, <1>9, MemoryKinds

(* While a serial call goes on, nobody else touches the list.              *)
LEMMA CountedHoldsStep ==
  ASSUME LimiterTypeOK, BegunFinite, OverlapNoticed, RightSteps, ListHolds, CountedHolds, LimiterNext
  PROVE  CountedHolds'
<1> SUFFICES ASSUME limiter = "memory", NEW s \in Serial', NEW d \in Serial',
                    limited'[s].step = "admitted", limited'[s].at + Window > limited'[d].at
             PROVE  /\ limited'[d].step \in {"arrived", "counted", "below", "full"} => s \in stamps'
                    /\ limited'[d].step = "filtered" => s \in limited'[d].kept
  BY SettingsStay DEF CountedHolds
<1> DEFINE Goal == /\ limited'[d].step \in {"arrived", "counted", "below", "full"} => s \in stamps'
                   /\ limited'[d].step = "filtered" => s \in limited'[d].kept
<1>1. s \in Checks /\ d \in Checks BY DEF Serial
<1>2. CASE ClockTick BY <1>2 DEF ClockTick, Serial, CountedHolds
<1>3. ASSUME NEW c \in Checks, MovesOn(c) \/ Comes(c),
             d = c /\ s \in Serial /\ d \in Serial /\ (s # c => limited'[s] = limited[s]) => Goal
      PROVE  Goal
  <2>1. s \in Serial /\ d \in Serial BY <1>3, SerialAlone
  <2>2. s # c => limited'[s] = limited[s] BY <1>1, <1>3 DEF MovesOn, GoesOn, Comes, OthersStay
  <2>3. limited'[d].step \in Moving => d = c BY <1>3, UnderWayMoves
  <2> QED BY <1>3, <2>1, <2>2, <2>3 DEF Moving, MemorySteps
<1> USE DEF CountedHolds
<1>4. ASSUME NEW c \in Checks, Arrive(c) PROVE Goal
  <2>1. Comes(c) /\ stamps' = stamps BY <1>4, ArriveEffect
  <2>2. ASSUME d = c, s \in Serial, s # c => limited'[s] = limited[s] PROVE Goal
    BY <2>1, <2>2 DEF Comes, ListHolds
  <2> QED BY <1>3, <2>1, <2>2
<1>5. ASSUME NEW c \in Checks, Filter(c) PROVE Goal
  <2>1. GoesOn(c, "arrived", "filtered") /\ limited'[c].kept = StillIn(stamps, limited[c].at) BY <1>5, FilterEffect
  <2>2. ASSUME d = c, s \in Serial, d \in Serial, s # c => limited'[s] = limited[s] PROVE Goal
    BY <2>1, <2>2 DEF GoesOn, StillIn, InWindow
  <2> QED BY <1>3, <1>5, <2>2, Movements
<1>6. ASSUME NEW c \in Checks, Replace(c) PROVE Goal
  <2>1. GoesOn(c, "filtered", "counted") /\ stamps' = limited[c].kept BY <1>6, ReplaceEffect
  <2>2. ASSUME d = c, s \in Serial, d \in Serial, s # c => limited'[s] = limited[s] PROVE Goal
    BY <2>1, <2>2 DEF GoesOn
  <2> QED BY <1>3, <1>6, <2>2, Movements
<1>7. ASSUME NEW c \in Checks, Count(c) PROVE Goal
  <2>1. (GoesOn(c, "counted", "full") \/ GoesOn(c, "counted", "below")) /\ stamps' = stamps BY <1>7, CountEffect
  <2>2. ASSUME d = c, s \in Serial, d \in Serial, s # c => limited'[s] = limited[s] PROVE Goal
    BY <2>1, <2>2 DEF GoesOn
  <2> QED BY <1>3, <1>7, <2>2, Movements
<1>9. ASSUME NEW c \in Checks, AppendStamp(c) PROVE Goal
  <2>1. GoesOn(c, "below", "admitted") /\ stamps' = stamps \cup {c} BY <1>9, AppendEffect
  <2>2. ASSUME d = c, s \in Serial, d \in Serial, s # c => limited'[s] = limited[s] PROVE Goal
    BY <2>1, <2>2 DEF GoesOn
  <2> QED BY <1>3, <1>9, <2>2, Movements
<1>8. ASSUME NEW c \in Checks, TurnAway(c) PROVE Goal
  <2>1. GoesOn(c, "full", "failed") \/ GoesOn(c, "full", "refused") BY <1>8, TurnAwayEffect
  <2>2. ASSUME d = c PROVE Goal BY <2>1, <2>2 DEF GoesOn
  <2> QED BY <1>3, <1>8, <2>2, Movements
<1> QED BY <1>2, <1>4, <1>5, <1>6, <1>7, <1>8, <1>9, MemoryKinds

(* What it has filtered is what it counts.                                 *)
LEMMA ListExactStep ==
  ASSUME LimiterTypeOK, BegunFinite, OverlapNoticed, RightSteps, ListAdmitted, LastArrived, ListExact, LimiterNext
  PROVE  ListExact'
<1> DEFINE Exact(d) ==
      /\ limited[d].step = "filtered" => limited[d].kept \subseteq AdmittedIn(Checks, limited[d].at)
      /\ limited[d].step \in {"counted", "below", "full"} => stamps \subseteq AdmittedIn(Checks, limited[d].at)
      /\ limited[d].step = "below" => ~(Cardinality(stamps) >= MaxRequests)
      /\ limited[d].step = "full" => Cardinality(stamps) >= MaxRequests
      /\ limited[d].step # "failed"
<1>1. CASE ClockTick BY <1>1, Zenon DEF ClockTick, Serial, ListExact, AdmittedIn
<1>2. ASSUME NEW c \in Checks, MovesOn(c) \/ Comes(c),
             c \in Serial /\ c \in Serial' => Exact(c)'
      PROVE  ListExact'
  <2>1. SUFFICES ASSUME NEW d \in Serial' PROVE Exact(d)' BY DEF ListExact
  <2>2. d \in Checks /\ d \in Serial BY <1>2, SerialAlone DEF Serial
  <2>3. CASE d = c BY <1>2, <2>2, <2>3
  <2>4. CASE d # c
    <3>1. limited'[d] = limited[d] BY <1>2, <2>2, <2>4 DEF MovesOn, GoesOn, Comes, OthersStay
    <3>2. limited'[d].step \notin {"filtered", "counted", "below", "full"} BY <1>2, <2>4, UnderWayMoves DEF Moving, MemorySteps
    <3>3. limited[d].step # "failed" BY <2>2 DEF ListExact
    <3> QED BY <3>1, <3>2, <3>3
  <2> QED BY <2>3, <2>4
<1>11. ASSUME NEW c \in Checks, Arrive(c) PROVE ListExact'
  <2>1. Comes(c) BY <1>11, ArriveEffect
  <2> QED BY <1>2, <2>1 DEF Comes
<1>3. ASSUME NEW c \in Checks, Filter(c) PROVE ListExact'
  <2>1. GoesOn(c, "arrived", "filtered") /\ limited'[c].kept = StillIn(stamps, limited[c].at) BY <1>3, FilterEffect
  <2>2. MovesOn(c) BY <1>3, Movements
  <2>3. ASSUME c \in Serial PROVE limited'[c].kept \subseteq AdmittedIn(Checks, limited[c].at)'
    <3>1. SUFFICES ASSUME NEW x \in stamps, limited[x].at + Window > limited[c].at
                   PROVE  x \in AdmittedIn(Checks, limited[c].at)'
      BY <2>1 DEF StillIn, InWindow
    <3>2. x \in Checks /\ limited[x].step = "admitted" BY DEF ListAdmitted, AtStep
    <3>3. limited[x].at <= limited[c].at BY <2>1, <2>3, <3>2 DEF LastArrived, GoesOn, Moving
    <3>4. limited[x].at \in Nat /\ limited[c].at \in Nat BY <3>2, TimesPast
    <3>5. limited'[x] = limited[x] /\ limited'[c].at = limited[c].at BY <2>1, <3>2 DEF GoesOn, OthersStay
    <3> QED BY <3>1, <3>2, <3>3, <3>4, <3>5, LimiterAssumption DEF AdmittedIn, Span
  <2> QED BY <1>2, <2>1, <2>2, <2>3 DEF GoesOn
<1>4. ASSUME NEW c \in Checks, Replace(c) PROVE ListExact'
  <2>1. GoesOn(c, "filtered", "counted") /\ stamps' = limited[c].kept BY <1>4, ReplaceEffect
  <2>2. MovesOn(c) BY <1>4, Movements
  <2>3. limited[c].at \in Int /\ limited'[c].at = limited[c].at BY <2>1 DEF GoesOn, LimiterTypeOK, LimitedCall
  <2>4. c \in Serial => stamps' \subseteq AdmittedIn(Checks, limited[c].at) BY <2>1 DEF ListExact, GoesOn
  <2>5. \A t \in Int : AdmittedIn(Checks, t) \subseteq AdmittedIn(Checks, t)' BY <2>2, AdmittedStays
  <2>6. AdmittedIn(Checks, limited[c].at) \subseteq AdmittedIn(Checks, limited[c].at)'
    BY <2>3, <2>5 DEF AdmittedIn
  <2> QED BY <1>2, <2>1, <2>2, <2>4, <2>6 DEF GoesOn
<1>5. ASSUME NEW c \in Checks, Count(c) PROVE ListExact'
  <2> DEFINE Reached == Cardinality(stamps) >= MaxRequests
  <2>1. \/ GoesOn(c, "counted", "full") /\ stamps' = stamps /\ Reached
        \/ GoesOn(c, "counted", "below") /\ stamps' = stamps /\ ~Reached
    BY <1>5, CountEffect
  <2>2. MovesOn(c) BY <1>5, Movements
  <2>3. stamps' = stamps => Reached' = Reached OBVIOUS
  <2>4. c \in Serial => stamps' \subseteq AdmittedIn(Checks, limited[c].at) BY <2>1 DEF ListExact, GoesOn
  <2>5. limited[c].at \in Int /\ limited'[c].at = limited[c].at BY <2>1 DEF GoesOn, LimiterTypeOK, LimitedCall
  <2>6. \A t \in Int : AdmittedIn(Checks, t) \subseteq AdmittedIn(Checks, t)' BY <2>2, AdmittedStays
  <2>7. AdmittedIn(Checks, limited[c].at) \subseteq AdmittedIn(Checks, limited[c].at)'
    BY <2>5, <2>6 DEF AdmittedIn
  <2> HIDE DEF Reached
  <2>8. \/ limited'[c].step = "full" /\ Reached'
        \/ limited'[c].step = "below" /\ ~Reached'
    BY <2>1, <2>3 DEF GoesOn
  <2> QED BY <1>2, <2>2, <2>4, <2>7, <2>5, <2>8 DEF Reached
<1>12. ASSUME NEW c \in Checks, AppendStamp(c) PROVE ListExact'
  <2>1. GoesOn(c, "below", "admitted") BY <1>12, AppendEffect
  <2>2. MovesOn(c) BY <1>12, Movements
  <2> QED BY <1>2, <2>1, <2>2 DEF GoesOn
<1>6. ASSUME NEW c \in Checks, TurnAway(c) PROVE ListExact'
  <2>1. GoesOn(c, "full", "refused") \/ (stamps = {} /\ GoesOn(c, "full", "failed")) BY <1>6, TurnAwayEffect
  <2>2. MovesOn(c) BY <1>6, Movements
  <2>3. CASE GoesOn(c, "full", "refused") BY <1>2, <2>2, <2>3 DEF GoesOn
  <2>4. CASE stamps = {} /\ GoesOn(c, "full", "failed")
    <3>1. c \notin Serial
      <4>1. Cardinality(stamps) = 0 BY <2>4, FS_EmptySet
      <4> QED BY <2>4, <4>1, LimiterAssumption DEF ListExact, GoesOn
    <3> QED BY <1>2, <2>2, <3>1
  <2> QED BY <2>1, <2>3, <2>4
<1>7. ASSUME NEW c \in Checks, Prune(c) PROVE ListExact'
  <2>1. GoesOn(c, "arrived", "pruned") BY <1>7, PruneEffect
  <2>2. MovesOn(c) BY <1>7, Movements
  <2> QED BY <1>2, <2>1, <2>2 DEF GoesOn
<1>8. ASSUME NEW c \in Checks, Add(c) PROVE ListExact'
  <2>1. GoesOn(c, "pruned", "added") BY <1>8, AddEffect
  <2>2. MovesOn(c) BY <1>8, Movements
  <2> QED BY <1>2, <2>1, <2>2 DEF GoesOn
<1>9. ASSUME NEW c \in Checks, CountAll(c) PROVE ListExact'
  <2>1. GoesOn(c, "added", "over") \/ GoesOn(c, "added", "admitted") BY <1>9, CountAllEffect
  <2>2. MovesOn(c) BY <1>9, Movements
  <2> QED BY <1>2, <2>1, <2>2 DEF GoesOn
<1>10. ASSUME NEW c \in Checks, TurnAwayOver(c) PROVE ListExact'
  <2>1. GoesOn(c, "over", "refused") BY <1>10, TurnAwayOverEffect
  <2>2. MovesOn(c) BY <1>10, Movements
  <2> QED BY <1>2, <2>1, <2>2 DEF GoesOn
<1> QED BY <1>1, <1>3, <1>4, <1>5, <1>6, <1>7, <1>8, <1>9, <1>10, <1>11, <1>12 DEF LimiterNext

-----------------------------------------------------------------------------
(* The sorted set of the Redis limiter.                                    *)
LEMMA SetHoldsStep ==
  ASSUME LimiterTypeOK, BegunFinite, RightSteps, SetHolds, LimiterNext
  PROVE  SetHolds'
<1> SUFFICES ASSUME limiter = "redis"
             PROVE  /\ zset' \subseteq AtStep(Added \cup {"refused"})'
                    /\ \A s \in AtStep(Added)' : limited'[s].at + Window > now' => s \in zset'
  BY SettingsStay DEF SetHolds
<1> USE DEF AtStep, Added, OthersStay
<1>1. now \in Nat /\ \A x \in Checks : limited[x].at \in Nat /\ limited[x].at <= now BY TimesPast
<1>2. /\ \A s \in zset : s \in Checks /\ limited[s].step \in Added \cup {"refused"}
      /\ \A s \in Checks : limited[s].step \in Added /\ limited[s].at + Window > now => s \in zset
  BY DEF SetHolds
<1>3. CASE ClockTick
  <2>1. limited' = limited /\ zset' = zset /\ now' = now + 1 BY <1>3 DEF ClockTick
  <2> QED BY <1>1, <1>2, <2>1, LimiterAssumption
<1>4. ASSUME NEW c \in Checks, Prune(c)
      PROVE  /\ zset' \subseteq AtStep(Added \cup {"refused"})'
             /\ \A s \in AtStep(Added)' : limited'[s].at + Window > now' => s \in zset'
  <2>1. GoesOn(c, "arrived", "pruned") /\ zset' = StillIn(zset, limited[c].at) BY <1>4, PruneEffect
  <2>2. \A s \in Checks : limited[s].at + Window > now => limited[s].at + Window > limited[c].at
    BY <1>1, LimiterAssumption
  <2> QED BY <1>2, <2>1, <2>2 DEF GoesOn, StillIn, InWindow
<1>8. ASSUME NEW c \in Checks, Arrive(c)
      PROVE  /\ zset' \subseteq AtStep(Added \cup {"refused"})'
             /\ \A s \in AtStep(Added)' : limited'[s].at + Window > now' => s \in zset'
  <2>1. Comes(c) /\ zset' = zset BY <1>8, ArriveEffect
  <2> QED BY <1>2, <2>1 DEF Comes
<1>5. ASSUME NEW c \in Checks, Add(c)
      PROVE  /\ zset' \subseteq AtStep(Added \cup {"refused"})'
             /\ \A s \in AtStep(Added)' : limited'[s].at + Window > now' => s \in zset'
  <2>1. GoesOn(c, "pruned", "added") /\ zset' = zset \cup {c} BY <1>5, AddEffect
  <2> QED BY <1>2, <2>1 DEF GoesOn
<1>6. ASSUME NEW c \in Checks, CountAll(c)
      PROVE  /\ zset' \subseteq AtStep(Added \cup {"refused"})'
             /\ \A s \in AtStep(Added)' : limited'[s].at + Window > now' => s \in zset'
  <2>1. (GoesOn(c, "added", "over") \/ GoesOn(c, "added", "admitted")) /\ zset' = zset BY <1>6, CountAllEffect
  <2> QED BY <1>2, <2>1 DEF GoesOn
<1>7. ASSUME NEW c \in Checks, TurnAwayOver(c)
      PROVE  /\ zset' \subseteq AtStep(Added \cup {"refused"})'
             /\ \A s \in AtStep(Added)' : limited'[s].at + Window > now' => s \in zset'
  <2>1. GoesOn(c, "over", "refused") /\ zset' = zset BY <1>7, TurnAwayOverEffect
  <2> QED BY <1>2, <2>1 DEF GoesOn
<1> QED BY <1>3, <1>4, <1>5, <1>6, <1>7, <1>8, RedisKinds

(* While a serial call goes on, nobody else touches the set.               *)
LEMMA SetExactStep ==
  ASSUME LimiterTypeOK, BegunFinite, OverlapNoticed, RightSteps, LastArrived, SetHolds, SetExact, LimiterNext
  PROVE  SetExact'
<1> DEFINE Goal(d) ==
      /\ limited[d].step \in Moving => \A s \in AtStep(Added) : limited[s].at + Window > limited[d].at => s \in zset
      /\ limited[d].step \in RedisSteps => \A s \in zset : limited[s].at \in Span(limited[d].at)
      /\ limited[d].step = "over" => Cardinality(zset) > MaxRequests
<1> SUFFICES ASSUME limiter = "redis", NEW d \in Serial'
             PROVE  Goal(d)'
  BY SettingsStay DEF SetExact
<1>1. now \in Nat /\ \A x \in Checks : limited[x].at \in Nat /\ limited[x].at <= now BY TimesPast
<1>2. /\ \A s \in zset : s \in Checks /\ limited[s].step \in Added \cup {"refused"}
      /\ \A s \in Checks : limited[s].step \in Added /\ limited[s].at + Window > now => s \in zset
  BY DEF SetHolds, AtStep
<1>3. CASE ClockTick BY <1>3, Zenon DEF ClockTick, Serial, SetExact, AtStep
<1>8. ASSUME NEW c \in Checks, MovesOn(c) \/ Comes(c), d = c /\ c \in Serial => Goal(d)' PROVE Goal(d)'
  <2>1. limited'[d].step \in Moving => d = c BY <1>8, UnderWayMoves
  <2> QED BY <1>8, <2>1, SerialAlone DEF Moving, RedisSteps
<1>9. ASSUME NEW c \in Checks, Arrive(c) PROVE Goal(d)'
  <2>1. Comes(c) /\ zset' = zset BY <1>9, ArriveEffect
  <2>2. ASSUME d = c PROVE Goal(d)' BY <1>2, <2>1, <2>2 DEF Comes, OthersStay, AtStep, Added, RedisSteps
  <2> QED BY <1>8, <2>1, <2>2
<1>4. ASSUME NEW c \in Checks, Prune(c) PROVE Goal(d)'
  <2>1. GoesOn(c, "arrived", "pruned") /\ zset' = StillIn(zset, limited[c].at) BY <1>4, PruneEffect
  <2>2. SUFFICES ASSUME d = c, c \in Serial PROVE Goal(d)' BY <1>4, <1>8, Movements
  <2>3. limited'[d].at = limited[c].at /\ limited'[d].step = "pruned" BY <2>1, <2>2 DEF GoesOn
  <2>4. \A s \in Checks : limited'[s].step \in Added \cup {"refused"} => limited'[s] = limited[s]
    BY <2>1 DEF GoesOn, OthersStay, Added
  <2>5. \A s \in AtStep(Added)' : limited'[s].at + Window > limited[c].at => s \in zset'
    BY <2>1, <2>2, <2>4 DEF AtStep, StillIn, InWindow, SetExact, GoesOn, Moving
  <2>6. ASSUME NEW s \in zset' PROVE limited'[s].at \in Span(limited[c].at)
    <3>1. s \in zset /\ limited[s].at + Window > limited[c].at BY <2>1 DEF StillIn, InWindow
    <3>2. s # c BY <1>2, <2>1, <3>1 DEF GoesOn, Added
    <3>3. limited'[s] = limited[s] BY <1>2, <2>1, <3>1, <3>2 DEF GoesOn, OthersStay
    <3>4. limited[s].at <= limited[c].at
      BY <1>2, <2>1, <2>2, <3>1 DEF LastArrived, GoesOn, Moving, Added
    <3>5. limited[s].at \in Nat /\ limited[c].at \in Nat BY <1>1, <1>2, <3>1
    <3> QED BY <3>1, <3>3, <3>4, <3>5, LimiterAssumption DEF Span
  <2> QED BY <2>3, <2>5, <2>6
<1>5. ASSUME NEW c \in Checks, Add(c) PROVE Goal(d)'
  <2>1. GoesOn(c, "pruned", "added") /\ zset' = zset \cup {c} BY <1>5, AddEffect
  <2>2. SUFFICES ASSUME d = c, c \in Serial PROVE Goal(d)' BY <1>5, <1>8, Movements
  <2>3. d = c /\ c \in Serial BY <2>2
  <2>4. /\ \A s \in AtStep(Added) : limited[s].at + Window > limited[c].at => s \in zset
        /\ \A s \in zset : limited[s].at \in Span(limited[c].at)
    BY <2>1, <2>3 DEF SetExact, GoesOn, Moving, RedisSteps
  <2>5. limited[c].at \in Span(limited[c].at) BY <1>1, LimiterAssumption DEF Span
  <2>6. limited'[c].at = limited[c].at /\ limited'[c].step = "added" /\ \A s \in Checks \ {c} : limited'[s] = limited[s]
    BY <2>1 DEF GoesOn, OthersStay
  <2>7. \A s \in zset' : limited'[s].at \in Span(limited'[d].at) BY <1>2, <2>1, <2>3, <2>4, <2>5, <2>6
  <2>8. \A s \in AtStep(Added)' : limited'[s].at + Window > limited'[d].at => s \in zset'
    BY <2>1, <2>3, <2>4, <2>6 DEF AtStep
  <2> QED BY <2>3, <2>6, <2>7, <2>8
<1>6. ASSUME NEW c \in Checks, CountAll(c) PROVE Goal(d)'
  <2>1. /\ \/ GoesOn(c, "added", "over") /\ Cardinality(zset) > MaxRequests
           \/ GoesOn(c, "added", "admitted")
        /\ zset' = zset
    BY <1>6, CountAllEffect
  <2>2. SUFFICES ASSUME d = c, c \in Serial PROVE Goal(d)' BY <1>6, <1>8, Movements
  <2>3. d = c /\ c \in Serial BY <2>2
  <2> SUFFICES ASSUME limited'[c].step \in Moving PROVE Goal(d)' BY <2>3 DEF Moving, RedisSteps
  <2>4. GoesOn(c, "added", "over") /\ Cardinality(zset) > MaxRequests
    BY <2>1 DEF GoesOn, Moving, MemorySteps, RedisSteps
  <2>5. /\ \A s \in AtStep(Added) : limited[s].at + Window > limited[c].at => s \in zset
        /\ \A s \in zset : limited[s].at \in Span(limited[c].at)
    BY <2>3, <2>4 DEF SetExact, GoesOn, Moving, RedisSteps
  <2>6. limited'[c].at = limited[c].at /\ limited[c].step \in Added /\ \A s \in Checks \ {c} : limited'[s] = limited[s]
    BY <2>4 DEF GoesOn, OthersStay, Added
  <2>7. \A s \in zset' : limited'[s].at \in Span(limited'[d].at) BY <1>2, <2>1, <2>3, <2>5, <2>6
  <2>8. \A s \in AtStep(Added)' : limited'[s].at + Window > limited'[d].at => s \in zset'
    BY <2>1, <2>3, <2>5, <2>6 DEF AtStep
  <2>9. Cardinality(zset') > MaxRequests BY <2>1, <2>4, Zenon
  <2> QED BY <2>7, <2>8, <2>9
<1>7. ASSUME NEW c \in Checks, TurnAwayOver(c) PROVE Goal(d)'
  <2>1. GoesOn(c, "over", "refused") BY <1>7, TurnAwayOverEffect
  <2>2. ASSUME d = c PROVE Goal(d)' BY <2>1, <2>2 DEF GoesOn, Moving, MemorySteps, RedisSteps
  <2> QED BY <1>7, <1>8, <2>2, Movements
<1> QED BY <1>3, <1>4, <1>5, <1>6, <1>7, <1>9, RedisKinds

-----------------------------------------------------------------------------
(* The limit.                                                              *)

(* Sets of calls that have begun are finite, smaller ones have fewer.      *)
LEMMA BegunCount ==
  ASSUME BegunFinite, NEW T, T \subseteq AtStep(Moving \cup Ended), NEW S, S \subseteq T
  PROVE  /\ IsFiniteSet(T) /\ IsFiniteSet(S) /\ Cardinality(S) \in Nat /\ Cardinality(T) \in Nat
         /\ Cardinality(S) <= Cardinality(T)
<1>1. IsFiniteSet(T) BY FS_Subset DEF BegunFinite
<1> QED BY <1>1, FS_Subset, FS_CardinalityType

(* Who has been admitted has begun.                                        *)
LEMMA AdmittedBegun ==
  ASSUME NEW S \in SUBSET Checks, NEW t
  PROVE  AdmittedIn(S, t) \subseteq AtStep(Moving \cup Ended)
BY DEF AdmittedIn, AtStep, Ended

(* Only the call that moves can become admitted.                           *)
LEMMA OneMoreAdmitted ==
  ASSUME OverlapNoticed, NEW c \in Checks, MovesOn(c) \/ Comes(c), NEW t \in Int
  PROVE  /\ AdmittedIn(Serial, t)' \subseteq AdmittedIn(Serial, t) \cup {c}
         /\ c \notin AdmittedIn(Serial, t)' => AdmittedIn(Serial, t)' \subseteq AdmittedIn(Serial, t)
         /\ c \in AdmittedIn(Serial, t)' => c \in Serial /\ limited'[c].step = "admitted" /\ limited'[c].at \in Span(t)
<1>1. Serial' \subseteq Serial BY SerialAlone
<1>2. \A d \in Checks \ {c} : limited'[d] = limited[d] BY DEF MovesOn, GoesOn, Comes, OthersStay
<1>3. Serial' \subseteq Checks BY DEF Serial
<1> QED BY <1>1, <1>2, <1>3 DEF AdmittedIn

(* One more admission still fits in every window it falls into.            *)
LEMMA SerialLimitedStep ==
  ASSUME LimiterTypeOK, BegunFinite, OverlapNoticed, RightSteps, ListAdmitted, ListExact, CountedHolds, SetHolds, SetExact,
         SerialLimited, LimiterNext
  PROVE  SerialLimited'
<1>1. CASE ClockTick BY <1>1, Zenon DEF ClockTick, Serial, SerialLimited, AdmittedIn
<1>2. ASSUME NEW t \in Int, NEW c \in Checks, MovesOn(c) \/ Comes(c),
             c \notin AdmittedIn(Serial, t)'
      PROVE  Cardinality(AdmittedIn(Serial, t)') <= MaxRequests
  <2>1. AdmittedIn(Serial, t)' \subseteq AdmittedIn(Serial, t) BY <1>2, OneMoreAdmitted
  <2>2. AdmittedIn(Serial, t) \subseteq AtStep(Moving \cup Ended) BY AdmittedBegun DEF Serial
  <2>3. Cardinality(AdmittedIn(Serial, t)') <= Cardinality(AdmittedIn(Serial, t))
        /\ Cardinality(AdmittedIn(Serial, t)') \in Nat /\ Cardinality(AdmittedIn(Serial, t)) \in Nat
    BY <2>1, <2>2, BegunCount
  <2> QED BY <2>3, LimiterAssumption DEF SerialLimited
<1>3. ASSUME NEW t \in Int, NEW c \in Checks, AppendStamp(c), MovesOn(c), c \in AdmittedIn(Serial, t)'
      PROVE  Cardinality(AdmittedIn(Serial, t)') <= MaxRequests
  <2>1. c \in Serial /\ limited'[c].step = "admitted" /\ limited'[c].at \in Span(t) BY <1>3, OneMoreAdmitted
  <2>2. GoesOn(c, "below", "admitted") /\ ~(Cardinality(stamps) >= MaxRequests)
    BY <1>3, <2>1, AppendEffect DEF GoesOn, ListExact
  <2>3. limiter = "memory" BY <2>2 DEF GoesOn, RightSteps, AtStep, MemorySteps
  <2>4. AdmittedIn(Serial, t) \subseteq stamps
    <3>1. SUFFICES ASSUME NEW s \in AdmittedIn(Serial, t) PROVE s \in stamps OBVIOUS
    <3>2. s \in Serial /\ limited[s].step = "admitted" /\ limited[s].at \in Span(t) BY DEF AdmittedIn
    <3>3. limited[c].at \in Span(t) /\ limited[c].step = "below" BY <2>1, <2>2 DEF GoesOn
    <3>4. limited[s].at + Window > limited[c].at BY <3>2, <3>3, LimiterAssumption DEF Span
    <3> QED BY <2>1, <2>3, <3>2, <3>3, <3>4 DEF CountedHolds
  <2>5. AdmittedIn(Serial, t)' \subseteq stamps \cup {c} BY <1>3, <2>4, OneMoreAdmitted
  <2>6. stamps \subseteq AtStep(Moving \cup Ended) BY DEF ListAdmitted, AtStep, Ended
  <2>7. IsFiniteSet(stamps) /\ Cardinality(stamps) \in Nat BY <2>6, BegunCount
  <2>8. IsFiniteSet(stamps \cup {c}) /\ Cardinality(stamps \cup {c}) <= Cardinality(stamps) + 1
    <3>1. Cardinality(stamps \cup {c}) = IF c \in stamps THEN Cardinality(stamps) ELSE Cardinality(stamps) + 1
      BY <2>7, FS_AddElement, Zenon
    <3>2. IsFiniteSet(stamps \cup {c}) BY <2>7, FS_AddElement
    <3> QED BY <2>7, <3>1, <3>2
  <2>9. /\ Cardinality(AdmittedIn(Serial, t)') <= Cardinality(stamps \cup {c})
        /\ Cardinality(AdmittedIn(Serial, t)') \in Nat /\ Cardinality(stamps \cup {c}) \in Nat
    BY <2>5, <2>8, FS_Subset, FS_CardinalityType
  <2> QED BY <2>2, <2>7, <2>8, <2>9, LimiterAssumption
<1>4. ASSUME NEW t \in Int, NEW c \in Checks, CountAll(c), MovesOn(c), c \in AdmittedIn(Serial, t)'
      PROVE  Cardinality(AdmittedIn(Serial, t)') <= MaxRequests
  <2>1. c \in Serial /\ limited'[c].step = "admitted" /\ limited'[c].at \in Span(t) BY <1>4, OneMoreAdmitted
  <2>2. GoesOn(c, "added", "admitted") /\ ~(Cardinality(zset) > MaxRequests)
    BY <1>4, <2>1, CountAllEffect DEF GoesOn
  <2>3. limiter = "redis" BY <2>2 DEF GoesOn, RightSteps, AtStep, RedisSteps
  <2>4. \A s \in AtStep(Added) : limited[s].at + Window > limited[c].at => s \in zset
    BY <2>1, <2>2, <2>3 DEF SetExact, GoesOn, Moving, RedisSteps
  <2>5. limited[c].at \in Span(t) /\ limited[c].step = "added" BY <2>1, <2>2 DEF GoesOn
  <2>6. ASSUME NEW s \in AdmittedIn(Serial, t) \cup {c} PROVE s \in zset
    <3>1. s \in AtStep(Added) /\ limited[s].at \in Span(t) BY <2>5 DEF AdmittedIn, AtStep, Added, Serial
    <3>2. limited[s].at + Window > limited[c].at BY <2>5, <3>1, LimiterAssumption DEF Span
    <3> QED BY <2>4, <3>1, <3>2
  <2>7. AdmittedIn(Serial, t)' \subseteq zset BY <1>4, <2>6, OneMoreAdmitted
  <2>8. zset \subseteq AtStep(Moving \cup Ended)
    BY <2>3 DEF SetHolds, AtStep, Added, Moving, RedisSteps, Ended
  <2>9. /\ Cardinality(AdmittedIn(Serial, t)') <= Cardinality(zset)
        /\ Cardinality(AdmittedIn(Serial, t)') \in Nat /\ Cardinality(zset) \in Nat
    BY <2>7, <2>8, BegunCount
  <2> QED BY <2>2, <2>9, LimiterAssumption
<1>5. ASSUME NEW t \in Int, ~ClockTick PROVE Cardinality(AdmittedIn(Serial, t)') <= MaxRequests
  <2>1. PICK c \in Checks : MovesOn(c) \/ Comes(c) BY <1>5, StepKinds
  <2>2. CASE c \notin AdmittedIn(Serial, t)' BY <1>2, <2>1, <2>2
  <2>3. CASE c \in AdmittedIn(Serial, t)'
    <3>1. limited'[c].step = "admitted" BY <2>1, <2>3, OneMoreAdmitted
    <3>2. MovesOn(c) /\ limited[c].step # "admitted"
      BY <2>1, <3>1 DEF MovesOn, GoesOn, Comes, Moving, MemorySteps, RedisSteps
    <3>3. AppendStamp(c) \/ CountAll(c)
      <4>1. PICK e \in Checks : \/ Arrive(e) \/ Filter(e) \/ Replace(e) \/ Count(e) \/ AppendStamp(e) \/ TurnAway(e)
                                \/ Prune(e) \/ Add(e) \/ CountAll(e) \/ TurnAwayOver(e)
        BY <1>5 DEF LimiterNext
      <4>2. OthersStay(e)
        BY <4>1, ArriveEffect, FilterEffect, ReplaceEffect, CountEffect, AppendEffect, TurnAwayEffect,
           PruneEffect, AddEffect, CountAllEffect, TurnAwayOverEffect DEF Comes, GoesOn
      <4>3. e = c BY <3>1, <3>2, <4>2 DEF OthersStay
      <4> QED BY <3>1, <4>1, <4>3, ArriveEffect, FilterEffect, ReplaceEffect, CountEffect, TurnAwayEffect,
                 PruneEffect, AddEffect, TurnAwayOverEffect DEF Comes, GoesOn
    <3> QED BY <1>3, <1>4, <2>3, <3>2, <3>3
  <2> QED BY <2>2, <2>3
<1> QED BY <1>1, <1>5 DEF SerialLimited

-----------------------------------------------------------------------------
(* Refusals.                                                               *)

(* A call that has ended stays as it is, and so does the ground for an     *)
(* earlier refusal.                                                        *)
LEMMA OldRefusal ==
  ASSUME LimiterTypeOK, BegunFinite, BegunFinite', RefusalsFounded,
         NEW c \in Checks, MovesOn(c) \/ Comes(c),
         overlapped = {}, limiter' = limiter,
         NEW d \in Checks, d # c, limited'[d].step = "refused"
  PROVE  /\ limiter = "memory" =>
              /\ Cardinality(AdmittedIn(Checks, limited[d].at)') >= MaxRequests
              /\ \E o \in AdmittedIn(Checks, limited[d].at)' :
                   limited'[d].retry = RetryAfter(limited'[o].at, limited'[d].at)
         /\ limiter = "redis" => Cardinality(Rivals(d)') >= MaxRequests
<1>1. \A x \in Checks \ {c} : limited'[x] = limited[x] BY DEF MovesOn, GoesOn, Comes, OthersStay
<1>2. limited[c].step \notin Ended BY DEF MovesOn, GoesOn, Comes, Moving, MemorySteps, RedisSteps, Ended
<1>3. limited'[d] = limited[d] /\ limited[d].step = "refused" BY <1>1
<1>4. AdmittedIn(Checks, limited[d].at)' \subseteq AtStep(Moving \cup Ended)'
  BY DEF AdmittedIn, AtStep, Ended
<1>5. AdmittedIn(Checks, limited[d].at) \subseteq AdmittedIn(Checks, limited[d].at)'
  <2>1. \A x \in AdmittedIn(Checks, limited[d].at) : x # c /\ limited'[x] = limited[x]
    BY <1>1, <1>2 DEF AdmittedIn, Ended
  <2> QED BY <1>3, <2>1 DEF AdmittedIn
<1>6. Cardinality(AdmittedIn(Checks, limited[d].at)) <= Cardinality(AdmittedIn(Checks, limited[d].at)')
      /\ Cardinality(AdmittedIn(Checks, limited[d].at)) \in Nat
      /\ Cardinality(AdmittedIn(Checks, limited[d].at)') \in Nat
  <2>1. IsFiniteSet(AdmittedIn(Checks, limited[d].at)') BY <1>4, FS_Subset DEF BegunFinite
  <2> QED BY <1>5, <2>1, FS_Subset, FS_CardinalityType
<1>7. ASSUME limiter = "memory"
      PROVE  /\ Cardinality(AdmittedIn(Checks, limited[d].at)') >= MaxRequests
             /\ \E o \in AdmittedIn(Checks, limited[d].at)' :
                  limited'[d].retry = RetryAfter(limited'[o].at, limited'[d].at)
  <2>1. Cardinality(AdmittedIn(Checks, limited[d].at)) >= MaxRequests BY <1>3, <1>7 DEF RefusalsFounded, AtStep
  <2>2. PICK o \in AdmittedIn(Checks, limited[d].at) : limited[d].retry = RetryAfter(limited[o].at, limited[d].at)
    BY <1>3, <1>7 DEF RefusalsFounded, AtStep
  <2>3. limited'[o] = limited[o] BY <1>1, <1>2 DEF AdmittedIn, Ended
  <2>4. o \in AdmittedIn(Checks, limited[d].at)' BY <1>5
  <2> QED BY <1>3, <1>6, <2>1, <2>2, <2>3, <2>4, LimiterAssumption
<1>8. ASSUME limiter = "redis" PROVE Cardinality(Rivals(d)') >= MaxRequests
  <2>1. Cardinality(Rivals(d)) >= MaxRequests BY <1>3, <1>8 DEF RefusalsFounded, AtStep
  <2>2. Rivals(d) \subseteq Rivals(d)' BY <1>1, <1>2, <1>3 DEF Rivals
  <2>3. Rivals(d)' \subseteq AtStep(Moving \cup Ended)' BY DEF Rivals, AtStep
  <2>4. IsFiniteSet(Rivals(d)') BY <2>3, FS_Subset DEF BegunFinite
  <2>5. Cardinality(Rivals(d)) <= Cardinality(Rivals(d)') /\ Cardinality(Rivals(d)) \in Nat
        /\ Cardinality(Rivals(d)') \in Nat
    BY <2>2, <2>4, FS_Subset, FS_CardinalityType
  <2> QED BY <2>1, <2>5, LimiterAssumption
<1> QED BY <1>7, <1>8

(* A new refusal has its ground in what the call has just counted.         *)
LEMMA RefusalsFoundedStep ==
  ASSUME LimiterTypeOK, BegunFinite, OverlapNoticed, RightSteps, ListAdmitted, ListExact, SetHolds, SetExact,
         RefusalsFounded, LimiterNext
  PROVE  RefusalsFounded'
<1>1. CASE ClockTick BY <1>1, Zenon DEF ClockTick, RefusalsFounded, AtStep, AdmittedIn, Rivals
<1>2. CASE ~ClockTick
  <2> SUFFICES ASSUME overlapped' = {}, NEW d \in Checks, limited'[d].step = "refused"
               PROVE  /\ limiter' = "memory" =>
                           /\ Cardinality(AdmittedIn(Checks, limited[d].at)') >= MaxRequests
                           /\ \E o \in AdmittedIn(Checks, limited[d].at)' :
                                limited'[d].retry = RetryAfter(limited'[o].at, limited'[d].at)
                      /\ limiter' = "redis" => Cardinality(Rivals(d)') >= MaxRequests
    BY DEF RefusalsFounded, AtStep
  <2>1. PICK c \in Checks : \/ Arrive(c) \/ Filter(c) \/ Replace(c) \/ Count(c) \/ AppendStamp(c) \/ TurnAway(c)
                            \/ Prune(c) \/ Add(c) \/ CountAll(c) \/ TurnAwayOver(c)
    BY <1>2 DEF LimiterNext
  <2>2. OthersStay(c) /\ limiter' = limiter /\ BegunFinite'
    BY <2>1, ArriveEffect, FilterEffect, ReplaceEffect, CountEffect, AppendEffect, TurnAwayEffect, PruneEffect,
       AddEffect, CountAllEffect, TurnAwayOverEffect, BegunFiniteStep DEF Comes, GoesOn
  <2>3. MovesOn(c) \/ Comes(c) BY <2>1, Movements
  <2>4. overlapped = {} BY <2>3 DEF MovesOn, GoesOn, Comes
  <2>5. CASE d # c BY <2>2, <2>3, <2>4, <2>5, OldRefusal
  <2>6. CASE d = c
    <3>1. TurnAway(c) \/ TurnAwayOver(c)
      BY <2>1, <2>6, ArriveEffect, FilterEffect, ReplaceEffect, CountEffect, AppendEffect, PruneEffect,
         AddEffect, CountAllEffect
      DEF Comes, GoesOn
    <3>2. limited[c].at \in Int /\ limited'[c].at = limited[c].at
      BY <3>1, TurnAwayEffect, TurnAwayOverEffect DEF GoesOn, LimiterTypeOK, LimitedCall
    <3>3. CASE TurnAway(c)
      <4>1. /\ GoesOn(c, "full", "refused")
            /\ \E o \in stamps : limited'[c].retry = RetryAfter(limited[o].at, limited[c].at)
        BY <2>6, <3>3, TurnAwayEffect DEF GoesOn
      <4>2. limiter = "memory" BY <4>1 DEF GoesOn, RightSteps, AtStep, MemorySteps
      <4>3. stamps \subseteq AdmittedIn(Checks, limited[c].at) /\ Cardinality(stamps) >= MaxRequests
        BY <2>4, <4>1 DEF ListExact, Serial, GoesOn
      <4>4. AdmittedIn(Checks, limited[c].at) \subseteq AdmittedIn(Checks, limited[c].at)'
        <5>1. \A x \in AdmittedIn(Checks, limited[c].at) : x # c /\ limited'[x] = limited[x]
          BY <4>1 DEF GoesOn, OthersStay, AdmittedIn
        <5> QED BY <3>2, <5>1 DEF AdmittedIn
      <4>5. AdmittedIn(Checks, limited[c].at)' \subseteq AtStep(Moving \cup Ended)'
        BY DEF AdmittedIn, AtStep, Ended
      <4>6. IsFiniteSet(AdmittedIn(Checks, limited[c].at)') BY <2>2, <4>5, FS_Subset DEF BegunFinite
      <4>7. stamps \subseteq AdmittedIn(Checks, limited[c].at)' BY <4>3, <4>4
      <4>8. Cardinality(stamps) <= Cardinality(AdmittedIn(Checks, limited[c].at)') /\ Cardinality(stamps) \in Nat
            /\ Cardinality(AdmittedIn(Checks, limited[c].at)') \in Nat
        BY <4>6, <4>7, FS_Subset, FS_CardinalityType
      <4>9. Cardinality(AdmittedIn(Checks, limited[c].at)') >= MaxRequests BY <4>3, <4>8, LimiterAssumption
      <4>10. \E o \in AdmittedIn(Checks, limited[c].at)' :
               limited'[c].retry = RetryAfter(limited'[o].at, limited'[c].at)
        <5>1. PICK o \in stamps : limited'[c].retry = RetryAfter(limited[o].at, limited[c].at) BY <4>1
        <5>2. o # c /\ o \in Checks BY <4>1, <4>3 DEF GoesOn, AdmittedIn
        <5>3. limited'[o] = limited[o] BY <4>1, <5>2 DEF GoesOn, OthersStay
        <5>4. limited'[c].retry = RetryAfter(limited'[o].at, limited'[c].at) BY <3>2, <5>1, <5>3
        <5> QED BY <4>7, <5>4
      <4> QED BY <2>2, <2>6, <4>2, <4>9, <4>10
    <3>4. CASE TurnAwayOver(c)
      <4>1. GoesOn(c, "over", "refused") BY <3>4, TurnAwayOverEffect
      <4>2. limiter = "redis" BY <4>1 DEF GoesOn, RightSteps, AtStep, RedisSteps
      <4>3. (\A s \in zset : limited[s].at \in Span(limited[c].at)) /\ Cardinality(zset) > MaxRequests
        BY <2>4, <4>1, <4>2 DEF SetExact, Serial, GoesOn, Moving, RedisSteps
      <4>4. ASSUME NEW s \in zset \ {c} PROVE s \in Rivals(c)'
        <5>1. s \in Checks /\ limited[s].step \in Added \cup {"refused"} BY <4>2 DEF SetHolds, AtStep
        <5>2. limited[s].step \in Ended
          <6>1. CASE limited[s].step \in {"added", "over"}
            <7>1. s \in UnderWay /\ c \in UnderWay BY <4>1, <5>1, <6>1 DEF UnderWay, Moving, RedisSteps, GoesOn
            <7> QED BY <2>4, <7>1 DEF OverlapNoticed
          <6> QED BY <5>1, <6>1 DEF Added, Ended
        <5>3. limited'[s] = limited[s] BY <4>1, <5>1 DEF GoesOn, OthersStay
        <5> QED BY <3>2, <4>3, <5>1, <5>2, <5>3 DEF Rivals
      <4>5. zset \subseteq AtStep(Moving \cup Ended)
        BY <4>2 DEF SetHolds, AtStep, Added, Moving, RedisSteps, Ended
      <4>6. IsFiniteSet(zset) /\ Cardinality(zset) \in Nat BY <4>5, BegunCount
      <4>7. Cardinality(zset \ {c}) = IF c \in zset THEN Cardinality(zset) - 1 ELSE Cardinality(zset)
        BY <4>6, FS_RemoveElement, Zenon
      <4>8. Rivals(c)' \subseteq AtStep(Moving \cup Ended)' BY DEF Rivals, AtStep
      <4>9. IsFiniteSet(Rivals(c)') BY <2>2, <4>8, FS_Subset DEF BegunFinite
      <4>10. zset \ {c} \subseteq Rivals(c)' BY <4>4
      <4>11. Cardinality(zset \ {c}) <= Cardinality(Rivals(c)') /\ Cardinality(Rivals(c)') \in Nat
        BY <4>9, <4>10, FS_Subset, FS_CardinalityType
      <4>12. Cardinality(Rivals(c)') >= MaxRequests BY <4>3, <4>6, <4>7, <4>11, LimiterAssumption
      <4> QED BY <2>2, <2>6, <4>2, <4>12
    <3> QED BY <3>1, <3>3, <3>4
  <2> QED BY <2>5, <2>6
<1> QED BY <1>1, <1>2

-----------------------------------------------------------------------------
(* The invariant of the limiter holds in every reachable state.            *)
THEOREM LimiterInvariant == LimiterSpec => []LimiterInv
<1>1. LimiterInit => LimiterInv
  <2> SUFFICES ASSUME LimiterInit PROVE LimiterInv OBVIOUS
  <2>1. \A c \in Checks : limited[c].step = "waiting" /\ limited[c].at = 0 BY DEF LimiterInit
  <2>2. \A steps : "waiting" \notin steps => AtStep(steps) = {} BY <2>1 DEF AtStep
  <2>3. AtStep(Moving \cup Ended) = {} BY <2>1 DEF AtStep, Moving, MemorySteps, RedisSteps, Ended
  <2>4. BegunFinite BY <2>3, FS_EmptySet DEF BegunFinite
  <2>5. LimiterTypeOK
    <3>1. [step |-> "waiting", at |-> 0, kept |-> {}, place |-> 0, retry |-> 0] \in LimitedCall
      BY LimiterAssumption DEF LimitedCall
    <3> QED BY <3>1, LimiterAssumption DEF LimiterInit, LimiterTypeOK
  <2>6. SerialLimited
    <3>1. \A t \in Int : AdmittedIn(Serial, t) = {} BY <2>1 DEF AdmittedIn, Serial
    <3>2. \A t \in Int : Cardinality(AdmittedIn(Serial, t)) = 0 BY <3>1, FS_EmptySet
    <3> QED BY <3>2, LimiterAssumption DEF SerialLimited
  <2>7. OverlapNoticed /\ RightSteps /\ ListAdmitted
    BY <2>1, LimiterAssumption
    DEF LimiterInit, OverlapNoticed, UnderWay, RightSteps, ListAdmitted, AtStep, Moving, MemorySteps, RedisSteps
  <2>8. ListHolds /\ CopyHolds /\ CountedHolds /\ LastArrived /\ ListExact
    BY <2>1 DEF ListHolds, CopyHolds, CountedHolds, LastArrived, ListExact, Serial, Moving, MemorySteps, RedisSteps
  <2>9. SetHolds /\ SetExact /\ RefusalsFounded
    BY <2>1 DEF LimiterInit, SetHolds, SetExact, RefusalsFounded, AtStep, Added, Serial, Moving, MemorySteps, RedisSteps
  <2> QED BY <2>4, <2>5, <2>6, <2>7, <2>8, <2>9 DEF LimiterInv
<1>2. LimiterInv /\ [LimiterNext]_limiterVars => LimiterInv'
  <2>1. ASSUME LimiterInv, UNCHANGED limiterVars PROVE LimiterInv'
    <3> USE <2>1 DEF LimiterInv, limiterVars
    <3>1. LimiterTypeOK' BY DEF LimiterTypeOK
    <3>2. BegunFinite' BY Zenon DEF BegunFinite, AtStep
    <3>3. OverlapNoticed' /\ RightSteps' BY DEF OverlapNoticed, UnderWay, RightSteps, AtStep
    <3>4. ListAdmitted' BY DEF ListAdmitted, AtStep
    <3>5. ListHolds' /\ CopyHolds' /\ CountedHolds' /\ LastArrived'
      BY DEF ListHolds, CopyHolds, CountedHolds, LastArrived, Serial
    <3>6. ListExact' BY Zenon DEF ListExact, Serial, AdmittedIn
    <3>7. SetHolds' BY DEF SetHolds, AtStep
    <3>8. SetExact' BY Zenon DEF SetExact, Serial, AtStep
    <3>9. SerialLimited' BY Zenon DEF SerialLimited, Serial, AdmittedIn
    <3>10. RefusalsFounded' BY Zenon DEF RefusalsFounded, AtStep, AdmittedIn, Rivals
    <3> QED BY <3>1, <3>2, <3>3, <3>4, <3>5, <3>6, <3>7, <3>8, <3>9, <3>10
  <2>2. ASSUME LimiterInv, LimiterNext PROVE LimiterInv'
    <3> USE <2>2 DEF LimiterInv
    <3>1. LimiterTypeOK' BY StepKinds
    <3>2. BegunFinite' /\ OverlapNoticed' /\ RightSteps' BY BegunFiniteStep, OverlapStep, RightStepsStep
    <3>3. ListAdmitted' /\ ListHolds' BY ListAdmittedStep, ListHoldsStep
    <3>4. CopyHolds' /\ CountedHolds' /\ LastArrived' BY CopyHoldsStep, CountedHoldsStep, LastArrivedStep
    <3>5. ListExact' /\ SetHolds' BY ListExactStep, SetHoldsStep
    <3>6. SetExact' /\ SerialLimited' BY SetExactStep, SerialLimitedStep
    <3>7. RefusalsFounded' BY RefusalsFoundedStep
    <3> QED BY <3>1, <3>2, <3>3, <3>4, <3>5, <3>6, <3>7
  <2> QED BY <2>1, <2>2
<1> QED BY <1>1, <1>2, PTL DEF LimiterSpec

(* Whatever the number of calls, their order and their times, the calls    *)
(* that overlap no other stay within the limit, in memory and in Redis,    *)
(* and get an answer.                                                      *)
THEOREM SerialCallsStayLimited == LimiterSpec => []SerialCallsLimited
<1>1. LimiterInv => SerialCallsLimited
  <2> SUFFICES ASSUME LimiterInv PROVE SerialCallsLimited OBVIOUS
  <2>1. 0..now \subseteq Int OBVIOUS
  <2> QED BY <2>1 DEF LimiterInv, SerialLimited, ListExact, Serial, SerialCallsLimited
<1> QED BY <1>1, LimiterInvariant, PTL

(* The oldest admission that a refused client was told of has left the     *)
(* window when it comes back.  There are no more admissions in that window *)
(* than the limit, so if it is refused again another call took the place.  *)
THEOREM RetryAlwaysHonoured == LimiterSpec => []RetryHonoured
<1>1. LimiterInv => RetryHonoured
  <2> SUFFICES ASSUME LimiterInv, overlapped = {}, NEW d \in Checks, limited[d].step = "refused"
               PROVE  /\ limiter = "memory" =>
                           \A c \in Checks :
                             /\ limited[c].step = "refused"
                             /\ limited[d].at >= limited[c].at + Second * (limited[c].retry + 1)
                             => \E q \in Checks : /\ limited[q].step = "admitted"
                                                  /\ limited[q].at \in (limited[c].at + 1)..limited[d].at
                      /\ limiter = "redis" => Cardinality(Rivals(d)) >= MaxRequests
    BY DEF RetryHonoured, Rivals
  <2> USE DEF LimiterInv
  <2>1. ASSUME limiter = "memory", NEW c \in Checks, limited[c].step = "refused",
               limited[d].at >= limited[c].at + Second * (limited[c].retry + 1)
        PROVE  \E q \in Checks : limited[q].step = "admitted" /\ limited[q].at \in (limited[c].at + 1)..limited[d].at
    <3> DEFINE C == AdmittedIn(Checks, limited[c].at)
               D == AdmittedIn(Checks, limited[d].at)
    <3>1. limited[c].at \in Nat /\ limited[d].at \in Nat /\ \A x \in Checks : limited[x].at \in Nat BY TimesPast
    <3>2. PICK o \in C : limited[c].retry = RetryAfter(limited[o].at, limited[c].at)
      BY <2>1 DEF RefusalsFounded, AtStep
    <3>3. Cardinality(C) <= MaxRequests
      <4>1. Serial = Checks BY DEF Serial
      <4> QED BY <3>1, <4>1 DEF SerialLimited
    <3>4. Cardinality(D) >= MaxRequests BY <2>1 DEF RefusalsFounded, AtStep
    <3>5. limited[o].at \in Nat /\ limited[o].at + Window > limited[c].at /\ limited[o].at <= limited[c].at
      BY <3>1, LimiterAssumption DEF AdmittedIn, Span
    <3>6. limited[o].at + Window <= limited[d].at /\ limited[c].at < limited[d].at
      <4> DEFINE n == limited[o].at + Window - limited[c].at
      <4>1. n \in Nat /\ limited[c].retry = n \div Second BY <3>1, <3>2, <3>5, LimiterAssumption DEF RetryAfter
      <4>2. n < Second * (n \div Second + 1) BY <4>1, LimiterAssumption
      <4>3. n > 0 /\ limited[d].at >= limited[c].at + Second * (n \div Second + 1)
        BY <2>1, <3>1, <3>5, <4>1, LimiterAssumption
      <4>4. n \div Second \in Int /\ Second * (n \div Second + 1) \in Int BY <4>1, LimiterAssumption
      <4>5. limited[d].at > limited[c].at + n BY <3>1, <4>1, <4>2, <4>3, <4>4
      <4> QED BY <3>1, <3>5, <4>3, <4>5, LimiterAssumption
    <3>7. o \notin D BY <3>1, <3>5, <3>6, LimiterAssumption DEF AdmittedIn, Span
    <3>8. PICK q \in D : q \notin C
      <4>1. SUFFICES ASSUME D \subseteq C PROVE FALSE OBVIOUS
      <4>2. C \subseteq AtStep(Moving \cup Ended) BY AdmittedBegun
      <4>3. IsFiniteSet(C) /\ Cardinality(C) \in Nat BY <4>2, BegunCount
      <4>4. Cardinality(C \ {o}) = Cardinality(C) - 1 /\ IsFiniteSet(C \ {o})
        <5> HIDE DEF C
        <5> QED BY <4>3, FS_RemoveElement
      <4>5. D \subseteq C \ {o} BY <3>7, <4>1
      <4>6. Cardinality(D) <= Cardinality(C \ {o}) /\ Cardinality(D) \in Nat
        <5> HIDE DEF C, D
        <5> QED BY <4>4, <4>5, FS_Subset, FS_CardinalityType
      <4> HIDE DEF C, D
      <4> QED BY <3>3, <3>4, <4>3, <4>4, <4>6, LimiterAssumption
    <3>9. limited[q].at \in Nat /\ limited[q].at + Window > limited[d].at /\ limited[q].at <= limited[d].at
          /\ limited[q].step = "admitted" /\ q \in Checks
      BY <3>1, LimiterAssumption DEF AdmittedIn, Span
    <3>10. limited[q].at > limited[c].at
      BY <3>1, <3>6, <3>8, <3>9, LimiterAssumption DEF AdmittedIn, Span
    <3> QED BY <3>1, <3>9, <3>10
  <2>2. ASSUME limiter = "redis" PROVE Cardinality(Rivals(d)) >= MaxRequests BY <2>2 DEF RefusalsFounded, AtStep
  <2> QED BY <2>1, <2>2
<1> QED BY <1>1, LimiterInvariant, PTL


-----------------------------------------------------------------------------
(* Migrations.  What the database holds is what the operations up to the   *)
(* place of the command in its revision have made; a rollback goes back to *)
(* a place between revisions.                                              *)

(* Places in the revisions, and the operations done up to there.           *)
Reaches(r, i) == r \in 0..HEAD /\ i \in Nat /\ (i # 0 => r < HEAD /\ i <= Len(Upgrade[r + 1]))

LEMMA RevisionsTyped ==
  /\ HEAD \in Nat
  /\ \A r \in 1..HEAD : Upgrade[r] \in Seq(Operations({"create", "alter"})) /\ Len(Upgrade[r]) \in Nat
  /\ \A r \in 1..HEAD : \A i \in 1..Len(Upgrade[r]) : Upgrade[r][i] \in Operations({"create", "alter"})
<1>1. Upgrade \in Seq(Seq(Operations({"create", "alter"}))) BY RevisionsAssumption
<1>2. HEAD \in Nat BY <1>1 DEF HEAD
<1>3. \A r \in 1..HEAD : Upgrade[r] \in Seq(Operations({"create", "alter"})) BY <1>1 DEF HEAD
<1> QED BY <1>2, <1>3

LEMMA InOps ==
  ASSUME NEW r, NEW i, NEW o
  PROVE  o \in OpsUpTo(r, i) <=> \/ \E q \in 1..r : \E j \in 1..Len(Upgrade[q]) : o = Upgrade[q][j]
                                 \/ \E j \in 1..i : o = Upgrade[r + 1][j]
BY DEF OpsUpTo

LEMMA NothingMade == Refs({}) = {} /\ Cols({}) = {}
BY DEF Refs, Cols

LEMMA MadeOf ==
  ASSUME NEW ops, NEW op
  PROVE  Refs(ops \cup {op}) = Refs(ops) \cup op.refs /\ Cols(ops \cup {op}) = Cols(ops) \cup op.cols
BY Zenon DEF Refs, Cols

LEMMA InMade ==
  ASSUME NEW ops, NEW x
  PROVE  (x \in Refs(ops) <=> \E o \in ops : x \in o.refs) /\ (x \in Cols(ops) <=> \E o \in ops : x \in o.cols)
BY Zenon DEF Refs, Cols

(* An operation of a later place comes on top of those of the places       *)
(* before it.                                                              *)
LEMMA OneMore ==
  ASSUME NEW r \in 1..HEAD, NEW i \in 1..Len(Upgrade[r])
  PROVE  OpsUpTo(r - 1, i) = OpsUpTo(r - 1, i - 1) \cup {Upgrade[r][i]}
<1>1. (r - 1) + 1 = r /\ Len(Upgrade[r]) \in Nat BY RevisionsTyped
<1>3. \A o : o \in OpsUpTo(r - 1, i) <=> o \in OpsUpTo(r - 1, i - 1) \cup {Upgrade[r][i]}
  <2> TAKE o
  <2>1. (\E j \in 1..i : o = Upgrade[r][j]) <=> (\E j \in 1..(i - 1) : o = Upgrade[r][j]) \/ o = Upgrade[r][i] BY <1>1
  <2>2. o \in OpsUpTo(r - 1, i) <=> \/ \E q \in 1..(r - 1) : \E j \in 1..Len(Upgrade[q]) : o = Upgrade[q][j]
                                    \/ \E j \in 1..i : o = Upgrade[r][j]
    <3>1. o \in OpsUpTo(r - 1, i) <=> \/ \E q \in 1..(r - 1) : \E j \in 1..Len(Upgrade[q]) : o = Upgrade[q][j]
                                      \/ \E j \in 1..i : o = Upgrade[(r - 1) + 1][j]
      BY InOps
    <3> QED BY <1>1, <3>1, Zenon
  <2>3. o \in OpsUpTo(r - 1, i - 1) <=> \/ \E q \in 1..(r - 1) : \E j \in 1..Len(Upgrade[q]) : o = Upgrade[q][j]
                                        \/ \E j \in 1..(i - 1) : o = Upgrade[r][j]
    <3>1. o \in OpsUpTo(r - 1, i - 1) <=> \/ \E q \in 1..(r - 1) : \E j \in 1..Len(Upgrade[q]) : o = Upgrade[q][j]
                                          \/ \E j \in 1..(i - 1) : o = Upgrade[(r - 1) + 1][j]
      BY InOps
    <3> QED BY <1>1, <3>1, Zenon
  <2> QED BY <2>1, <2>2, <2>3, Zenon
<1> QED BY <1>3, Zenon

LEMMA RevisionDone ==
  ASSUME NEW r \in 1..HEAD
  PROVE  OpsUpTo(r - 1, Len(Upgrade[r])) = OpsUpTo(r, 0)
<1>1. (r - 1) + 1 = r /\ Len(Upgrade[r]) \in Nat /\ HEAD \in Nat BY RevisionsTyped
<1>2. \A q : q \in 1..r <=> q \in 1..(r - 1) \/ q = r BY <1>1
<1>3. \A o : o \in OpsUpTo(r - 1, Len(Upgrade[r])) <=> o \in OpsUpTo(r, 0)
  <2> TAKE o
  <2>1. o \in OpsUpTo(r, 0) <=> \E q \in 1..r : \E j \in 1..Len(Upgrade[q]) : o = Upgrade[q][j]
    <3>1. ~\E j \in 1..0 : o = Upgrade[r + 1][j] OBVIOUS
    <3> QED BY <3>1, InOps
  <2>2. o \in OpsUpTo(r - 1, Len(Upgrade[r])) <=>
          \/ \E q \in 1..(r - 1) : \E j \in 1..Len(Upgrade[q]) : o = Upgrade[q][j]
          \/ \E j \in 1..Len(Upgrade[r]) : o = Upgrade[r][j]
    <3>1. o \in OpsUpTo(r - 1, Len(Upgrade[r])) <=>
            \/ \E q \in 1..(r - 1) : \E j \in 1..Len(Upgrade[q]) : o = Upgrade[q][j]
            \/ \E j \in 1..Len(Upgrade[r]) : o = Upgrade[(r - 1) + 1][j]
      BY InOps
    <3> QED BY <1>1, <3>1, Zenon
  <2> QED BY <1>2, <2>1, <2>2, Zenon
<1> QED BY <1>3, Zenon

LEMMA AtBase == OpsUpTo(0, 0) = {}
BY DEF OpsUpTo

LEMMA OpsTyped ==
  ASSUME NEW r, NEW i, Reaches(r, i)
  PROVE  OpsUpTo(r, i) \subseteq Operations({"create", "alter"})
<1>1. HEAD \in Nat BY RevisionsTyped
<1>2. \A q \in 1..r : \A j \in 1..Len(Upgrade[q]) : Upgrade[q][j] \in Operations({"create", "alter"})
  BY <1>1, RevisionsTyped DEF Reaches
<1>3. \A j \in 1..i : Upgrade[r + 1][j] \in Operations({"create", "alter"})
  <2> SUFFICES ASSUME NEW j \in 1..i PROVE Upgrade[r + 1][j] \in Operations({"create", "alter"}) OBVIOUS
  <2>1. i # 0 /\ r + 1 \in 1..HEAD BY <1>1 DEF Reaches
  <2>2. j \in 1..Len(Upgrade[r + 1]) BY <2>1, RevisionsTyped DEF Reaches
  <2> QED BY <2>1, <2>2, RevisionsTyped
<1> SUFFICES ASSUME NEW o \in OpsUpTo(r, i) PROVE o \in Operations({"create", "alter"}) OBVIOUS
<1>4. \/ \E q \in 1..r : \E j \in 1..Len(Upgrade[q]) : o = Upgrade[q][j]
      \/ \E j \in 1..i : o = Upgrade[r + 1][j]
  BY InOps
<1> QED BY <1>2, <1>3, <1>4, Zenon

(* References lead to tables that are there.                               *)
LEMMA RefsClosed ==
  ASSUME NEW r, NEW i, Reaches(r, i)
  PROVE  \A o \in OpsUpTo(r, i) : o.refs \subseteq Tables(OpsUpTo(r, i))
<1>1. HEAD \in Nat BY RevisionsTyped
<1> SUFFICES ASSUME NEW o \in OpsUpTo(r, i) PROVE o.refs \subseteq Tables(OpsUpTo(r, i)) OBVIOUS
<1>2a. \E q \in 1..HEAD : \E j \in 1..Len(Upgrade[q]) : o = Upgrade[q][j] /\ (q <= r \/ (q = r + 1 /\ j <= i))
  <2>1. CASE \E q \in 1..r : \E j \in 1..Len(Upgrade[q]) : o = Upgrade[q][j]
    BY <1>1, <2>1 DEF Reaches
  <2>2. CASE \E j \in 1..i : o = Upgrade[r + 1][j]
    <3>1. PICK j \in 1..i : o = Upgrade[r + 1][j] BY <2>2
    <3>2. r + 1 \in 1..HEAD BY <1>1 DEF Reaches
    <3>3. j \in 1..Len(Upgrade[r + 1]) BY <3>2, RevisionsTyped DEF Reaches
    <3>4. o = Upgrade[r + 1][j] /\ (r + 1 <= r \/ (r + 1 = r + 1 /\ j <= i)) BY <3>1, <1>1 DEF Reaches
    <3> QED BY <3>2, <3>3, <3>4, Zenon
  <2> QED BY <2>1, <2>2, InOps
<1>2b. PICK q \in 1..HEAD : \E j \in 1..Len(Upgrade[q]) : o = Upgrade[q][j] /\ (q <= r \/ (q = r + 1 /\ j <= i))
  BY <1>2a
<1>2. PICK j \in 1..Len(Upgrade[q]) : o = Upgrade[q][j] /\ (q <= r \/ (q = r + 1 /\ j <= i)) BY <1>2b
<1>3. Extends(o, OpsUpTo(q - 1, j - 1)) BY <1>2, RevisionsAssumption
<1>4. OpsUpTo(q - 1, j - 1) \subseteq OpsUpTo(r, i)
  <2>0. r \in Nat /\ i \in Nat /\ Len(Upgrade[q]) \in Nat /\ (q - 1) + 1 = q BY <1>1, RevisionsTyped DEF Reaches
  <2> SUFFICES ASSUME NEW p \in OpsUpTo(q - 1, j - 1) PROVE p \in OpsUpTo(r, i) OBVIOUS
  <2>1. CASE \E k \in 1..(q - 1) : \E l \in 1..Len(Upgrade[k]) : p = Upgrade[k][l]
    <3>1. \A k \in 1..(q - 1) : k \in 1..r BY <1>2, <2>0
    <3> QED BY <2>1, <3>1, InOps
  <2>2. CASE \E l \in 1..(j - 1) : p = Upgrade[q][l]
    <3>1. PICK l \in 1..(j - 1) : p = Upgrade[q][l] BY <2>2
    <3>2. CASE q <= r
      <4>1. l \in 1..Len(Upgrade[q]) /\ q \in 1..r BY <2>0, <3>2
      <4> QED BY <3>1, <4>1, InOps
    <3>3. CASE q = r + 1 /\ j <= i
      <4>1. l \in 1..i BY <2>0, <3>3
      <4> QED BY <3>1, <3>3, <4>1, InOps
    <3> QED BY <1>2, <3>2, <3>3
  <2> QED BY <2>0, <2>1, <2>2, InOps
<1>5. o.table \in Tables(OpsUpTo(r, i)) BY DEF Tables
<1> QED BY <1>3, <1>4, <1>5 DEF Extends, Tables

(* Tables and columns are what the operations have made.                   *)
LEMMA SchemaTyped ==
  ASSUME NEW ops, ops \subseteq Operations({"create", "alter"})
  PROVE  Schema(SchemaOf(ops))
<1>1. Tables(ops) \subseteq STRING BY DEF Tables, Operations
<1>2. \A t : Refs(On(t, ops)) \subseteq STRING /\ Cols(On(t, ops)) \subseteq STRING
  <2> TAKE t
  <2>1. \A o \in On(t, ops) : o.refs \subseteq STRING /\ o.cols \subseteq STRING BY DEF On, Operations
  <2> QED BY <2>1, InMade
<1> QED BY <1>1, <1>2 DEF Schema, SchemaOf

(* One more operation is not refused, and makes the schema of one more.    *)
LEMMA UpOne ==
  ASSUME NEW ops, ops \subseteq Operations({"create", "alter"}), NEW op \in Operations({"create", "alter"}),
         Extends(op, ops), db = SchemaOf(ops)
  PROVE  ~Refused(op) /\ Applied(op) = SchemaOf(ops \cup {op})
<1>1. DOMAIN db = Tables(ops) BY DEF SchemaOf
<1>2. Tables(ops \cup {op}) = Tables(ops) \cup {op.table} BY DEF Tables
<1>3. op.do \in {"create", "alter"} BY DEF Operations
<1>4. \A t : On(t, ops \cup {op}) = IF t = op.table THEN On(t, ops) \cup {op} ELSE On(t, ops) BY DEF On
<1>5. CASE op.do = "create"
  <2>1. op.table \notin Tables(ops) /\ op.cols = {} /\ op.refs \subseteq Tables(ops) \cup {op.table}
    BY <1>5 DEF Extends
  <2>2. ~Refused(op) BY <1>1, <1>5, <2>1 DEF Refused, Exists
  <2>3. On(op.table, ops) = {} BY <2>1 DEF On, Tables
  <2>4. Applied(op) = [t \in Tables(ops) \cup {op.table} |-> IF t = op.table THEN [refs |-> op.refs, cols |-> {}] ELSE db[t]]
    BY <1>1, <1>5 DEF Applied
  <2>5. \A t \in Tables(ops) \cup {op.table} :
          (IF t = op.table THEN [refs |-> op.refs, cols |-> {}] ELSE db[t])
            = [refs |-> Refs(On(t, ops \cup {op})), cols |-> Cols(On(t, ops \cup {op}))]
    <3> TAKE t \in Tables(ops) \cup {op.table}
    <3>1. CASE t = op.table
      <4>1. On(t, ops \cup {op}) = {} \cup {op} BY <1>4, <2>3, <3>1
      <4>2. Refs({} \cup {op}) = op.refs /\ Cols({} \cup {op}) = op.cols
        <5>1. Refs({} \cup {op}) = Refs({}) \cup op.refs /\ Cols({} \cup {op}) = Cols({}) \cup op.cols BY MadeOf, Zenon
        <5> QED BY <5>1, NothingMade
      <4> QED BY <2>1, <3>1, <4>1, <4>2
    <3>2. CASE t # op.table BY <1>4, <3>2 DEF SchemaOf
    <3> QED BY <3>1, <3>2
  <2> QED BY <1>2, <2>2, <2>4, <2>5 DEF SchemaOf
<1>6. CASE op.do = "alter"
  <2>1. op.table \in Tables(ops) /\ op.refs \subseteq Tables(ops) BY <1>6 DEF Extends
  <2>2. db[op.table] = [refs |-> Refs(On(op.table, ops)), cols |-> Cols(On(op.table, ops))]
    BY <2>1 DEF SchemaOf
  <2>3. op.cols \cap db[op.table].cols = {} BY <2>2, InMade DEF Extends
  <2>4. ~Refused(op) BY <1>1, <1>6, <2>1, <2>3 DEF Refused, Exists
  <2>5. Applied(op) = [db EXCEPT ![op.table] = [refs |-> db[op.table].refs \cup op.refs, cols |-> db[op.table].cols \cup op.cols]]
    BY <1>6 DEF Applied, Altered
  <2>6. Tables(ops \cup {op}) = Tables(ops) BY <1>2, <2>1
  <2>7. \A t \in Tables(ops) :
          (IF t = op.table THEN [refs |-> db[op.table].refs \cup op.refs, cols |-> db[op.table].cols \cup op.cols] ELSE db[t])
            = [refs |-> Refs(On(t, ops \cup {op})), cols |-> Cols(On(t, ops \cup {op}))]
    <3> TAKE t \in Tables(ops)
    <3>1. CASE t = op.table
      <4>1. On(t, ops \cup {op}) = On(t, ops) \cup {op} BY <1>4, <3>1
      <4>2. Refs(On(t, ops) \cup {op}) = Refs(On(t, ops)) \cup op.refs /\ Cols(On(t, ops) \cup {op}) = Cols(On(t, ops)) \cup op.cols
        BY MadeOf, Zenon
      <4> QED BY <2>2, <3>1, <4>1, <4>2
    <3>2. CASE t # op.table BY <1>4, <3>2 DEF SchemaOf
    <3> QED BY <3>1, <3>2
  <2>8. db = [t \in Tables(ops) |-> db[t]] BY DEF SchemaOf
  <2> QED BY <1>1, <2>4, <2>5, <2>6, <2>7, <2>8 DEF SchemaOf
<1> QED BY <1>3, <1>5, <1>6

(* Undoing the last operation is not refused, and makes the schema of one  *)
(* less.                                                                   *)
LEMMA DownOne ==
  ASSUME NEW ops, ops \subseteq Operations({"create", "alter"}), NEW op \in Operations({"create", "alter"}),
         Extends(op, ops), \A o \in ops : o.refs \subseteq Tables(ops), db = SchemaOf(ops \cup {op})
  PROVE  ~Refused(Undo(op)) /\ Applied(Undo(op)) = SchemaOf(ops)
<1>1. DOMAIN db = Tables(ops) \cup {op.table} BY DEF SchemaOf, Tables
<1>3. op.do \in {"create", "alter"} BY DEF Operations
<1>4. \A t : On(t, ops \cup {op}) = IF t = op.table THEN On(t, ops) \cup {op} ELSE On(t, ops) BY DEF On
<1>5. \A t \in DOMAIN db : db[t] = [refs |-> Refs(On(t, ops \cup {op})),
                                  cols |-> Cols(On(t, ops \cup {op}))]
  BY DEF SchemaOf
<1>6. Undo(op).table = op.table /\ Undo(op).refs = op.refs /\ Undo(op).cols = op.cols BY DEF Undo, Operations
<1>7. \A t \in Tables(ops) \ {op.table} :
        db[t] = [refs |-> Refs(On(t, ops)), cols |-> Cols(On(t, ops))]
  BY <1>1, <1>4, <1>5
<1>8. CASE op.do = "create"
  <2>1. Undo(op).do = "drop" BY <1>8 DEF Undo, Operations
  <2>2. op.table \notin Tables(ops) BY <1>8 DEF Extends
  <2>3. \A t \in DOMAIN db \ {op.table} : op.table \notin db[t].refs
    <3> TAKE t \in DOMAIN db \ {op.table}
    <3>1. t \in Tables(ops) \ {op.table} BY <1>1
    <3>2. \A o \in On(t, ops) : op.table \notin o.refs BY <2>2 DEF On
    <3>3. op.table \notin Refs(On(t, ops)) BY <3>2, InMade
    <3>4. db[t] = [refs |-> Refs(On(t, ops)), cols |-> Cols(On(t, ops))] BY <1>7, <3>1, Zenon
    <3> QED BY <3>3, <3>4
  <2>4. ~Refused(Undo(op)) BY <1>1, <1>6, <2>1, <2>3 DEF Refused, Exists, RefersTo
  <2>5. Applied(Undo(op)) = [t \in DOMAIN db \ {op.table} |-> db[t]] BY <1>6, <2>1 DEF Applied
  <2>6. DOMAIN db \ {op.table} = Tables(ops) BY <1>1, <2>2
  <2> QED BY <1>7, <2>2, <2>4, <2>5, <2>6 DEF SchemaOf
<1>9. CASE op.do = "alter"
  <2>1. Undo(op).do = "unalter" BY <1>9 DEF Undo, Operations
  <2>2. op.table \in Tables(ops) BY <1>9 DEF Extends
  <2>3. db[op.table] = [refs |-> Refs(On(op.table, ops)) \cup op.refs,
                        cols |-> Cols(On(op.table, ops)) \cup op.cols]
    <3>1. On(op.table, ops \cup {op}) = On(op.table, ops) \cup {op} BY <1>4
    <3>2. Refs(On(op.table, ops) \cup {op}) = Refs(On(op.table, ops)) \cup op.refs
          /\ Cols(On(op.table, ops) \cup {op}) = Cols(On(op.table, ops)) \cup op.cols
      BY MadeOf, Zenon
    <3>3. db[op.table] = [refs |-> Refs(On(op.table, ops \cup {op})), cols |-> Cols(On(op.table, ops \cup {op}))]
      BY <1>1, <1>5
    <3> QED BY <3>1, <3>2, <3>3, Zenon
  <2>4. op.cols \cap Cols(On(op.table, ops)) = {} BY InMade DEF Extends
  <2>5. op.refs \cap Refs(On(op.table, ops)) = {} BY InMade DEF Extends
  <2>6. ~Refused(Undo(op))
    <3>1. op.table \in DOMAIN db BY <1>1, <2>2
    <3>2. op.cols \subseteq db[op.table].cols BY <2>3
    <3> QED BY <1>6, <2>1, <3>1, <3>2 DEF Refused, Exists
  <2>7. Applied(Undo(op)) = [db EXCEPT ![op.table] = [refs |-> db[op.table].refs \ op.refs, cols |-> db[op.table].cols \ op.cols]]
    BY <1>6, <2>1 DEF Applied, Altered
  <2>8. [refs |-> db[op.table].refs \ op.refs, cols |-> db[op.table].cols \ op.cols]
          = [refs |-> Refs(On(op.table, ops)), cols |-> Cols(On(op.table, ops))]
    <3>1. db[op.table].refs \ op.refs = Refs(On(op.table, ops)) BY <2>3, <2>5
    <3>2. db[op.table].cols \ op.cols = Cols(On(op.table, ops)) BY <2>3, <2>4
    <3> QED BY <3>1, <3>2
  <2>9. DOMAIN db = Tables(ops) /\ db = [t \in Tables(ops) |-> db[t]] BY <1>1, <2>2 DEF SchemaOf
  <2>10. \A t \in Tables(ops) :
           [db EXCEPT ![op.table] = [refs |-> db[op.table].refs \ op.refs, cols |-> db[op.table].cols \ op.cols]][t]
             = [refs |-> Refs(On(t, ops)), cols |-> Cols(On(t, ops))]
    BY <1>7, <2>8, <2>9
  <2> QED BY <2>6, <2>7, <2>9, <2>10 DEF SchemaOf
<1> QED BY <1>3, <1>8, <1>9

-----------------------------------------------------------------------------
(* What is left of a revision that stands at its k-th operation.           *)
UpRest(r, k) == [j \in 1..(Len(Upgrade[r]) - k) |-> Upgrade[r][k + j]]
DownRest(r, k) == [j \in 1..k |-> Undo(Upgrade[r][k + 1 - j])]

LEMMA Listed ==
  ASSUME NEW T, NEW m \in Nat, NEW s, s \in [1..m -> T]
  PROVE  /\ s \in Seq(T) /\ Len(s) = m /\ (s = <<>> <=> m = 0)
         /\ m # 0 => Head(s) = s[1] /\ Tail(s) = [j \in 1..(m - 1) |-> s[j + 1]]
<1>1. s \in Seq(T) BY SeqDef
<1>2. Len(s) = m BY <1>1
<1>3. s = <<>> <=> m = 0 BY <1>1, <1>2
<1>4. ASSUME m # 0 PROVE Head(s) = s[1] /\ Tail(s) = [j \in 1..(m - 1) |-> s[j + 1]]
  <2>1. Tail(s) \in Seq(T) /\ Len(Tail(s)) = m - 1 /\ \A j \in 1..(m - 1) : Tail(s)[j] = s[j + 1]
    BY <1>1, <1>2, <1>3, <1>4, HeadTailProperties
  <2>2. Tail(s) \in [1..(m - 1) -> T] BY <2>1, LenProperties
  <2>3. Head(s) = s[1] BY <1>1, <1>2, <1>4
  <2> QED BY <2>1, <2>2, <2>3
<1> QED BY <1>1, <1>2, <1>3, <1>4

LEMMA RestUp ==
  ASSUME NEW r \in 1..HEAD, NEW k \in 0..Len(Upgrade[r])
  PROVE  /\ UpRest(r, k) \in Seq(Operations({"create", "alter", "drop", "unalter"}))
         /\ UpRest(r, k) = <<>> <=> k = Len(Upgrade[r])
         /\ UpRest(r, k) # <<>> => k + 1 \in 1..Len(Upgrade[r]) /\ Head(UpRest(r, k)) = Upgrade[r][k + 1]
                                   /\ Tail(UpRest(r, k)) = UpRest(r, k + 1)
         /\ UpRest(r, k) = Upgrade[r] <=> k = 0
<1> DEFINE n == Len(Upgrade[r])
           T == Operations({"create", "alter", "drop", "unalter"})
<1>1. n \in Nat /\ Upgrade[r] \in Seq(Operations({"create", "alter"})) BY RevisionsTyped
<1>2. \A i \in 1..n : Upgrade[r][i] \in T
  <2>1. \A i \in 1..n : Upgrade[r][i] \in Operations({"create", "alter"}) BY RevisionsTyped
  <2>2. Operations({"create", "alter"}) \subseteq T BY DEF Operations
  <2> QED BY <2>1, <2>2
<1>3. n - k \in Nat /\ UpRest(r, k) \in [1..(n - k) -> T]
  <2>1. \A j \in 1..(n - k) : k + j \in 1..n BY <1>1
  <2> QED BY <1>1, <1>2, <2>1 DEF UpRest
<1>4. UpRest(r, k) \in Seq(T) /\ Len(UpRest(r, k)) = n - k /\ (UpRest(r, k) = <<>> <=> n - k = 0)
      /\ (n - k # 0 => Head(UpRest(r, k)) = UpRest(r, k)[1]
                       /\ Tail(UpRest(r, k)) = [j \in 1..(n - k - 1) |-> UpRest(r, k)[j + 1]])
  <2> HIDE DEF T, n
  <2> QED BY <1>3, Listed
<1>5. ASSUME n - k # 0
      PROVE  k + 1 \in 1..n /\ Head(UpRest(r, k)) = Upgrade[r][k + 1] /\ Tail(UpRest(r, k)) = UpRest(r, k + 1)
  <2>1. k + 1 \in 1..n /\ 1 \in 1..(n - k) BY <1>1, <1>5
  <2>2. UpRest(r, k)[1] = Upgrade[r][k + 1] BY <2>1 DEF UpRest
  <2>3. \A j \in 1..(n - k - 1) : UpRest(r, k)[j + 1] = Upgrade[r][(k + 1) + j]
    <3> TAKE j \in 1..(n - k - 1)
    <3>1. j + 1 \in 1..(n - k) /\ k + (j + 1) = (k + 1) + j BY <1>1
    <3> QED BY <3>1 DEF UpRest
  <2>4. n - k - 1 = n - (k + 1) BY <1>1
  <2> QED BY <1>4, <1>5, <2>1, <2>2, <2>3, <2>4 DEF UpRest
<1>6. k = 0 => UpRest(r, k) = Upgrade[r]
  <2>1. Upgrade[r] = [j \in 1..n |-> Upgrade[r][j]] BY <1>1
  <2>2. SUFFICES ASSUME k = 0 PROVE UpRest(r, 0) = Upgrade[r] OBVIOUS
  <2>3. n - 0 = n /\ \A j \in 1..n : 0 + j = j BY <1>1
  <2> QED BY <2>1, <2>3 DEF UpRest
<1>7. UpRest(r, k) = Upgrade[r] => k = 0 BY <1>1, <1>4
<1> QED BY <1>1, <1>4, <1>5, <1>6, <1>7

LEMMA RestDown ==
  ASSUME NEW r \in 1..HEAD, NEW k \in 0..Len(Upgrade[r])
  PROVE  /\ DownRest(r, k) \in Seq(Operations({"create", "alter", "drop", "unalter"}))
         /\ DownRest(r, k) = <<>> <=> k = 0
         /\ DownRest(r, k) # <<>> => k \in 1..Len(Upgrade[r]) /\ Head(DownRest(r, k)) = Undo(Upgrade[r][k])
                                     /\ Tail(DownRest(r, k)) = DownRest(r, k - 1)
         /\ DownRest(r, k) = Downgrade[r] <=> k = Len(Upgrade[r])
<1> DEFINE n == Len(Upgrade[r])
           T == Operations({"create", "alter", "drop", "unalter"})
<1>1. n \in Nat BY RevisionsTyped
<1>2. \A i \in 1..n : Undo(Upgrade[r][i]) \in T
  <2> TAKE i \in 1..n
  <2>1. Upgrade[r][i] \in Operations({"create", "alter"}) BY RevisionsTyped
  <2> QED BY <2>1 DEF Operations, Undo
<1>3. k \in Nat /\ DownRest(r, k) \in [1..k -> T]
  <2>1. \A j \in 1..k : k + 1 - j \in 1..n BY <1>1
  <2> QED BY <1>1, <1>2, <2>1 DEF DownRest
<1>4. DownRest(r, k) \in Seq(T) /\ Len(DownRest(r, k)) = k /\ (DownRest(r, k) = <<>> <=> k = 0)
      /\ (k # 0 => Head(DownRest(r, k)) = DownRest(r, k)[1]
                   /\ Tail(DownRest(r, k)) = [j \in 1..(k - 1) |-> DownRest(r, k)[j + 1]])
  <2> HIDE DEF T, n
  <2> QED BY <1>3, Listed
<1>5. ASSUME k # 0
      PROVE  k \in 1..n /\ Head(DownRest(r, k)) = Undo(Upgrade[r][k]) /\ Tail(DownRest(r, k)) = DownRest(r, k - 1)
  <2>1. k \in 1..n /\ 1 \in 1..k /\ k + 1 - 1 = k BY <1>1, <1>5
  <2>2. DownRest(r, k)[1] = Undo(Upgrade[r][k]) BY <2>1 DEF DownRest
  <2>3. \A j \in 1..(k - 1) : DownRest(r, k)[j + 1] = Undo(Upgrade[r][(k - 1) + 1 - j])
    <3> TAKE j \in 1..(k - 1)
    <3>1. j + 1 \in 1..k /\ k + 1 - (j + 1) = (k - 1) + 1 - j BY <1>1
    <3> QED BY <3>1 DEF DownRest
  <2> QED BY <1>4, <1>5, <2>1, <2>2, <2>3 DEF DownRest
<1>6. Downgrade[r] = DownRest(r, n) BY <1>1 DEF Downgrade, DownRest
<1>7. DownRest(r, k) = DownRest(r, n) => k = n
  <2>1. n \in 0..n /\ DownRest(r, n) \in [1..n -> T]
    <3>1. \A j \in 1..n : n + 1 - j \in 1..n BY <1>1
    <3> QED BY <1>1, <1>2, <3>1 DEF DownRest
  <2>2. Len(DownRest(r, n)) = n BY <1>1, <2>1, Listed
  <2> QED BY <1>4, <2>2
<1> QED BY <1>1, <1>4, <1>5, <1>6, <1>7

-----------------------------------------------------------------------------
(* What is committed, and how far the command has come.                    *)
Marked == durable = [db |-> db, revision |-> revision]
GoneUp(k) == command.ops = UpRest(revision + 1, k) /\ db = SchemaOf(OpsUpTo(revision, k))
GoneDown(k) == command.ops = DownRest(revision, k) /\ db = SchemaOf(OpsUpTo(revision - 1, k))

Directed == command.running => command.target # revision /\ (command.up <=> command.target > revision)
OnlySqlite == interrupted => backend = "sqlite"
RollsBack == backend = "postgresql" => durable.db = SchemaAt(durable.revision)
AtRest == ~interrupted /\ ~command.running => db = SchemaAt(revision) /\ Marked
AtStart ==
  ~interrupted /\ backend = "sqlite" /\ command.running /\ command.ops = NextOps(command.target, revision) => Marked
GoingUp == ~interrupted /\ command.running /\ command.up => \E k \in 0..Len(Upgrade[revision + 1]) : GoneUp(k)
GoingDown == ~interrupted /\ command.running /\ ~command.up => \E k \in 0..Len(Upgrade[revision]) : GoneDown(k)

SchemaInv == /\ SchemaTypeOK /\ Directed /\ OnlySqlite /\ RollsBack /\ AtRest /\ AtStart /\ GoingUp /\ GoingDown

(* The revision a command works on is one of the chain.                    *)
LEMMA OnTheWay ==
  ASSUME NEW target \in 0..HEAD, NEW at \in 0..HEAD, target # at
  PROVE  /\ target > at => at + 1 \in 1..HEAD /\ at + 1 \in 0..HEAD /\ NextOps(target, at) = Upgrade[at + 1]
                           /\ 0 \in 0..Len(Upgrade[at + 1])
         /\ ~(target > at) => at \in 1..HEAD /\ at - 1 \in 0..HEAD /\ NextOps(target, at) = Downgrade[at]
                              /\ Len(Upgrade[at]) \in 0..Len(Upgrade[at])
         /\ NextOps(target, at) \in Seq(Operations({"create", "alter", "drop", "unalter"}))
<1>1. HEAD \in Nat BY RevisionsTyped
<1>2. CASE target > at
  <2>1. at + 1 \in 1..HEAD BY <1>1, <1>2
  <2>2. 0 \in 0..Len(Upgrade[at + 1]) BY <2>1, RevisionsTyped
  <2>3. NextOps(target, at) = UpRest(at + 1, 0) BY <1>2, <2>1, <2>2, RestUp DEF NextOps
  <2> QED BY <1>1, <1>2, <2>1, <2>2, <2>3, RestUp DEF NextOps
<1>3. CASE ~(target > at)
  <2>1. at \in 1..HEAD /\ target < at BY <1>1, <1>3
  <2>2. Len(Upgrade[at]) \in 0..Len(Upgrade[at]) BY <2>1, RevisionsTyped
  <2>3. NextOps(target, at) = DownRest(at, Len(Upgrade[at])) BY <1>3, <2>1, <2>2, RestDown DEF NextOps
  <2> QED BY <1>1, <1>3, <2>1, <2>2, <2>3, RestDown DEF NextOps
<1> QED BY <1>2, <1>3

(* A revision stands at its start if and only if nothing of it is done.    *)
LEMMA WholeRevision ==
  ASSUME NEW r \in 1..HEAD
  PROVE  /\ SchemaOf(OpsUpTo(r - 1, Len(Upgrade[r]))) = SchemaAt(r)
         /\ UpRest(r, 0) = Upgrade[r] /\ DownRest(r, Len(Upgrade[r])) = Downgrade[r]
         /\ 0 \in 0..Len(Upgrade[r]) /\ Len(Upgrade[r]) \in 0..Len(Upgrade[r])
<1>1. Len(Upgrade[r]) \in Nat BY RevisionsTyped
<1>2. 0 \in 0..Len(Upgrade[r]) /\ Len(Upgrade[r]) \in 0..Len(Upgrade[r]) BY <1>1
<1> QED BY <1>2, RevisionDone, RestUp, RestDown DEF SchemaAt

LEMMA AppliedTyped ==
  ASSUME Schema(db), NEW op \in Operations({"create", "alter", "drop", "unalter"}), ~Refused(op)
  PROVE  Schema(Applied(op))
<1>1. op.table \in STRING /\ op.refs \in SUBSET STRING /\ op.cols \in SUBSET STRING
      /\ op.do \in {"create", "alter", "drop", "unalter"}
  BY DEF Operations
<1>2. CASE op.do = "create" BY <1>1, <1>2 DEF Applied, Schema
<1>3. CASE op.do = "drop" BY <1>1, <1>3 DEF Applied, Schema
<1>4. CASE op.do \in {"alter", "unalter"}
  <2>1. op.table \in DOMAIN db BY <1>4 DEF Refused, Exists
  <2>2. db[op.table] \in [refs : SUBSET STRING, cols : SUBSET STRING] BY <2>1 DEF Schema
  <2>3. Altered(op) \in [refs : SUBSET STRING, cols : SUBSET STRING] BY <1>1, <2>2 DEF Altered
  <2>4. Applied(op) = [db EXCEPT ![op.table] = Altered(op)] BY <1>4 DEF Applied
  <2> QED BY <2>1, <2>3, <2>4 DEF Schema
<1> QED BY <1>1, <1>2, <1>3, <1>4

LEMMA SchemaInitial == SchemaInit => SchemaInv
<1> SUFFICES ASSUME SchemaInit PROVE SchemaInv OBVIOUS
<1>1. HEAD \in Nat BY RevisionsTyped
<1>2. db = SchemaAt(0)
  <2>1. Tables({}) = {} BY DEF Tables
  <2>2. SchemaOf({}) = <<>> BY <2>1 DEF SchemaOf
  <2> QED BY <2>2, AtBase DEF SchemaInit, SchemaAt
<1>3. SchemaTypeOK
  <2>1. Schema(<<>>) BY DEF Schema
  <2>2. <<>> \in Seq(Operations({"create", "alter", "drop", "unalter"})) OBVIOUS
  <2>3. 0 \in 0..HEAD BY <1>1
  <2>4. Idle \in [target : 0..HEAD, up : BOOLEAN, running : BOOLEAN,
                 ops : Seq(Operations({"create", "alter", "drop", "unalter"}))]
    BY <2>2, <2>3 DEF Idle
  <2>5. Schema(db) /\ durable = [db |-> db, revision |-> 0] /\ Schema(durable.db) /\ durable.revision = 0
    BY <2>1 DEF SchemaInit, Schema
  <2> QED BY <2>3, <2>4, <2>5 DEF SchemaInit, SchemaTypeOK
<1>4. durable.db = db /\ durable.revision = 0 /\ revision = 0 /\ ~command.running /\ ~interrupted
  BY DEF SchemaInit, Idle
<1> QED BY <1>2, <1>3, <1>4
     DEF SchemaInit, SchemaInv, Directed, OnlySqlite, RollsBack, AtRest, AtStart, GoingUp, GoingDown, Marked

LEMMA StartKeeps ==
  ASSUME SchemaInv, NEW target \in Targets, Start(target)
  PROVE  SchemaInv'
<1> USE DEF SchemaInv
<1>1. target \in 0..HEAD /\ revision \in 0..HEAD BY RevisionsAssumption DEF SchemaTypeOK
<1>2. /\ ~command.running /\ target # revision
      /\ command' = [target |-> target, up |-> target > revision, ops |-> NextOps(target, revision), running |-> TRUE]
      /\ backend' = backend /\ db' = db /\ revision' = revision /\ durable' = durable /\ interrupted' = interrupted
  BY DEF Start
<1>3. command'.running /\ command'.target = target /\ (command'.up <=> target > revision)
      /\ command'.ops = NextOps(target, revision)
  BY <1>2
<1>4. SchemaTypeOK' BY <1>1, <1>2, OnTheWay DEF SchemaTypeOK, Schema
<1>5. Directed' /\ OnlySqlite' /\ RollsBack' BY <1>2, <1>3 DEF Directed, OnlySqlite, RollsBack, SchemaAt
<1>6. AtRest' /\ AtStart' BY <1>2, <1>3 DEF AtRest, AtStart, Marked
<1>7. GoingUp'
  <2> SUFFICES ASSUME ~interrupted, target > revision
               PROVE  \E k \in 0..Len(Upgrade[revision + 1]) : GoneUp(k)'
    BY <1>2, <1>3 DEF GoingUp
  <2>1. revision + 1 \in 1..HEAD BY <1>1, <1>2, OnTheWay
  <2>2. command'.ops = UpRest(revision + 1, 0) BY <1>1, <1>2, <1>3, <2>1, OnTheWay, WholeRevision
  <2>3. db = SchemaOf(OpsUpTo(revision, 0)) BY <1>2 DEF AtRest, SchemaAt
  <2>4. GoneUp(0)' BY <1>2, <2>2, <2>3 DEF GoneUp
  <2>5. 0 \in 0..Len(Upgrade[revision + 1]) BY <2>1, WholeRevision
  <2> QED BY <2>4, <2>5, Zenon
<1>8. GoingDown'
  <2> SUFFICES ASSUME ~interrupted, ~(target > revision)
               PROVE  \E k \in 0..Len(Upgrade[revision]) : GoneDown(k)'
    BY <1>2, <1>3 DEF GoingDown
  <2>1. revision \in 1..HEAD BY <1>1, <1>2, OnTheWay
  <2>2. command'.ops = DownRest(revision, Len(Upgrade[revision])) BY <1>1, <1>2, <1>3, <2>1, OnTheWay, WholeRevision
  <2>3. db = SchemaOf(OpsUpTo(revision - 1, Len(Upgrade[revision]))) BY <1>2, <2>1, WholeRevision DEF AtRest
  <2>4. PICK n \in 0..Len(Upgrade[revision]) : n = Len(Upgrade[revision]) BY <2>1, WholeRevision
  <2>5. GoneDown(n)' BY <1>2, <2>2, <2>3, <2>4 DEF GoneDown
  <2> QED BY <2>5, Zenon
<1> QED BY <1>4, <1>5, <1>6, <1>7, <1>8

LEMMA OperateKeeps ==
  ASSUME SchemaInv, Operate
  PROVE  SchemaInv'
<1> USE DEF SchemaInv
<1> DEFINE op == Head(command.ops)
           T == Operations({"create", "alter", "drop", "unalter"})
<1>1. /\ command.running /\ command.ops # <<>> /\ ~Refused(op)
      /\ db' = Applied(op) /\ command' = [command EXCEPT !.ops = Tail(@)]
      /\ durable' = IF CommittedAtOnce(op) THEN [db |-> db', revision |-> revision] ELSE durable
      /\ backend' = backend /\ revision' = revision /\ interrupted' = interrupted
  BY DEF Operate
<1>2. command \in [target : 0..HEAD, up : BOOLEAN, running : BOOLEAN, ops : Seq(T)] BY DEF SchemaTypeOK
<1>3. op \in T /\ Tail(command.ops) \in Seq(T) /\ Len(Tail(command.ops)) = Len(command.ops) - 1
  <2>1. command.ops \in Seq(T) BY <1>2
  <2> QED BY <1>1, <2>1, HeadTailProperties
<1>4. command' \in [target : 0..HEAD, up : BOOLEAN, running : BOOLEAN, ops : Seq(T)]
      /\ command'.running /\ command'.target = command.target /\ command'.up = command.up
      /\ command'.ops = Tail(command.ops)
  BY <1>1, <1>2, <1>3
<1>5. Schema(db') BY <1>1, <1>3, AppliedTyped DEF SchemaTypeOK
<1>6. SchemaTypeOK'
  <2>1. durable' = [db |-> durable'.db, revision |-> durable'.revision] /\ Schema(durable'.db) /\ durable'.revision \in 0..HEAD
    BY <1>1, <1>5 DEF SchemaTypeOK
  <2> QED BY <1>1, <1>4, <1>5, <2>1 DEF SchemaTypeOK, Schema
<1>7. Directed' /\ OnlySqlite' /\ AtRest' BY <1>1, <1>4 DEF Directed, OnlySqlite, AtRest
<1>8. RollsBack' BY <1>1 DEF RollsBack, CommittedAtOnce, SchemaAt
<1>9. revision \in 0..HEAD /\ command.target \in 0..HEAD /\ command.target # revision
      /\ (command.up <=> command.target > revision)
  BY <1>1, <1>2 DEF Directed, SchemaTypeOK
<1>10. GoingUp' /\ (~interrupted /\ command.up => command'.ops # NextOps(command.target, revision))
  <2> SUFFICES ASSUME ~interrupted, command.up
               PROVE  /\ \E k \in 0..Len(Upgrade[revision + 1]) : GoneUp(k)'
                      /\ command'.ops # NextOps(command.target, revision)
    BY <1>1, <1>4 DEF GoingUp
  <2>1. revision + 1 \in 1..HEAD /\ NextOps(command.target, revision) = Upgrade[revision + 1] BY <1>9, OnTheWay
  <2>2. PICK k \in 0..Len(Upgrade[revision + 1]) : GoneUp(k) BY <1>1 DEF GoingUp
  <2>3. k + 1 \in 1..Len(Upgrade[revision + 1]) /\ op = Upgrade[revision + 1][k + 1]
        /\ Tail(command.ops) = UpRest(revision + 1, k + 1)
    BY <1>1, <2>1, <2>2, RestUp DEF GoneUp
  <2>4. k \in Nat /\ k + 1 \in 0..Len(Upgrade[revision + 1]) /\ k + 1 # 0 /\ (k + 1) - 1 = k
        /\ (revision + 1) - 1 = revision /\ Len(Upgrade[revision + 1]) \in Nat
    BY <1>9, <2>1, <2>3, RevisionsTyped
  <2>5. Extends(op, OpsUpTo(revision, k)) BY <2>1, <2>3, <2>4, RevisionsAssumption
  <2>6. OpsUpTo(revision, k + 1) = OpsUpTo(revision, k) \cup {op} BY <2>1, <2>3, <2>4, OneMore
  <2>7. Reaches(revision, k)
    <3>1. HEAD \in Nat /\ revision < HEAD /\ k <= Len(Upgrade[revision + 1]) BY <1>9, <2>1, <2>4, RevisionsTyped
    <3> QED BY <1>9, <2>4, <3>1 DEF Reaches
  <2>8. OpsUpTo(revision, k) \subseteq Operations({"create", "alter"}) /\ op \in Operations({"create", "alter"})
    BY <2>1, <2>3, <2>7, OpsTyped, RevisionsTyped
  <2>9. Applied(op) = SchemaOf(OpsUpTo(revision, k) \cup {op}) BY <2>2, <2>5, <2>8, UpOne DEF GoneUp
  <2>10. GoneUp(k + 1)' BY <1>1, <1>4, <2>3, <2>6, <2>9 DEF GoneUp
  <2>11. UpRest(revision + 1, k + 1) # Upgrade[revision + 1] BY <2>1, <2>4, RestUp
  <2> QED BY <1>4, <2>1, <2>3, <2>4, <2>10, <2>11
<1>11. GoingDown' /\ (~interrupted /\ ~command.up => command'.ops # NextOps(command.target, revision))
  <2> SUFFICES ASSUME ~interrupted, ~command.up
               PROVE  /\ \E k \in 0..Len(Upgrade[revision]) : GoneDown(k)'
                      /\ command'.ops # NextOps(command.target, revision)
    BY <1>1, <1>4 DEF GoingDown
  <2>1. revision \in 1..HEAD /\ NextOps(command.target, revision) = Downgrade[revision] BY <1>9, OnTheWay
  <2>2. PICK k \in 0..Len(Upgrade[revision]) : GoneDown(k) BY <1>1 DEF GoingDown
  <2>3. k \in 1..Len(Upgrade[revision]) /\ op = Undo(Upgrade[revision][k])
        /\ Tail(command.ops) = DownRest(revision, k - 1)
    BY <1>1, <2>1, <2>2, RestDown DEF GoneDown
  <2>4. k - 1 \in Nat /\ k - 1 \in 0..Len(Upgrade[revision]) /\ k - 1 # Len(Upgrade[revision])
        /\ (revision - 1) + 1 = revision /\ revision - 1 \in 0..HEAD /\ revision - 1 < HEAD
        /\ k - 1 <= Len(Upgrade[revision]) /\ HEAD \in Nat
    BY <2>1, <2>3, RevisionsTyped
  <2> DEFINE done == Upgrade[revision][k]
             before == OpsUpTo(revision - 1, k - 1)
  <2>5. Extends(done, before) BY <2>1, <2>3, RevisionsAssumption
  <2>6. OpsUpTo(revision - 1, k) = before \cup {done} BY <2>1, <2>3, OneMore
  <2>7. Reaches(revision - 1, k - 1) BY <2>4 DEF Reaches
  <2>8. before \subseteq Operations({"create", "alter"}) /\ done \in Operations({"create", "alter"})
        /\ \A o \in before : o.refs \subseteq Tables(before)
    BY <2>1, <2>3, <2>7, OpsTyped, RefsClosed, RevisionsTyped
  <2>9. db = SchemaOf(before \cup {done}) BY <2>2, <2>6 DEF GoneDown
  <2>10. Applied(Undo(done)) = SchemaOf(before)
    <3> HIDE DEF before, done
    <3> QED BY <2>5, <2>8, <2>9, DownOne
  <2>11. GoneDown(k - 1)' BY <1>1, <1>4, <2>3, <2>10 DEF GoneDown
  <2>12. DownRest(revision, k - 1) # Downgrade[revision] BY <2>1, <2>4, RestDown
  <2> QED BY <1>4, <2>1, <2>3, <2>4, <2>11, <2>12
<1>12. AtStart'
  <2> SUFFICES ASSUME ~interrupted PROVE command'.ops # NextOps(command.target, revision)
    BY <1>1, <1>4 DEF AtStart
  <2> QED BY <1>10, <1>11
<1> QED BY <1>6, <1>7, <1>8, <1>10, <1>11, <1>12

LEMMA MarkKeeps ==
  ASSUME SchemaInv, Mark
  PROVE  SchemaInv'
<1> USE DEF SchemaInv
<1> DEFINE r == IF command.up THEN revision + 1 ELSE revision - 1
           T == Operations({"create", "alter", "drop", "unalter"})
<1>1. /\ command.running /\ command.ops = <<>> /\ revision' = r
      /\ command' = IF r = command.target THEN Idle ELSE [command EXCEPT !.ops = NextOps(command.target, r)]
      /\ durable' = IF r = command.target \/ backend = "sqlite" THEN [db |-> db, revision |-> r] ELSE durable
      /\ backend' = backend /\ db' = db /\ interrupted' = interrupted
  BY DEF Mark
<1>2. command \in [target : 0..HEAD, up : BOOLEAN, running : BOOLEAN, ops : Seq(T)] BY DEF SchemaTypeOK
<1>3. revision \in 0..HEAD /\ command.target \in 0..HEAD /\ command.target # revision
      /\ (command.up <=> command.target > revision) /\ command.up \in BOOLEAN
  BY <1>1, <1>2 DEF Directed, SchemaTypeOK
<1>4. r \in 0..HEAD /\ (r # command.target => (command.up <=> command.target > r))
  <2>1. HEAD \in Nat BY RevisionsTyped
  <2>2. CASE command.up BY <1>3, <2>1, <2>2
  <2>3. CASE ~command.up BY <1>3, <2>1, <2>3
  <2> QED BY <2>2, <2>3
<1>5. ~interrupted => db = SchemaAt(r)
  <2> SUFFICES ASSUME ~interrupted PROVE db = SchemaAt(r) OBVIOUS
  <2>1. CASE command.up
    <3>1. revision + 1 \in 1..HEAD BY <1>3, <2>1, OnTheWay
    <3>2. PICK k \in 0..Len(Upgrade[revision + 1]) : GoneUp(k) BY <1>1, <2>1 DEF GoingUp
    <3>3. k = Len(Upgrade[revision + 1]) BY <1>1, <3>1, <3>2, RestUp DEF GoneUp
    <3>4. (revision + 1) - 1 = revision BY <1>3
    <3> QED BY <2>1, <3>1, <3>2, <3>3, <3>4, WholeRevision DEF GoneUp
  <2>2. CASE ~command.up
    <3>1. revision \in 1..HEAD BY <1>3, <2>2, OnTheWay
    <3>2. PICK k \in 0..Len(Upgrade[revision]) : GoneDown(k) BY <1>1, <2>2 DEF GoingDown
    <3>3. k = 0 BY <1>1, <3>1, <3>2, RestDown DEF GoneDown
    <3> QED BY <2>2, <3>2, <3>3 DEF GoneDown, SchemaAt
  <2> QED BY <2>1, <2>2
<1>6. durable' = [db |-> db, revision |-> r] \/ durable' = durable BY <1>1
<1>7. Marked' \/ (r # command.target /\ backend # "sqlite" /\ durable' = durable) BY <1>1 DEF Marked
<1>8. OnlySqlite' BY <1>1 DEF OnlySqlite
<1>9. RollsBack'
  <2> SUFFICES ASSUME backend = "postgresql" PROVE durable'.db = SchemaAt(durable'.revision)
    BY <1>1 DEF RollsBack, SchemaAt
  <2>1. ~interrupted BY DEF OnlySqlite
  <2> QED BY <1>5, <1>6, <2>1 DEF RollsBack
<1>10. CASE r = command.target
  <2>1. command' = Idle /\ ~command'.running BY <1>1, <1>10 DEF Idle
  <2>2. SchemaTypeOK'
    <3>1. <<>> \in Seq(T) /\ 0 \in 0..HEAD BY RevisionsTyped
    <3>2. command' \in [target : 0..HEAD, up : BOOLEAN, running : BOOLEAN, ops : Seq(T)] BY <2>1, <3>1 DEF Idle
    <3> QED BY <1>1, <1>4, <1>6, <3>2 DEF SchemaTypeOK, Schema
  <2> QED BY <1>1, <1>5, <1>7, <1>8, <1>9, <1>10, <2>1, <2>2
       DEF Directed, AtRest, AtStart, GoingUp, GoingDown, SchemaAt
<1>11. CASE r # command.target
  <2>1. command' = [command EXCEPT !.ops = NextOps(command.target, r)] BY <1>1, <1>11
  <2>2. NextOps(command.target, r) \in Seq(T) BY <1>3, <1>4, <1>11, OnTheWay
  <2>3. command' \in [target : 0..HEAD, up : BOOLEAN, running : BOOLEAN, ops : Seq(T)]
        /\ command'.running /\ command'.up = command.up /\ command'.target = command.target
        /\ command'.ops = NextOps(command.target, r)
    BY <1>1, <1>2, <2>1, <2>2
  <2>4. SchemaTypeOK' BY <1>1, <1>4, <1>6, <2>3 DEF SchemaTypeOK, Schema
  <2>5. Directed' BY <1>1, <1>4, <1>11, <2>3 DEF Directed
  <2>6. AtRest' /\ AtStart' BY <1>1, <1>7, <2>3 DEF AtRest, AtStart
  <2>7. GoingUp'
    <3> SUFFICES ASSUME ~interrupted, command.up
                 PROVE  \E k \in 0..Len(Upgrade[r + 1]) : GoneUp(k)'
      BY <1>1, <2>3 DEF GoingUp
    <3>1. r + 1 \in 1..HEAD /\ NextOps(command.target, r) = Upgrade[r + 1] BY <1>3, <1>4, <1>11, OnTheWay
    <3>2. GoneUp(0)' BY <1>1, <1>5, <2>3, <3>1, WholeRevision DEF GoneUp, SchemaAt
    <3> QED BY <3>1, <3>2, WholeRevision
  <2>8. GoingDown'
    <3> SUFFICES ASSUME ~interrupted, ~command.up
                 PROVE  \E k \in 0..Len(Upgrade[r]) : GoneDown(k)'
      BY <1>1, <2>3 DEF GoingDown
    <3>1. r \in 1..HEAD /\ NextOps(command.target, r) = Downgrade[r] BY <1>3, <1>4, <1>11, OnTheWay
    <3>2. command'.ops = DownRest(r, Len(Upgrade[r])) BY <2>3, <3>1, WholeRevision
    <3>3. db = SchemaOf(OpsUpTo(r - 1, Len(Upgrade[r]))) BY <1>5, <3>1, WholeRevision
    <3>4. revision' = r /\ db' = db BY <1>1
    <3> HIDE DEF r
    <3>5. PICK n \in 0..Len(Upgrade[r]) : n = Len(Upgrade[r]) BY <3>1, WholeRevision
    <3>6. GoneDown(n)' BY <3>2, <3>3, <3>4, <3>5 DEF GoneDown
    <3> QED BY <3>6, Zenon
  <2> QED BY <1>8, <1>9, <2>4, <2>5, <2>6, <2>7, <2>8
<1> QED BY <1>10, <1>11

LEMMA StopKeeps ==
  ASSUME SchemaInv, Stop
  PROVE  SchemaInv'
<1> USE DEF SchemaInv
<1>1. /\ command.running /\ db' = durable.db /\ revision' = durable.revision /\ command' = Idle
      /\ interrupted' = (interrupted \/ (backend = "sqlite" /\ command.ops # NextOps(command.target, revision)))
      /\ backend' = backend /\ durable' = durable
  BY DEF Stop
<1>2. ~command'.running BY <1>1 DEF Idle
<1>3. SchemaTypeOK'
  <2>1. HEAD \in Nat BY RevisionsTyped
  <2>2. <<>> \in Seq(Operations({"create", "alter", "drop", "unalter"})) /\ 0 \in 0..HEAD BY <2>1
  <2>3. command' \in [target : 0..HEAD, up : BOOLEAN, running : BOOLEAN,
                      ops : Seq(Operations({"create", "alter", "drop", "unalter"}))]
    BY <1>1, <2>2 DEF Idle
  <2>4. interrupted' \in BOOLEAN BY <1>1 DEF SchemaTypeOK
  <2> QED BY <1>1, <2>3, <2>4 DEF SchemaTypeOK, Schema
<1>4. OnlySqlite' /\ RollsBack' BY <1>1 DEF OnlySqlite, RollsBack, SchemaAt
<1>5. AtRest'
  <2> SUFFICES ASSUME ~interrupted' PROVE durable.db = SchemaAt(durable.revision) /\ Marked'
    BY <1>1 DEF AtRest, SchemaAt
  <2>1. ~interrupted /\ (backend = "sqlite" => command.ops = NextOps(command.target, revision)) BY <1>1
  <2>2. durable = [db |-> durable.db, revision |-> durable.revision]
    BY DEF SchemaTypeOK
  <2>3. Marked' BY <1>1, <2>2 DEF Marked
  <2>4. CASE backend = "postgresql" BY <2>3, <2>4 DEF RollsBack
  <2>5. CASE backend = "sqlite"
    <3>1. Marked /\ command.ops = NextOps(command.target, revision) BY <1>1, <2>1, <2>5 DEF AtStart
    <3>2. db = SchemaAt(revision)
      <4>0. revision \in 0..HEAD /\ command.target \in 0..HEAD /\ command.target # revision
            /\ (command.up <=> command.target > revision)
        BY <1>1 DEF Directed, SchemaTypeOK
      <4>1. CASE command.up
        <5>1. revision + 1 \in 1..HEAD /\ command.ops = Upgrade[revision + 1] BY <3>1, <4>0, <4>1, OnTheWay
        <5>2. PICK k \in 0..Len(Upgrade[revision + 1]) : GoneUp(k) BY <1>1, <2>1, <4>1 DEF GoingUp
        <5>3. k = 0 BY <5>1, <5>2, RestUp DEF GoneUp
        <5> QED BY <5>2, <5>3 DEF GoneUp, SchemaAt
      <4>2. CASE ~command.up
        <5>1. revision \in 1..HEAD /\ command.ops = Downgrade[revision] BY <3>1, <4>0, <4>2, OnTheWay
        <5>2. PICK k \in 0..Len(Upgrade[revision]) : GoneDown(k) BY <1>1, <2>1, <4>2 DEF GoingDown
        <5>3. k = Len(Upgrade[revision]) BY <5>1, <5>2, RestDown DEF GoneDown
        <5> QED BY <5>1, <5>2, <5>3, WholeRevision DEF GoneDown
      <4> QED BY <4>1, <4>2
    <3> QED BY <2>3, <3>1, <3>2 DEF Marked
  <2> QED BY <2>4, <2>5 DEF SchemaTypeOK
<1> QED BY <1>2, <1>3, <1>4, <1>5 DEF Directed, AtStart, GoingUp, GoingDown

THEOREM SchemaInvariant == SchemaSpec => []SchemaInv
<1>1. SchemaInv /\ [SchemaNext]_schemaVars => SchemaInv'
  <2> SUFFICES ASSUME SchemaInv, [SchemaNext]_schemaVars PROVE SchemaInv' OBVIOUS
  <2>1. CASE \E target \in Targets : Start(target) BY <2>1, StartKeeps
  <2>2. CASE Operate BY <2>2, OperateKeeps
  <2>3. CASE Mark BY <2>3, MarkKeeps
  <2>4. CASE Stop BY <2>4, StopKeeps
  <2>5. CASE UNCHANGED schemaVars
    BY <2>5 DEF schemaVars, SchemaInv, SchemaTypeOK, Schema, Directed, OnlySqlite, RollsBack, AtRest, AtStart, GoingUp,
                GoingDown, GoneUp, GoneDown, Marked, SchemaAt
  <2> QED BY <2>1, <2>2, <2>3, <2>4, <2>5 DEF SchemaNext
<1> QED BY <1>1, SchemaInitial, PTL DEF SchemaSpec

(* Between commands the tables are those of the revision on record, and no *)
(* operation is refused on the way, whatever commands were run or died     *)
(* before, and however many revisions are written one upon the other.      *)
THEOREM SchemaAlwaysMatchesRevision == SchemaSpec => []SchemaMatchesRevision
<1>1. SchemaInv => SchemaMatchesRevision
  <2> SUFFICES ASSUME SchemaInv, ~interrupted
               PROVE  /\ ~command.running => db = SchemaAt(revision)
                      /\ command.running /\ command.ops # <<>> => ~Refused(Head(command.ops))
    BY DEF SchemaMatchesRevision
  <2> USE DEF SchemaInv
  <2>1. ~command.running => db = SchemaAt(revision) BY DEF AtRest
  <2>2. ASSUME command.running, command.ops # <<>> PROVE ~Refused(Head(command.ops))
    <3>0. revision \in 0..HEAD /\ command.target \in 0..HEAD /\ command.target # revision
          /\ (command.up <=> command.target > revision)
      BY <2>2 DEF Directed, SchemaTypeOK
    <3>1. CASE command.up
      <4>1. revision + 1 \in 1..HEAD BY <3>0, <3>1, OnTheWay
      <4>2. PICK k \in 0..Len(Upgrade[revision + 1]) : GoneUp(k) BY <2>2, <3>1 DEF GoingUp
      <4> DEFINE op == Upgrade[revision + 1][k + 1]
      <4>3. k + 1 \in 1..Len(Upgrade[revision + 1]) /\ Head(command.ops) = op
        BY <2>2, <4>1, <4>2, RestUp DEF GoneUp
      <4>4. k \in Nat /\ (k + 1) - 1 = k /\ (revision + 1) - 1 = revision /\ Len(Upgrade[revision + 1]) \in Nat
            /\ HEAD \in Nat
        BY <3>0, <4>1, RevisionsTyped
      <4>5. Extends(op, OpsUpTo(revision, k)) BY <4>1, <4>3, <4>4, RevisionsAssumption
      <4>6. Reaches(revision, k) BY <3>0, <4>1, <4>3, <4>4 DEF Reaches
      <4>7. OpsUpTo(revision, k) \subseteq Operations({"create", "alter"}) /\ op \in Operations({"create", "alter"})
        BY <4>1, <4>3, <4>6, OpsTyped, RevisionsTyped
      <4> QED BY <4>2, <4>3, <4>5, <4>7, UpOne DEF GoneUp
    <3>2. CASE ~command.up
      <4>1. revision \in 1..HEAD BY <3>0, <3>2, OnTheWay
      <4>2. PICK k \in 0..Len(Upgrade[revision]) : GoneDown(k) BY <2>2, <3>2 DEF GoingDown
      <4> DEFINE done == Upgrade[revision][k]
                 before == OpsUpTo(revision - 1, k - 1)
      <4>3. k \in 1..Len(Upgrade[revision]) /\ Head(command.ops) = Undo(done)
        BY <2>2, <4>1, <4>2, RestDown DEF GoneDown
      <4>4. k - 1 \in Nat /\ k - 1 <= Len(Upgrade[revision]) /\ (revision - 1) + 1 = revision
            /\ revision - 1 \in 0..HEAD /\ revision - 1 < HEAD
        BY <4>1, <4>3, RevisionsTyped
      <4>5. Extends(done, before) BY <4>1, <4>3, RevisionsAssumption
      <4>6. Reaches(revision - 1, k - 1) BY <4>4 DEF Reaches
      <4>7. before \subseteq Operations({"create", "alter"}) /\ done \in Operations({"create", "alter"})
            /\ \A o \in before : o.refs \subseteq Tables(before)
        BY <4>1, <4>3, <4>6, OpsTyped, RefsClosed, RevisionsTyped
      <4>8. db = SchemaOf(before \cup {done}) BY <4>1, <4>2, <4>3, OneMore DEF GoneDown
      <4>9. ~Refused(Undo(done))
        <5> HIDE DEF before, done
        <5> QED BY <4>5, <4>7, <4>8, DownOne
      <4> QED BY <4>3, <4>9
    <3> QED BY <3>1, <3>2
  <2> QED BY <2>1, <2>2
<1> QED BY <1>1, SchemaInvariant, PTL
=============================================================================
