------------------------ MODULE PayslipReconciliation ------------------------
(***************************************************************************)
(* A payslip is read and compared with what payroll paid and with what the *)
(* statutory engine projects: PayslipExtractor past the recognition of     *)
(* labels and amounts, ReconciliationTolerancePolicy, ReconciliationEngine.*)
(* Amounts are in paise.  An amount that is not printed is read as 0, and  *)
(* so is all of a scanned document: the fallback recognizes no text.       *)
(*                                                                         *)
(* The employer prints the slip from the payroll item in whole rupees, and *)
(* may print a figure wrong.                                               *)
(***************************************************************************)
EXTENDS Integers, FiniteSets

CONSTANTS
  Items,        \* payroll items
  Misprints     \* wrong amounts

Fields == {"gross", "basic", "hra", "epf", "pt", "tds", "deductions", "net"}
Printed == Fields \cup {"special"}
Item == {i \in [Printed -> Nat] :
           /\ i["gross"] = i["basic"] + i["hra"] + i["special"]
           /\ i["deductions"] = i["epf"] + i["pt"] + i["tds"]
           /\ i["gross"] = i["net"] + i["deductions"]}

ASSUME ItemsAssumption == Items \subseteq Item /\ Misprints \subseteq Nat

VARIABLES
  item,         \* the payroll item
  statutory,    \* the projection, a function of some fields
  hasPayroll,   \* is the item found for the period on the slip?
  scanned,      \* is the slip a scanned image?
  slip,         \* what is printed
  verdict       \* the result of the reconciliation, or NoVerdict

slipVars == <<item, statutory, hasPayroll, scanned, slip, verdict>>

-----------------------------------------------------------------------------
Abs(n) == IF n < 0 THEN -n ELSE n

(* extract_from_pdf and the extraction of earnings, deductions and totals: *)
(* a total that is missing, or printed as 0, is derived from what was read.*)
FormulaExact(net, calculated) == net = calculated
Formula(net, calculated) == Abs(net - calculated) <= 100

Seen == IF scanned THEN [f \in Printed |-> 0] ELSE slip
Gross(s) == IF s["gross"] # 0 THEN s["gross"] ELSE s["basic"] + s["hra"] + s["special"]
Deductions(s) == IF s["deductions"] # 0 THEN s["deductions"] ELSE s["epf"] + s["pt"] + s["tds"]
Calculated(s) == Gross(s) - Deductions(s)

Read(s) ==
  [f \in Fields |-> CASE f = "gross" -> Gross(s)
                      [] f = "deductions" -> Deductions(s)
                      [] f = "net" -> IF s["net"] > 0 THEN s["net"] ELSE Calculated(s)
                      [] OTHER -> s[f]]
FormulaVerified(s) == s["net"] > 0 => Formula(s["net"], Calculated(s))

-----------------------------------------------------------------------------
(* POLICIES: the absolute tolerance, and the one part of the expected      *)
(* amount that is tolerated as well, 0 for none.                           *)
Absolute == [f \in Fields |-> CASE f = "gross" -> 1000 [] f \in {"basic", "hra", "tds"} -> 500
                                [] f = "epf" -> 100 [] f = "pt" -> 0 [] f \in {"net", "deductions"} -> 200]
Part == [f \in Fields |-> CASE f \in {"gross", "basic", "hra"} -> 1000 [] f = "tds" -> 200 [] OTHER -> 0]

evaluate_difference(f, actual, expected) ==
  LET delta == Abs(actual - expected) IN
  IF delta = 0 THEN "EXACT"
  ELSE IF delta <= Absolute[f] \/ (Part[f] > 0 /\ expected > 0 /\ delta <= expected \div Part[f])
  THEN "TOLERABLE_ROUNDING" ELSE "CRITICAL_MISMATCH"

(* Document against payroll and against the projection, field by field.    *)
Against(f, read) == IF hasPayroll THEN evaluate_difference(f, read[f], item[f]) ELSE "EXACT"
Projected(f, read) ==
  IF f \in DOMAIN statutory THEN evaluate_difference(f, read[f], statutory[f]) ELSE "EXACT"

FieldStatus(f, read) ==
  IF "CRITICAL_MISMATCH" \in {Against(f, read), Projected(f, read)} THEN "CRITICAL"
  ELSE IF "TOLERABLE_ROUNDING" \in {Against(f, read), Projected(f, read)} THEN "WARNING" ELSE "MATCHED"

MismatchCode == [f \in Fields |-> <<f, "MISMATCH">>]
FieldCode(f, read) ==
  IF Against(f, read) = "CRITICAL_MISMATCH"
  THEN IF f = "epf" THEN <<f, IF read[f] < item[f] THEN "UNDER_DEDUCTION" ELSE "OVER_DEDUCTION">>
       ELSE MismatchCode[f]
  ELSE IF Against(f, read) = "TOLERABLE_ROUNDING" THEN <<"ROUNDING_VARIANCE">>
  ELSE IF Projected(f, read) = "CRITICAL_MISMATCH" THEN MismatchCode[f]
  ELSE IF Projected(f, read) = "TOLERABLE_ROUNDING" THEN <<"ROUNDING_VARIANCE">> ELSE <<>>

(* A field that payroll only rounds and the projection rejects counts as   *)
(* both.                                                                   *)
Warned(f, read) == \/ Against(f, read) = "TOLERABLE_ROUNDING"
                   \/ FieldStatus(f, read) = "WARNING"

OverallRoundingFirst(criticals, warnings, verified) ==
  IF warnings > 0 THEN "DISCREPANCY_WARNING"
  ELSE IF criticals > 0 \/ ~verified THEN "DISCREPANCY_CRITICAL"
  ELSE IF ~hasPayroll /\ DOMAIN statutory = {} THEN "UNRECONCILED" ELSE "MATCHED"
Overall(criticals, warnings, verified) ==
  IF criticals > 0 \/ ~verified THEN "DISCREPANCY_CRITICAL"
  ELSE IF warnings > 0 THEN "DISCREPANCY_WARNING"
  ELSE IF ~hasPayroll /\ DOMAIN statutory = {} THEN "UNRECONCILED" ELSE "MATCHED"

reconcile(read, verified) ==
  LET criticals == Cardinality({f \in Fields : FieldStatus(f, read) = "CRITICAL"})
      warnings == Cardinality({f \in Fields : Warned(f, read)}) IN
  [status |-> Overall(criticals, warnings, verified),
   total |-> criticals + warnings,
   matched |-> Cardinality({f \in Fields : FieldStatus(f, read) = "MATCHED"}),
   codes |-> ({FieldCode(f, read) : f \in Fields} \ {<<>>})
             \cup (IF hasPayroll THEN {} ELSE {<<"PAYROLL_REFERENCE_MISSING">>})
             \cup (IF DOMAIN statutory # {} THEN {} ELSE {<<"STATUTORY_REFERENCE_MISSING">>})
             \cup (IF verified THEN {} ELSE {<<"DOCUMENT_FORMULA_MISMATCH">>})]

-----------------------------------------------------------------------------
NoVerdict == [status |-> "none"]

WholeRupees(amount) == ((amount + 50) \div 100) * 100
Rounded(i) == [f \in Printed |-> WholeRupees(i[f])]

(* The projection: a twelfth of the annual amounts, here those of an       *)
(* earlier payroll item.                                                   *)
Projections == {[f \in {} |-> 0]} \cup {[f \in {"gross", "epf", "pt", "tds"} |-> i[f]] : i \in Items}

SlipInit ==
  /\ item \in Items /\ statutory \in Projections
  /\ hasPayroll \in BOOLEAN /\ scanned \in BOOLEAN
  /\ slip = Rounded(item) /\ verdict = NoVerdict

Misprint(f, amount) ==
  /\ verdict = NoVerdict /\ slip = Rounded(item)
  /\ slip' = [slip EXCEPT ![f] = amount]
  /\ UNCHANGED <<item, statutory, hasPayroll, scanned, verdict>>

Reconcile ==
  /\ verdict = NoVerdict
  /\ verdict' = reconcile(Read(Seen), FormulaVerified(Seen))
  /\ UNCHANGED <<item, statutory, hasPayroll, scanned, slip>>

SlipNext == (\E f \in Printed, amount \in Misprints : Misprint(f, amount)) \/ Reconcile

SlipSpec == SlipInit /\ [][SlipNext]_slipVars

-----------------------------------------------------------------------------
(* What printing in whole rupees costs the employer: a slip that rounds    *)
(* every figure of its payroll item passes the formula check and, compared *)
(* with that item alone, has a critical discrepancy exactly when the       *)
(* professional tax is not in whole rupees, as in Tamil Nadu: the policy   *)
(* tolerates the rounding of every other figure, and none of that one.     *)
RoundedSlipJudged ==
  verdict # NoVerdict /\ slip = Rounded(item) /\ ~scanned /\ DOMAIN statutory = {} =>
    (verdict.status = "DISCREPANCY_CRITICAL" <=> hasPayroll /\ item["pt"] % 100 # 0)

(* A verdict short of critical vouches for the slip: its figures are each  *)
(* within the tolerance of every reference it was compared with, and an    *)
(* image that could not be read does not pass where there is a reference   *)
(* to anything that was paid.                                              *)
Agrees(f, a, b) == Abs(a - b) <= Absolute[f] \/ (Part[f] > 0 /\ Abs(a - b) <= b \div Part[f])
VerdictVouches ==
  verdict # NoVerdict /\ verdict.status \in {"MATCHED", "DISCREPANCY_WARNING"} =>
    /\ \A f \in Fields : /\ hasPayroll => Agrees(f, Read(Seen)[f], item[f])
                         /\ f \in DOMAIN statutory => Agrees(f, Read(Seen)[f], statutory[f])
    /\ scanned => (hasPayroll => item["gross"] <= Absolute["gross"])
    /\ verdict.status = "MATCHED" => verdict.matched = Cardinality(Fields)
=============================================================================
