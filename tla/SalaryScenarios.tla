--------------------------- MODULE SalaryScenarios ---------------------------
(***************************************************************************)
(* ScenarioService over the calculation engine: a base salary is           *)
(* calculated, and again with a raise, nothing being stored.               *)
(***************************************************************************)
EXTENDS TaxEngine, Integers

CONSTANTS
  Salaries,   \* annual gross salaries
  Raises,     \* raises of them
  States,     \* state codes
  Claims      \* what is claimed under 80C and 80D

Whole(amount) == amount \in Nat /\ amount % 100 = 0

(* Salaries and claims are whole rupees, as the validation script's are.   *)
ASSUME SalariesAssumption ==
  /\ \A amount \in Salaries \cup Raises : Whole(amount)
  /\ \A salary \in Salaries, raise \in Raises \cup {0} : salary + raise <= Unlimited
  /\ \A c \in Claims : c = [sec80c |-> c.sec80c, sec80d |-> c.sec80d] /\ Whole(c.sec80c) /\ Whole(c.sec80d)

VARIABLES
  year, state, claims,
  base,       \* the base salary
  gross       \* the salary calculated last

salaryVars == <<year, state, claims, base, gross>>

Oracle == INSTANCE TaxOracle

SalaryInit ==
  /\ year \in Years /\ state \in States /\ claims \in Claims
  /\ base \in Salaries /\ gross = base

(* calculate_what_if_raises: each raise starts from the base.              *)
WhatIf(raise) ==
  /\ gross = base
  /\ gross' = base + raise
  /\ UNCHANGED <<year, state, claims, base>>

SalaryNext == \E raise \in Raises : WhatIf(raise)

SalarySpec == SalaryInit /\ [][SalaryNext]_salaryVars

-----------------------------------------------------------------------------
Rules(regime) == get_tax_rule_set(year, regime)
Given(regime) == IF regime = "OLD" THEN claims ELSE NoClaims
TaxOf(amount, regime) == calculate_tax(amount, Given(regime), Rules(regime))
Net(amount) ==
  calculate_salary([annual |-> amount, monthly |-> 0, ctc |-> 0, basic |-> 0, hra |-> 0, special |-> 0,
                    otherDeductions |-> 0], year, "NEW", state, FALSE)

(* What the oracle expects of a year and regime.                           *)
OracleTax(regime) ==
  CASE regime = "OLD" -> Oracle!calculate_fy2025_26_old(gross, claims.sec80c, claims.sec80d)
    [] regime = "NEW" /\ year = "2024-25" -> Oracle!calculate_fy2024_25_new(gross)
    [] OTHER -> Oracle!calculate_fy2025_26_new(gross)

Monthly(amount) == HalfUp(amount, 12)
InGap(amount) == PtSlabOf(Monthly(amount), get_pt_rule_set(state)) = {}

(* The engine and the oracle find the same tax, whichever of two rows an   *)
(* income on a limit of the surcharge meets; the provident fund differs by *)
(* the rounding of twelve months; and professional tax is the same unless  *)
(* the month's gross lies in the rupee between two slabs.  For Gujarat and *)
(* Tamil Nadu the oracle keeps another schedule than the seeded one.       *)
EngineMatchesOracle ==
  /\ \A regime \in Regimes : {t.total : t \in TaxOf(gross, regime)} = {OracleTax(regime)}
  /\ \A n \in Net(gross) :
       /\ n.pf - Oracle!annual_emp_pf(gross) \in -7..7
       /\ state \in {"GJ", "TN"} \/ InGap(gross) \/ n.pt = Oracle!calculate_annual_pt(state, gross)

(* No raise costs more in tax before cess than it brings: marginal relief  *)
(* smooths every limit at which a rebate ends or a surcharge begins.  Cess *)
(* on the relieved tax and rounding come on top.                           *)
RaisePays ==
  gross' # gross => \A regime \in Regimes : \A before \in TaxOf(gross, regime), after \in TaxOf(gross', regime) :
    after.beforeCess - before.beforeCess <= gross' - gross
RaisesPay == [][RaisePays]_salaryVars

(* compare_regimes calculates both regimes without claims, and then the    *)
(* new one is never dearer: the endpoint cannot recommend the old regime.  *)
ComparisonFavoursNew ==
  \A old \in calculate_tax(gross, NoClaims, Rules("OLD")), new \in calculate_tax(gross, NoClaims, Rules("NEW")) :
    Recommended(old.total, new.total) = "NEW"

(* The validation script: in Maharashtra more than 10,000 a month pays 200 *)
(* a month, in Karnataka 15,000 and more.                                  *)
ScheduleHolds ==
  LET pt == calculate_pt(Monthly(gross), get_pt_rule_set(state)).monthly IN
  /\ state = "KA" /\ Monthly(gross) >= Rupees(15000) => pt = Rupees(200)
  /\ state = "MH" /\ Monthly(gross) > Rupees(10000) => pt \in {Rupees(200), Rupees(300)}
=============================================================================
