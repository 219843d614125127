----------------------------- MODULE MCServices -----------------------------
(***************************************************************************)
(* The services that share no state with one another, each on a small      *)
(* instance of its own.  part says which of them runs; the variables of    *)
(* the others stay as they are.                                            *)
(***************************************************************************)
EXTENDS Compensation, PayslipReconciliation, CalculationStore, TaxDeclaration,
        RuleSupersession, RuleCandidates, RateLimiter, Migrations, Revisions, SalaryScenarios

CONSTANTS
  Parts         \* the services to look at

VARIABLES
  part

-----------------------------------------------------------------------------
(* Salaries around every limit of taxable income and of a month's gross.   *)
Limits == {250000, 300000, 400000, 500000, 700000, 800000, 1000000, 1200000, 1500000, 1600000, 2000000, 2400000,
           5000000, 10000000, 20000000}
MonthLimits == {7500, 10000, 15000, 20000, 25000, 40000}
MCSalaries ==
  {Rupees(l + d + e) : l \in Limits, d \in {50000, 75000}, e \in {-1, 0, 1}}
    \cup {Rupees(12 * l + e) : l \in MonthLimits, e \in {-6, 0, 6, 12}}

MCRaises == {Rupees(1), Rupees(20000), Rupees(150000)}
MCClaims == {[sec80c |-> 0, sec80d |-> 0], [sec80c |-> Rupees(150000), sec80d |-> Rupees(40000)]}

(* Payroll items with paise everywhere, professional tax as in Karnataka   *)
(* and as in Tamil Nadu, and a figure that rounds to nothing.              *)
PayrollItem(basic, hra, special, epf, pt, tds) ==
  [gross |-> basic + hra + special, basic |-> basic, hra |-> hra, special |-> special,
   epf |-> epf, pt |-> pt, tds |-> tds, deductions |-> epf + pt + tds,
   net |-> basic + hra + special - epf - pt - tds]
MCItems ==
  {PayrollItem(51, 25, 0, 0, 0, 0), PayrollItem(250050, 125049, 33, 30006, 0, 0),
   PayrollItem(2500049, 1250050, 125050, 180049, 20000, 50051), PayrollItem(250050, 125049, 33, 30049, 20000, 2),
   PayrollItem(1250050, 625025, 625025, 150006, 10417, 0), PayrollItem(3500049, 1750025, 1750024, 180000, 20833, 90017)}
MCMisprints == {0, 100, 20000, 180100, 250550}

-----------------------------------------------------------------------------
svars == <<vars, slipVars, part, declarationVars, storeVars, limiterVars, updateVars, amendmentVars, schemaVars,
           salaryVars>>

(* One initial state of each service stands for it while another one runs. *)
Only(p, pinned) == part = p \/ pinned

ServicesInit ==
  /\ part \in Parts
  /\ Init
  /\ IF part = "payslip" THEN SlipInit
     ELSE /\ item = CHOOSE i \in Items : TRUE
          /\ statutory = [f \in {} |-> 0] /\ hasPayroll = FALSE /\ scanned = FALSE /\ slip = item /\ verdict = NoVerdict
  /\ StoreInit /\ DeclInit /\ AmendInit
  /\ LimiterInit /\ Only("limiter", limiter = "memory")
  /\ UpdateInit /\ Only("updates", today = 202608)
  /\ SchemaInit /\ Only("schema", backend = "sqlite")
  /\ IF part = "salary" THEN SalaryInit
     ELSE /\ year = "2026-27" /\ state = (CHOOSE s \in States : TRUE) /\ claims = (CHOOSE c \in Claims : TRUE)
          /\ base = (CHOOSE s \in Salaries : TRUE) /\ gross = base

CompensationStep ==
  /\ part = "compensation" /\ Next
  /\ UNCHANGED <<part, slipVars, declarationVars, storeVars, limiterVars, updateVars, amendmentVars,
                 schemaVars, salaryVars>>
PayslipStep ==
  /\ part = "payslip" /\ SlipNext
  /\ UNCHANGED <<part, vars, declarationVars, storeVars, limiterVars, updateVars, amendmentVars, schemaVars, salaryVars>>
DeclarationStep ==
  /\ part = "declarations" /\ DeclNext
  /\ UNCHANGED <<part, vars, slipVars, storeVars, limiterVars, updateVars, amendmentVars, schemaVars, salaryVars>>
StoreStep ==
  /\ part = "store" /\ StoreNext
  /\ UNCHANGED <<part, vars, slipVars, declarationVars, limiterVars, updateVars, amendmentVars,
                 schemaVars, salaryVars>>
LimiterStep ==
  /\ part = "limiter" /\ LimiterNext
  /\ UNCHANGED <<part, vars, slipVars, declarationVars, storeVars, updateVars, amendmentVars, schemaVars, salaryVars>>
UpdateStep ==
  /\ part = "updates" /\ UpdateNext
  /\ UNCHANGED <<part, vars, slipVars, declarationVars, storeVars, limiterVars, amendmentVars, schemaVars, salaryVars>>
AmendmentStep ==
  /\ part = "amendments" /\ AmendNext
  /\ UNCHANGED <<part, vars, slipVars, declarationVars, storeVars, limiterVars, updateVars, schemaVars, salaryVars>>
SchemaStep ==
  /\ part = "schema" /\ SchemaNext
  /\ UNCHANGED <<part, vars, slipVars, declarationVars, storeVars, limiterVars, updateVars, amendmentVars, salaryVars>>
SalaryStep ==
  /\ part = "salary" /\ SalaryNext
  /\ UNCHANGED <<part, vars, slipVars, declarationVars, storeVars, limiterVars, updateVars, amendmentVars, schemaVars>>

ServicesNext ==
  \/ CompensationStep \/ PayslipStep \/ DeclarationStep \/ StoreStep \/ LimiterStep
  \/ UpdateStep \/ AmendmentStep \/ SchemaStep \/ SalaryStep

ServicesSpec == ServicesInit /\ [][ServicesNext]_svars

-----------------------------------------------------------------------------
(* The variables of a service that runs requests are of their types; the  *)
(* calculations and payslips change by single steps.                       *)
ServicesTypeOK ==
  CASE part = "compensation" -> TypeOK
    [] part = "declarations" -> DeclTypeOK
    [] part = "store"        -> StoreTypeOK
    [] part = "limiter"      -> LimiterTypeOK
    [] part = "updates"      -> UpdateTypeOK
    [] part = "amendments"   -> AmendTypeOK
    [] part = "schema"       -> SchemaTypeOK
    [] OTHER                 -> TRUE
=============================================================================
