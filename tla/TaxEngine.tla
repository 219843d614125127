------------------------------ MODULE TaxEngine ------------------------------
(***************************************************************************)
(* The calculation: salary normalizer, income tax, provident fund,         *)
(* professional tax and the net pay, as operators over amounts in paise.   *)
(* A quantized amount is rounded half up to the paisa.  Ages, residence    *)
(* and exemptions keep the defaults the calculation service gives them.    *)
(***************************************************************************)
EXTENDS StatutoryRates, Sequences

HalfUp(n, d) == (n + d \div 2) \div d     \* every d here is even
AtMost(a, b) == IF a <= b THEN a ELSE b
NotBelow(a, b) == IF a > b THEN a - b ELSE 0

(* quantize_currency(amount * rate), without the product's overflow.       *)
RateOf(amount, rate) == (amount \div 10000) * rate + HalfUp((amount % 10000) * rate, 10000)

(* round_to_nearest_ten, of rupees.                                        *)
NearestTenDown(amount) == (amount \div 1000) * 1000
NearestTen(amount) == HalfUp(amount, 1000) * 1000

-----------------------------------------------------------------------------
(* SlabCalculator: the total grows slab by slab, by a tax rounded on its   *)
(* own where the income reaches the slab.                                  *)
TaxInSlab(taxable, s) == IF taxable <= s.from THEN 0 ELSE RateOf(AtMost(taxable, s.to) - s.from, s.rate)
SlabTax(taxable, slabs) ==
  LET upTo[n \in 0..Len(slabs)] == IF n = 0 THEN 0 ELSE upTo[n - 1] + TaxInSlab(taxable, slabs[n])
  IN  upTo[Len(slabs)]

Rebate(taxable, slabTax, rules) == IF taxable <= rules.rebateLimit THEN AtMost(slabTax, rules.maxRebate) ELSE 0

(* Just above the limit of the rebate, no more tax than income above it.   *)
NoRebateRelief(taxable, slabTax, rules) == 0
RebateRelief(taxable, slabTax, rules) ==
  IF taxable <= rules.rebateLimit THEN 0 ELSE NotBelow(slabTax, taxable - rules.rebateLimit)

TaxAfterRebate(taxable, rules) ==
  LET slabTax == SlabTax(taxable, rules.slabs)
      rebate == Rebate(taxable, slabTax, rules) IN
  IF rebate # 0 THEN slabTax - rebate ELSE NotBelow(slabTax, RebateRelief(taxable, slabTax, rules))

(* The rows a surcharge may be taken by: the query does not order them, so *)
(* an income on a limit may meet either of two.                            *)
SurchargeRows(taxable, tax, rules) == {s \in rules.surcharges : tax > 0 /\ s.from <= taxable /\ taxable <= s.to}

(* Surcharge marginal relief: tax and surcharge exceed those on the row's  *)
(* limit, which pays the row before's rate, by no more than the income     *)
(* above the limit.                                                        *)
RateBefore(limit) ==
  CASE limit >= Lakh(200) -> 1500
    [] limit >= Lakh(100) /\ limit < Lakh(200) -> 1000
    [] OTHER -> 0

SurchargeRelief(taxable, tax, surcharge, s) ==
  LET excess == taxable - s.from
      taxOnLimit == NotBelow(tax, RateOf(excess, 3000)) IN
  NotBelow(tax + surcharge, taxOnLimit + RateOf(taxOnLimit, RateBefore(s.from)) + excess)

TaxAndSurcharge(taxable, rules) ==
  LET tax == TaxAfterRebate(taxable, rules)
      rows == SurchargeRows(taxable, tax, rules) IN
  IF rows = {} THEN {tax}
  ELSE {tax + RateOf(tax, s.rate) - SurchargeRelief(taxable, tax, RateOf(tax, s.rate), s) : s \in rows}

TotalTax(taxAndSurcharge, rules) == NearestTen(taxAndSurcharge + RateOf(taxAndSurcharge, rules.cess))

(* TaxCalculator: what is claimed under 80C and 80D counts up to the       *)
(* regime's limits.                                                        *)
Taxable(gross, claims, rules) ==
  NotBelow(gross, AtMost(gross, rules.standard) + AtMost(claims.sec80c, rules.sec80c)
                    + AtMost(claims.sec80d, rules.sec80d))

NoClaims == [sec80c |-> 0, sec80d |-> 0]

(* calculate_tax: the tax before cess and the whole, for either row.       *)
calculate_tax(gross, claims, rules) ==
  {[beforeCess |-> t, total |-> TotalTax(t, rules)] : t \in TaxAndSurcharge(Taxable(gross, claims, rules), rules)}

-----------------------------------------------------------------------------
(* PfCalculator, per month: the pension part comes out of the employer's   *)
(* twelve percent.                                                         *)
calculate_pf(wage, optIn) ==
  LET base == IF optIn THEN wage ELSE AtMost(wage, PF_RULES.ceiling)
      epsBase == AtMost(wage, PF_RULES.epsCeiling)
      share == RateOf(base, PF_RULES.employee)
      eps == RateOf(epsBase, PF_RULES.eps) IN
  [employee |-> share, eps |-> eps, employer |-> NotBelow(share, eps), edli |-> RateOf(epsBase, PF_RULES.edli)]

(* PtCalculator: a gross in no slab pays nothing.                          *)
PtSlabOf(monthly, slabs) == {s \in slabs : s.from <= monthly /\ monthly <= s.to}

calculate_pt(monthly, slabs) ==
  LET met == PtSlabOf(monthly, slabs) IN
  IF met = {} THEN [monthly |-> 0, annual |-> 0]
  ELSE LET s == CHOOSE s \in met : \A r \in met : s.from <= r.from IN
       [monthly |-> s.monthly, annual |-> 11 * s.monthly + s.february]

-----------------------------------------------------------------------------
(* SalaryNormalizer: the gross is the first given of annual, monthly and   *)
(* cost to company, else the components' sum; without components it is     *)
(* split 50, 20 and 30; a missing special allowance makes up for           *)
(* components that fall short, and more than the gross is left as it is.   *)
(* 0 stands for an amount not given.                                       *)
GrossGiven(inp) ==
  IF inp.annual > 0 THEN inp.annual ELSE IF inp.monthly > 0 THEN inp.monthly * 12 ELSE inp.ctc

normalize(inp) ==
  LET given == GrossGiven(inp)
      sum == inp.basic + inp.hra + inp.special
      gross == IF given > 0 THEN given ELSE sum
      split == sum = 0
      basic == IF split THEN RateOf(gross, 5000) ELSE inp.basic
      hra == IF split THEN RateOf(gross, 2000) ELSE inp.hra
      short == inp.special = 0 /\ sum + 100 < gross IN
  [gross |-> gross, basic |-> basic, hra |-> hra,
   special |-> IF split \/ short THEN gross - (basic + hra) ELSE inp.special,
   monthly |-> HalfUp(gross, 12), pfWage |-> HalfUp(basic, 12)]

(* calculate_salary, past the rules and invariants that end it with an     *)
(* error: the take-home for either surcharge row.                          *)
calculate_salary(inp, year, regime, state, optIn) ==
  LET salary == normalize(inp)
      pf == 12 * calculate_pf(salary.pfWage, optIn).employee
      pt == calculate_pt(salary.monthly, get_pt_rule_set(state)).annual IN
  {[gross |-> salary.gross, tax |-> t.total, pf |-> pf, pt |-> pt,
    takeHome |-> salary.gross - t.total - pf - pt - inp.otherDeductions] :
     t \in calculate_tax(salary.gross, NoClaims, get_tax_rule_set(year, regime))}

(* RegimeComparator and compare_regimes: the cheaper, NEW on a tie.        *)
RecommendedOldOnTie(oldTax, newTax) == IF oldTax <= newTax THEN "OLD" ELSE "NEW"
Recommended(oldTax, newTax) == IF oldTax < newTax THEN "OLD" ELSE "NEW"
=============================================================================
