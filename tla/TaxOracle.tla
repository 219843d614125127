------------------------------ MODULE TaxOracle ------------------------------
(***************************************************************************)
(* IndependentRegulatoryOracle: the same liabilities by closed formulas,   *)
(* against which the validation script compares the engine.  Amounts are   *)
(* in paise; for salaries in whole rupees nothing it leaves unrounded is a *)
(* fraction of a paisa.                                                    *)
(***************************************************************************)
EXTENDS Naturals

Rs(n) == n * 100
Least(a, b) == IF a <= b THEN a ELSE b
Less(a, b) == IF a > b THEN a - b ELSE 0

(* A percentage of an amount, rounded half up.                             *)
Percent(amount, p) == (amount \div 100) * p + ((amount % 100) * p + 50) \div 100

(* The branches of a slab computation: above floor, the tax up to it and   *)
(* the percentage of what exceeds it.                                      *)
Bracket(floor, upTo, p) == [floor |-> Rs(floor), upTo |-> Rs(upTo), p |-> p]

BRACKETS_NEW ==
  {Bracket(400000, 0, 5), Bracket(800000, 20000, 10), Bracket(1200000, 60000, 15), Bracket(1600000, 120000, 20),
   Bracket(2000000, 200000, 25), Bracket(2400000, 300000, 30)}
BRACKETS_2425 ==
  {Bracket(300000, 0, 5), Bracket(700000, 20000, 10), Bracket(1000000, 50000, 15), Bracket(1200000, 80000, 20),
   Bracket(1500000, 140000, 30)}
BRACKETS_OLD == {Bracket(250000, 0, 5), Bracket(500000, 12500, 20), Bracket(1000000, 112500, 30)}

SlabTax(taxable, brackets) ==
  LET met == {b \in brackets : taxable > b.floor} IN
  IF met = {} THEN 0
  ELSE LET b == CHOOSE b \in met : \A o \in met : o.floor <= b.floor IN b.upTo + Percent(taxable - b.floor, b.p)

(* Full rebate up to the limit, marginal relief above it.                  *)
AfterRebate(taxable, slabTax, limit, maxRebate) ==
  IF taxable <= limit THEN Less(slabTax, Least(slabTax, maxRebate)) ELSE Least(slabTax, taxable - limit)

_compute_surcharge(taxable, tax) ==
  LET tier == CASE taxable > Rs(20000000) -> [limit |-> Rs(20000000), p |-> 25, before |-> 15]
                [] taxable > Rs(10000000) /\ taxable <= Rs(20000000) -> [limit |-> Rs(10000000), p |-> 15, before |-> 10]
                [] OTHER -> [limit |-> Rs(5000000), p |-> 10, before |-> 0]
      full == Percent(tax, tier.p)
      excess == taxable - tier.limit
      onLimit == Less(tax, Percent(excess, 30))
      allowed == onLimit + Percent(onLimit, tier.before) + excess IN
  IF tax = 0 \/ taxable <= Rs(5000000) THEN 0 ELSE Less(full, Less(tax + full, allowed))

Total(taxable, brackets, limit, maxRebate) ==
  LET tax == AfterRebate(taxable, SlabTax(taxable, brackets), limit, maxRebate)
      due == tax + _compute_surcharge(taxable, tax)
      unrounded == due + Percent(due, 4)
      remainder == unrounded % 1000 IN
  IF remainder >= 500 THEN unrounded + (1000 - remainder) ELSE unrounded - remainder

calculate_fy2025_26_new(gross) == Total(Less(gross, Rs(75000)), BRACKETS_NEW, Rs(1200000), gross)
calculate_fy2024_25_new(gross) == Total(Less(gross, Rs(75000)), BRACKETS_2425, Rs(700000), gross)
calculate_fy2025_26_old(gross, sec80c, sec80d) ==
  Total(Less(gross, Least(gross, Rs(50000)) + Least(sec80c, Rs(150000)) + Least(sec80d, Rs(25000))),
        BRACKETS_OLD, Rs(500000), Rs(12500))

(* Employee's provident fund of a year: 12 % of half the gross, capped.    *)
annual_emp_pf(gross) == Least(Percent(gross, 6), Rs(21600))

(* Professional tax of a year; the monthly gross is not rounded.           *)
calculate_annual_pt(state, gross) ==
  LET over(month) == gross > 12 * Rs(month) IN
  CASE state = "KA" -> IF gross >= 12 * Rs(15000) THEN Rs(2400) ELSE 0
    [] state = "MH" -> IF over(10000) THEN Rs(2500) ELSE IF over(7500) THEN Rs(2100) ELSE 0
    [] state = "TS" -> IF over(20000) THEN Rs(2400) ELSE IF over(15000) THEN Rs(1800) ELSE 0
    [] state = "WB" -> IF over(40000) THEN Rs(2400) ELSE IF over(25000) THEN Rs(1800)
                       ELSE IF over(15000) THEN Rs(1560) ELSE IF over(10000) THEN Rs(1320) ELSE 0
    [] state = "GJ" -> IF over(12000) THEN Rs(2400) ELSE IF over(9000) THEN Rs(1800)
                       ELSE IF over(6000) THEN Rs(960) ELSE 0
    [] state = "TN" -> IF gross >= Rs(600000) THEN Rs(2500) ELSE Rs(1250)
    [] OTHER -> 0
=============================================================================
