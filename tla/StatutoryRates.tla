--------------------------- MODULE StatutoryRates ---------------------------
(***************************************************************************)
(* The rates the database is seeded with and what a calculation finds of   *)
(* them.  An amount is in paise and a rate in hundredths of a percent.     *)
(* Amounts stay below 2.14 crore rupees, TLC's largest integer in paise,   *)
(* so the old regime's surcharge above five crore is not reached: its row  *)
(* is left out and the row before it has no upper limit.                   *)
(***************************************************************************)
EXTENDS Naturals

Unlimited == 2147483647
Rupees(n) == n * 100
Lakh(n) == n * 10000000

-----------------------------------------------------------------------------
Years == {"2024-25", "2025-26", "2026-27"}
Regimes == {"OLD", "NEW"}

Slab(from, to, rate) == [from |-> from, to |-> to, rate |-> rate]

NEW_SLABS ==
  << Slab(0, Lakh(4), 0), Slab(Lakh(4), Lakh(8), 500), Slab(Lakh(8), Lakh(12), 1000), Slab(Lakh(12), Lakh(16), 1500),
     Slab(Lakh(16), Lakh(20), 2000), Slab(Lakh(20), Lakh(24), 2500), Slab(Lakh(24), Unlimited, 3000) >>

NEW_SLABS_2425 ==
  << Slab(0, Lakh(3), 0), Slab(Lakh(3), Lakh(7), 500), Slab(Lakh(7), Lakh(10), 1000), Slab(Lakh(10), Lakh(12), 1500),
     Slab(Lakh(12), Lakh(15), 2000), Slab(Lakh(15), Unlimited, 3000) >>

OLD_SLABS ==
  << Slab(0, Rupees(250000), 0), Slab(Rupees(250000), Lakh(5), 500), Slab(Lakh(5), Lakh(10), 2000),
     Slab(Lakh(10), Unlimited, 3000) >>

(* Either regime's, the limits of which two rows share.                    *)
SURCHARGES == {Slab(Lakh(50), Lakh(100), 1000), Slab(Lakh(100), Lakh(200), 1500), Slab(Lakh(200), Unlimited, 2500)}

TaxRules(slabs, rebateLimit, maxRebate, standard, sec80c, sec80d) ==
  [slabs |-> slabs, rebateLimit |-> rebateLimit, maxRebate |-> maxRebate, standard |-> standard,
   sec80c |-> sec80c, sec80d |-> sec80d, surcharges |-> SURCHARGES, cess |-> 400]

NEW_RULES == TaxRules(NEW_SLABS, Lakh(12), Rupees(60000), Rupees(75000), 0, 0)
NEW_RULES_2425 == TaxRules(NEW_SLABS_2425, Lakh(7), Rupees(25000), Rupees(75000), 0, 0)
OLD_RULES == TaxRules(OLD_SLABS, Lakh(5), Rupees(12500), Rupees(50000), Rupees(150000), Rupees(25000))

(* TaxRuleRepository: one ACTIVE version per year and regime; marginal     *)
(* relief is taken to apply to every rebate.                               *)
get_tax_rule_set(year, regime) ==
  CASE regime = "OLD"                      -> OLD_RULES
    [] regime = "NEW" /\ year = "2024-25"  -> NEW_RULES_2425
    [] OTHER                               -> NEW_RULES

-----------------------------------------------------------------------------
(* The same provident fund rates for every year, so the fallback to any    *)
(* ACTIVE version finds the same.                                          *)
PF_RULES == [employee |-> 1200, eps |-> 833, edli |-> 50, ceiling |-> Rupees(15000), epsCeiling |-> Rupees(15000)]

-----------------------------------------------------------------------------
(* Professional tax of a month, and of February, by the month's gross.     *)
PtSlab(from, to, monthly, february) == [from |-> from, to |-> to, monthly |-> monthly, february |-> february]

PT_KA == {PtSlab(0, 1499999, 0, 0), PtSlab(Rupees(15000), Unlimited, 20000, 20000)}
PT_MH == {PtSlab(0, Rupees(7500), 0, 0), PtSlab(Rupees(7501), Rupees(10000), 17500, 17500),
          PtSlab(Rupees(10001), Unlimited, 20000, 30000)}
PT_TS == {PtSlab(0, Rupees(15000), 0, 0), PtSlab(Rupees(15001), Rupees(20000), 15000, 15000),
          PtSlab(Rupees(20001), Unlimited, 20000, 20000)}
PT_WB == {PtSlab(0, Rupees(10000), 0, 0), PtSlab(Rupees(10001), Rupees(15000), 11000, 11000),
          PtSlab(Rupees(15001), Rupees(25000), 13000, 13000), PtSlab(Rupees(25001), Rupees(40000), 15000, 15000),
          PtSlab(Rupees(40001), Unlimited, 20000, 20000)}
PT_GJ == {PtSlab(0, Rupees(12000), 0, 0), PtSlab(Rupees(12001), Unlimited, 20000, 20000)}
PT_TN == {PtSlab(0, Rupees(21000), 0, 0), PtSlab(Rupees(21001), Rupees(50000), 10417, 10413),
          PtSlab(Rupees(50001), Unlimited, 20833, 20837)}

SEEDED_STATES ==
  {"AP", "AR", "AS", "BR", "CG", "GA", "GJ", "HR", "HP", "JH", "KA", "KL", "MP", "MH", "MN", "ML", "MZ", "NL", "OD",
   "PB", "RJ", "SK", "TN", "TS", "TR", "UP", "UK", "WB", "AN", "CH", "DH", "DL", "JK", "LA", "LD", "PY"}

(* PtRuleRepository: Delhi is exempt, and a state without slabs ends the   *)
(* calculation with an error, no slabs here.                               *)
get_pt_rule_set(state) ==
  CASE state \notin SEEDED_STATES -> {}
    [] state = "DL" -> {PtSlab(0, Unlimited, 0, 0)}
    [] state = "KA" -> PT_KA
    [] state = "MH" -> PT_MH
    [] state = "TS" -> PT_TS
    [] state = "WB" -> PT_WB
    [] state = "GJ" -> PT_GJ
    [] state = "TN" -> PT_TN
    [] OTHER -> {}
=============================================================================
