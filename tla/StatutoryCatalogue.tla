------------------------- MODULE StatutoryCatalogue -------------------------
(***************************************************************************)
(* The tables the compliance package ships in code: official sources, the  *)
(* assertions taken from them, the documents citations resolve to, the     *)
(* rules the registry starts with and the states.  A table is the set of   *)
(* its rows; titles, addresses and texts are left out.  A date is its year *)
(* and month, 202604 for April 2026; Open lies beyond every date.          *)
(***************************************************************************)
EXTENDS Naturals

Open == 999912

-----------------------------------------------------------------------------
(* OfficialSourceRegistry.  Tiers 1 to 3 are acts, rules and circulars;    *)
(* every source shipped is REAL_VERIFIED_SOURCE and none is superseded.    *)
Source(id, tier, jurisdiction) ==
  [id |-> id, tier |-> tier, jurisdiction |-> jurisdiction, status |-> "REAL_VERIFIED_SOURCE", superseded |-> FALSE]

SOURCES ==
  {Source("SR-FED-TAX-ACT-2025", 1, "INDIA"), Source("SR-FED-TAX-ACT-1961", 1, "INDIA"),
   Source("SR-EPFO-SCHEME-2026", 2, "INDIA"), Source("SR-ESIC-RULES-2026", 2, "INDIA"),
   Source("SR-STATE-KA-PT-2025", 1, "KA"), Source("SR-STATE-MH-PT-2023", 1, "MH")}

can_authorize_production(s) == s.tier <= 3 /\ s.status = "REAL_VERIFIED_SOURCE" /\ ~s.superseded

-----------------------------------------------------------------------------
(* EvidenceAssertionLedger: which rule a claim supports, and what it was   *)
(* taken from.  Every assertion shipped is VERIFIED_PRIMARY.               *)
Assertion(id, rule, source, document, jurisdiction) ==
  [id |-> id, rule |-> rule, source |-> source, document |-> document,
   jurisdiction |-> jurisdiction, classification |-> "VERIFIED_PRIMARY"]

ASSERTIONS ==
  {Assertion("EA-TAX-2026-001", "TAX-2026-27-NEW-DEFAULT", "SR-FED-TAX-ACT-2025", "income-tax-act-2025", "INDIA"),
   Assertion("EA-TAX-2025-001", "TAX-2025-26-NEW", "SR-FED-TAX-ACT-1961", "finance_act_2024_tax_slabs", "INDIA"),
   Assertion("EA-PF-2026-001", "PF-2026-27-STATUTORY", "SR-EPFO-SCHEME-2026", "epf_eps_edli_framework", "INDIA"),
   Assertion("EA-PT-KA-2025-001", "PT-2026-27-KA-SALARIED", "SR-STATE-KA-PT-2025", "professional_tax_states", "KA"),
   Assertion("EA-PT-MH-2023-001", "PT-2026-27-MH-SALARIED", "SR-STATE-MH-PT-2023", "maharashtra_pt_schedule_2023", "MH"),
   Assertion("EA-GRATUITY-FTE-001", "none", "SR-FED-LAB-SOCSEC-2020", "bonus_gratuity_retirement_framework", "INDIA"),
   Assertion("EA-TAX-OLD-001", "TAX-OLD-REGIME-STANDARD", "SR-FED-TAX-ACT-1961", "finance_act_old_regime_framework", "INDIA")}

is_production_eligible(a) == a.classification \in {"VERIFIED_PRIMARY", "VERIFIED_OFFICIAL_GUIDANCE"}

AssertionsForRule(rule) == {a \in ASSERTIONS : a.rule = rule}

-----------------------------------------------------------------------------
(* EvidenceRegistry: the documents a rule's citation can resolve to.       *)
DOCUMENTS ==
  {"income-tax-act-2025", "income_tax_rules_2026", "code_on_wages_2019", "epf_eps_edli_framework",
   "esi_esic_framework", "professional_tax_states", "maharashtra_pt_schedule_2023",
   "bonus_gratuity_retirement_framework"}

(* resolve_citation_for_rule answers None when the rule's document is not  *)
(* registered.                                                             *)
CitationResolves(rule) == rule.document \in DOCUMENTS

-----------------------------------------------------------------------------
(* ComplianceRuleRegistry: the rules it starts with.  supersedes and       *)
(* supersededBy are the lineage pointers.                                  *)
Seeded(id, domain, jurisdiction, status, from, to, document) ==
  [id |-> id, domain |-> domain, jurisdiction |-> jurisdiction, version |-> "1.0", status |-> status,
   from |-> from, to |-> to, document |-> document, supersedes |-> "none", supersededBy |-> "none"]

REGISTRY ==
  {Seeded("TAX-2026-27-NEW-DEFAULT", "TAX", "INDIA", "ACTIVE", 202604, 202703, "income-tax-act-2025"),
   Seeded("TAX-2025-26-NEW", "TAX", "INDIA", "ACTIVE", 202404, 202603, "finance_act_2024_tax_slabs"),
   Seeded("TAX-OLD-REGIME-STANDARD", "TAX", "INDIA", "ACTIVE", 202004, Open, "finance_act_old_regime_framework"),
   Seeded("PF-2026-27-STATUTORY", "PF", "INDIA", "ACTIVE", 202604, 202703, "epf_eps_edli_framework"),
   Seeded("PT-2026-27-KA-SALARIED", "PT", "KA", "ACTIVE", 202604, 202703, "professional_tax_states"),
   Seeded("PT-2026-27-MH-SALARIED", "PT", "MH", "ACTIVE", 202604, 202703, "professional_tax_states"),
   Seeded("TAX-FUTURE-PROPOSAL-DRAFT", "TAX", "INDIA", "PROPOSED", 202804, Open, "draft_policy_whitepaper")}

SeedIds == {r.id : r \in REGISTRY}

-----------------------------------------------------------------------------
(* StateJurisdictionMaster: the states and union territories with and      *)
(* without professional tax.                                               *)
PT_STATES ==
  {"KA", "MH", "TS", "TN", "WB", "GJ", "AP", "KL", "MP", "OR", "AS", "BR", "CG", "JH", "ME", "MN", "MZ",
   "NL", "SK", "TR", "PY"}

NO_PT_STATES ==
  {"DL", "HR", "PB", "RJ", "UP", "UK", "HP", "GA", "AR", "CH", "JK", "LA", "AN", "DN", "LD"}

is_pt_applicable(code) == code \in PT_STATES
=============================================================================
