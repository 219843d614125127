--------------------------- MODULE ImpactAnalysis ---------------------------
(***************************************************************************)
(* DeepRegulatoryChangeImpactAnalyzer.analyze_change as far as its callers *)
(* look at the report: the classification, whether a person has to verify  *)
(* the change first and whether a rule candidate is called for.            *)
(***************************************************************************)
ChangeTypes == {"RATE_CHANGE", "CEILING_CHANGE", "DOCUMENT_CHANGE", "CONFLICT"}
Domains == {"PT", "PF", "TAX", "OTHER"}

(* The evidence and jurisdiction the gate also asks for are constants of   *)
(* both callers and always present.                                        *)
RequiresVerification(type) == type = "CONFLICT"

(* Changes of wording touch no rule; the rest is classified by the domain  *)
(* the rule id, the text or the jurisdiction points at, professional tax   *)
(* first, and any other ceiling is taken for the provident fund's.  A      *)
(* change of slabs is critical, which counts as a calculation's impact.    *)
Classification(type, domain) ==
  IF RequiresVerification(type) THEN "REQUIRES_VERIFICATION"
  ELSE IF type = "DOCUMENT_CHANGE" THEN "NO_IMPACT"
  ELSE IF domain = "PT" THEN "CALCULATION_IMPACT"
  ELSE IF domain = "PF" \/ type = "CEILING_CHANGE" THEN "PAYROLL_IMPACT"
  ELSE IF domain = "TAX" THEN "CALCULATION_IMPACT"
  ELSE "COMPLIANCE_IMPACT"

RequiresCandidate(type, domain) ==
  Classification(type, domain) \in {"PAYROLL_IMPACT", "CALCULATION_IMPACT"}
=============================================================================
