------------------------------ MODULE Revisions ------------------------------
(***************************************************************************)
(* The five revisions of the schema, each as the list of its operations.   *)
(* A table is its name, the tables it refers to and the columns later      *)
(* revisions add; indexes go with their tables, and the batch that alters  *)
(* a table is one operation.                                               *)
(***************************************************************************)
EXTENDS Naturals, Sequences

Create(table, refs) == [do |-> "create", table |-> table, refs |-> refs, cols |-> {}]
Alter(table, cols, refs) == [do |-> "alter", table |-> table, refs |-> refs, cols |-> cols]

ACCOUNTS ==
  << Create("users", {}), Create("roles", {}), Create("permissions", {}),
     Create("user_roles", {"users", "roles"}), Create("role_permissions", {"roles", "permissions"}),
     Create("departments", {}), Create("job_roles", {}), Create("states", {}),
     Create("employees", {"users", "departments", "job_roles", "states"}), Create("taxpayer_profiles", {"employees"}) >>

SALARIES ==
  << Create("income_sources", {"employees"}), Create("salary_records", {"employees"}),
     Create("salary_components", {"salary_records"}), Create("calculation_runs", {"employees"}),
     Create("calculation_line_items", {"calculation_runs"}),
     Create("calculation_traces", {"calculation_runs", "calculation_line_items"}) >>

TAX_RULES ==
  << Create("tax_periods", {}), Create("tax_rule_versions", {"tax_periods"}) >>
    \o [i \in 1..7 |-> Create(<<"tax_slabs", "tax_rebates", "tax_exemptions", "tax_deductions", "tax_surcharges",
                             "tax_cess_rules", "tax_sources">>[i], {"tax_rule_versions"})]

PF_PT_RULES ==
  << Create("pf_rule_versions", {}), Create("pf_rules", {"pf_rule_versions"}), Create("pf_interest_rules", {"pf_rule_versions"}),
     Create("professional_tax_rule_versions", {"states"}),
     Create("professional_tax_slabs", {"professional_tax_rule_versions"}) >>

RECORDS ==
  << Create("calculation_snapshots", {"calculation_runs", "tax_rule_versions", "pf_rule_versions",
                                   "professional_tax_rule_versions"}),
     Create("payslip_documents", {"employees"}), Create("payslip_extractions", {"payslip_documents"}),
     Create("payslip_validations", {"payslip_documents"}),
     Create("knowledge_sources", {}), Create("knowledge_documents", {"knowledge_sources"}),
     Create("knowledge_chunks", {"knowledge_documents"}),
     Create("chat_sessions", {"users"}), Create("chat_messages", {"chat_sessions"}), Create("audit_logs", {"users"}) >>

ENTERPRISE ==
  << Create("organizations", {"states"}), Create("organization_memberships", {"users", "organizations", "roles"}),
     Alter("departments", {"organization_id", "parent_department_id", "department_head_id"},
           {"organizations", "departments"}),
     Alter("job_roles", {"organization_id", "grade", "level"}, {"organizations"}),
     Alter("employees", {"organization_id", "employment_status", "employment_type", "date_of_exit", "exit_reason",
                         "manager_id"}, {"organizations", "employees"}) >>

PAYROLL ==
  << Create("payroll_periods", {"organizations"}), Create("payroll_runs", {"users", "organizations", "payroll_periods"}),
     Create("payroll_run_items", {"payroll_runs", "employees", "calculation_runs", "calculation_snapshots"}) >>

DECLARATIONS ==
  << Create("tax_declarations", {"employees", "organizations", "users"}),
     Create("tax_declaration_items", {"tax_declarations"}), Create("statutory_compliance_events", {"organizations"}) >>

ALEMBIC_REVISIONS ==
  << ACCOUNTS \o SALARIES \o TAX_RULES \o PF_PT_RULES \o RECORDS, << Create("user_sessions", {"users"}) >>,
     ENTERPRISE, PAYROLL, DECLARATIONS >>
=============================================================================
