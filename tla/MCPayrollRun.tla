---------------------------- MODULE MCPayrollRun ----------------------------
(* Symmetry for PayrollRun: jobs are told apart by the version they        *)
(* compute, employees by their gross, and neither by anything else.        *)
EXTENDS PayrollRun, TLC

Symmetry == Permutations(Jobs) \cup Permutations(Employees)
=============================================================================
