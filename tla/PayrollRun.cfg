SPECIFICATION Spec
CONSTANTS
  Employees = {e1, e2}
  Versions = {v1}
  Jobs = {k1, k2, k3}
  Grosses = {0, 1, 2}
  NoRun = NoRun
SYMMETRY Symmetry
INVARIANTS
  CalculatedRunWhole
  PaidOnce
PROPERTY LockedRunFinal
CHECK_DEADLOCK FALSE
