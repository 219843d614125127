SPECIFICATION Spec
CONSTANTS
  LastDay = 3
  MaxRecords = 3
  Requests = {r1, r2}
  NoRecord = NoRecord
INVARIANT NoDayInTwo
