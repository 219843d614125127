SPECIFICATION ServicesSpec
CONSTANTS
  Parts = {"salary"}
  LastDay = 4
  MaxRecords = 3
  Requests = {r1}
  NoRecord = NoRecord
  Items <- MCItems
  Misprints <- MCMisprints
  Calls = {1, 2, 3, 4}
  Employees = {e1, e2}
  Others = {guest}
  DeclRequests = {1, 2, 3, 4}
  Owner = owner
  Reviewers = {hr}
  Sections = {s80C}
  Amounts = {0, 1}
  PortalAmount = 3
  Nobody = Nobody
  NoOne = NoOne
  NoRun = NoRun
  Changed = {"PT-2026-27-KA-SALARIED"}
  NewIds = {"PT-KA-V2"}
  Versions = {"2.0"}
  Officers = {o1, o2, o3}
  Months = {202608, 202704}
  Dates = {202607, 202704}
  MaxEvents = 2
  Staff = {o1, o2, o3}
  Hashes = {h1, h2}
  NoOfficer = NoOfficer
  Checks = {1, 2, 3}
  MaxRequests = 1
  Window = 3
  Second = 2
  LastTick = 4
  Upgrade <- ALEMBIC_REVISIONS
  Targets = {0, 5}
  Salaries <- MCSalaries
  Raises <- MCRaises
  States = {"KA", "MH", "TS", "WB"}
  Claims <- MCClaims
INVARIANT ScheduleHolds
CHECK_DEADLOCK FALSE
