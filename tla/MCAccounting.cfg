SPECIFICATION Spec
CONSTANTS
  e1 = e1
  e2 = e2
  r1 = r1
  r2 = r2
  Editor = {e1, e2}
  Request = {r1, r2}
  Edits <- MCEdits
  Listings <- MCListings
  Reported = 5
  Negligible = 1
  Absent = Absent
  Null = Null
  MaxEdits = 2
  MaxEvents = 1
SYMMETRY Interchangeable
INVARIANTS
  TypeOK
  RowsCarryThePrice
  OnePrice
CHECK_DEADLOCK FALSE
