SPECIFICATION Spec
CONSTANTS
  u1 = u1
  u2 = u2
  i1 = i1
  v1 = v1
  v2 = v2
  b1 = b1
  Upload = {u1, u2}
  Invocation = {i1}
  Good = {v1, v2}
  Bad = {b1}
  NoVersion = NoVersion
  MaxUploads = 4
  MaxCrashes = 1
SYMMETRY Interchangeable
INVARIANTS
  TypeOK
  RunsWhatIsStored
CHECK_DEADLOCK FALSE
