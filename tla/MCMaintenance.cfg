SPECIFICATION Spec
CONSTANTS
  c1 = c1
  c2 = c2
  d1 = d1
  e1 = e1
  m1 = m1
  m2 = m2
  handPrice = handPrice
  otherPrice = otherPrice
  Cleaner = {c1, c2}
  Importer = {d1}
  Editor = {e1}
  Model = {m1, m2}
  Manual = {handPrice, otherPrice}
  NoJob = NoJob
  Nothing = Nothing
  Threshold = 2
  FirstRows <- MCFirstRows
  MaxStarts = 2
  MaxInserts = 1
SYMMETRY Interchangeable
INVARIANT TypeOK
PROPERTIES
  DeactivationEarned
  NeverReactivated
  ManualRespected
CHECK_DEADLOCK FALSE
