SPECIFICATION Spec
CONSTANTS
  s1 = s1
  s2 = s2
  s3 = s3
  s4 = s4
  t1 = t1
  t2 = t2
  Slot = {s1, s2, s3, s4}
  Text = {t1, t2}
  MaxEntries = 3
  Lifetime = 2
  Nothing = Nothing
SYMMETRY Interchangeable
INVARIANTS
  TypeOK
PROPERTIES
  EvictsLeastRecent
  ImplementsLossyCache
