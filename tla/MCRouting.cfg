SPECIFICATION Spec
CONSTANTS
  p1 = p1
  p2 = p2
  a = a
  e1 = e1
  e2 = e2
  Provider = {p1, p2}
  Plain = {a}
  Mapping <- MCMapping
  Editor = {e1, e2}
  NoEditor = NoEditor
  Nothing = Nothing
  MaxEdits = 5
  MaxModels = 2
SYMMETRY Interchangeable
INVARIANTS
  TypeOK
  AtMostOneDefault
  RoutesAsDocumented
PROPERTIES
  RoutesAreSticky
CHECK_DEADLOCK FALSE
