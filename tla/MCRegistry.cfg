SPECIFICATION Spec
CONSTANTS
  a1 = a1
  a2 = a2
  l1 = l1
  Admin = {a1, a2}
  Poller = Poller
  Listeners = {}
  NoTask = NoTask
  Ops <- MCOps
  MaxCommits = 3
  MaxFailures = 1
SYMMETRY Interchangeable
INVARIANTS
  TypeOK
  StaleOnlyWhilePending
PROPERTIES
  ReadYourWrite
  ImplementsReadThrough
CHECK_DEADLOCK FALSE
