SPECIFICATION FairSpec
CONSTANTS
  a1 = a1
  a2 = a2
  l1 = l1
  Admin = {a1}
  Poller = Poller
  Listeners = {l1}
  NoTask = NoTask
  Ops <- SeedOps
  MaxCommits = 2
  MaxFailures = 1
PROPERTIES
  FreshAgain
  PollingRepairs
CHECK_DEADLOCK FALSE
