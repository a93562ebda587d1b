SPECIFICATION Spec
CONSTANTS
  r1 = r1
  r2 = r2
  k1 = k1
  k2 = k2
  k3 = k3
  Request = {r1, r2}
  Key = {k1, k2, k3}
  NoKey = NoKey
  Pools <- MCPools
  MaxPool = 3
  Cooldown = 2
  Answers <- MCAnswers
SYMMETRY Interchangeable
INVARIANTS
  TypeOK
  AttemptsBounded
  NoRepeatWhenLimited
  Balanced
PROPERTIES
  LimitedMeansAllTried
  CallsUseReadyKeys
CHECK_DEADLOCK FALSE
