SPECIFICATION DispatchSpec
CONSTANTS
  r1 = r1
  r2 = r2
  p1 = p1
  p2 = p2
  Request = {r1, r2}
  Prompt = {p1, p2}
  NoPrompt = NoPrompt
  Nothing = Nothing
  Asks <- MCAsks
  Slot <- MCSlot
  Text <- MCText
  MaxEntries = 1
  Lifetime = 1
  Connections = 1
  MaxChunks = 1
  MaxCrashes = 1
INVARIANT RefusalsAreHandled
CHECK_DEADLOCK FALSE
