SPECIFICATION Spec
CONSTANTS
  Clients = {"anthropic"}
  Providers = {"anthropic"}
  ParamSets <- OnlyPlain
  PromptLimit = 4
  MaxRequests = 3
  MaxReroutes = 1
PROPERTY
  AnswersTheHistory
CHECK_DEADLOCK FALSE
