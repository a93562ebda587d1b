SPECIFICATION Spec
CONSTANTS
  Clients = {"openai", "anthropic", "gemini"}
  Providers = {"openai", "anthropic", "google", "cohere", "ollama"}
  ParamSets <- MCParamSets
  PromptLimit = 4
  MaxRequests = 3
  MaxReroutes = 1
INVARIANTS
  TypeOK
  RequestArrives
  ResultsNameCalls
  CallsAnsweredAtOnce
  AnswersArrive
PROPERTIES
  AnswersOwnHistory
CHECK_DEADLOCK FALSE
