SPECIFICATION FairSpec
CONSTANTS
  ConnectTimeout = 2
  HeaderTimeout = 4
  BodyTimeout = 4
  TotalTimeout = 7
  MaxBodyBytes = 2
  Lag = 1
CHECK_DEADLOCK FALSE
INVARIANTS PromptAnswerAccepted ExchangeBounded OutcomeExplained
PROPERTIES ImplementsExchange
