SPECIFICATION FairSpec
CONSTANTS
  Tokens <- SmallTokens
  MaxTokens = 10
  ErrorLimit = 3
INVARIANTS
  TypeOK
  PendingIsOnStack
  AcceptedReportsAll
  CanRecover
PROPERTIES
  BlocksEndAtBraces
  ParserEnds
