SPECIFICATION Spec
CONSTANTS
  Tokens <- HeaderTokens
  MaxTokens = 6
  ErrorLimit = 3
INVARIANT
  EveryFunctionHasBody
