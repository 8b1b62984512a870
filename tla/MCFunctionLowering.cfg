SPECIFICATION Spec
CONSTANTS
  MaxStatements = 4
  MaxOperands = 3
INVARIANTS TypeOK VerifyModule BuilderFollowsBody SameEvents EveryBlockExecuted
