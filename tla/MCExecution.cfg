\* Programs of main, a function and variables of one name, in nested blocks.
SPECIFICATION ExecutionSpec
CONSTANTS
  main = main
  f = f
  x = x
  A = A
  MainName = main
  FunctionNames = {main, f}
  Names = {main, f, x}
  Classes = {A}
  NoClass = NoClass
  UseForms <- MCUses
  VarNames = {x}
  VarTypes <- OnlyInt
  ScopeOwners = {"function", "class", "block", "then", "else"}
  MaxScopes = 4
  MaxStatements = 4
  MaxUses = 3
  MaxCalls = 4
INVARIANTS EveryUseHasStorage ReadsAreInitialized OutputsAgree NamesAreKnown
