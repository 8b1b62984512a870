\* Whether a lookup of a member meets a cycle of base classes.
SPECIFICATION Spec
CONSTANTS
  f = f
  x = x
  A = A
  B = B
  Names = {f, x}
  Classes = {A, B}
  NoClass = NoClass
  UseForms <- ClassUses
  VarNames = {x}
  VarTypes <- ObjectsOfA
  ScopeOwners = {"function", "class"}
  MaxScopes = 3
  MaxStatements = 3
  MaxUses = 1
INVARIANTS
  NoCycleReachesLookup
