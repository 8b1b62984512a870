\* Nested functions, ifs with their else tails, classes and their bases; calls and
\* accesses to members.
SPECIFICATION FairSpec
CONSTANTS
  f = f
  x = x
  A = A
  B = B
  Names = {f, x}
  Classes = {A, B}
  NoClass = NoClass
  UseForms <- ClassUses
  VarNames = {x}
  VarTypes <- ObjectsOfA
  ScopeOwners = {"function", "class", "then", "else"}
  MaxScopes = 4
  MaxStatements = 4
  MaxUses = 1
INVARIANTS
  TypeOK
  ScopesAgree
  ProjectionNeverFails
  ResolutionIsLexical
  OnlyLaterFunctionsShadowed
PROPERTIES
  FirstDeclarationStays
  ResolverEnds
