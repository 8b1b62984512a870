SPECIFICATION Spec
CONSTANTS
  NoClass = NoClass
  Classes = {A, B}
  Names = {m, n}
  Signatures = {int, bool}
  MaxClasses = 2
  MaxMembers = 2
SYMMETRY AnyNames
INVARIANT
  OverridesKeepType
