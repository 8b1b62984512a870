SPECIFICATION Spec
CONSTANTS
  NoClass = NoClass
  Classes = {A, B, C}
  Names = {m, n}
  Signatures = {int, bool}
  MaxClasses = 3
  MaxMembers = 3
SYMMETRY AnyNames
INVARIANTS
  TypeOK
  BasesFirst
  CycleReportsAgree
  AssignableIsEmbedded
  SlotsStable
  NearestOverride
  LookupAgreesWithSlots
PROPERTIES
  CallsDispatch
