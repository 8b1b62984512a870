SPECIFICATION Spec
CONSTANTS
  MaxStatements = 4
  MaxArguments = 2
  SignatureTypes <- MCSignatureTypes
  Values <- MCValues
INVARIANTS TypeOK OneErrorPerStatement WrongIsReported ReturnTypesOfOpenBodies AccessInOwnMethods ArgumentsFillParameters
