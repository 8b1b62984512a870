\* Sources of five texts; the third error is the last.
SPECIFICATION Spec
CONSTANTS
  Limit = 3
  MaxLexemes = 5
  Blanks <- MCBlanks
  MaxLength = 3
  MaxIdentifier = 2
  Literals <- MCLiterals
  IntSize = 4
  LongMax = 7
  EmitModes = {"executable", "llvm", "object"}
INVARIANTS PositionsBehind LiteralsKept ErrorsReachUser OutputMeansSuccess
