-------------------------------- MODULE Lexer --------------------------------
(***************************************************************************)
(* The scanner of Lexer.l: one action per rule.  The source is chosen as   *)
(* it is scanned.  A text is known by its length, the newlines in it and   *)
(* the characters after the last of them (all of them, when there is none).*)
(***************************************************************************)
EXTENDS FrontendErrors, Integers

CONSTANTS
  MaxLexemes,    \* bound: texts the rules match
  Blanks,        \* texts of white space
  MaxLength,     \* bound: length of other texts
  MaxIdentifier, \* the length of the longest identifier, 128 in the code
  Literals,      \* values of integer literals
  IntSize,       \* how many values an int has, 2^32 in the code
  LongMax        \* LONG_MAX, 2^63 - 1 in the code

Text == [length : Nat \ {0}, newlines : Nat, rest : Nat]
IsText(t) == t \in Text /\ (t.newlines = 0 => t.rest = t.length)

ASSUME LexerAssumption ==
  /\ MaxLexemes \in Nat /\ MaxLength \in Nat /\ MaxIdentifier \in Nat
  /\ \A t \in Blanks : IsText(t)
  /\ Literals \subseteq Nat
  /\ IntSize \in Nat \ {0, 1} /\ LongMax \in Nat

VARIABLES
  position,      \* g_offset, g_line and g_column
  condition,     \* the start condition: "INITIAL" or "RECOVER"
  tokens,        \* the tokens with their debug infos
  at,            \* history: where the scanner stands in the source
  skipped,       \* history: characters and lines RECOVER left out of position
  lexemes,       \* texts matched so far
  previous       \* what the last text was: texts of two words do not touch

lexerVars == <<position, condition, tokens, at, skipped, lexemes, previous>>

Start == [offset |-> 0, line |-> 1, column |-> 1]
Word(length) == [length |-> length, newlines |-> 0, rest |-> length]
Words == {Word(n) : n \in 1..MaxLength}

InitLexer ==
  /\ position = Start /\ condition = "INITIAL" /\ tokens = <<>>
  /\ at = Start /\ skipped = [length |-> 0, newlines |-> 0]
  /\ lexemes = 0 /\ previous = "none"

-----------------------------------------------------------------------------
AdvancePosition(p, text) ==
  [offset |-> p.offset + text.length,
   line |-> p.line + text.newlines,
   column |-> IF text.newlines = 0 THEN p.column + text.length ELSE 1 + text.rest]

\* strtol's value in an int.
Truncated(value) ==
  LET rest == value % IntSize
  IN  IF rest < IntSize \div 2 THEN rest ELSE rest - IntSize

\* Faulty: ERANGE is not looked at.
FaultyTryParseIntegerLiteral(value) == TRUE
TryParseIntegerLiteral(value) == value <= LongMax

\* A rule matches a text: the position moves over it.
Match(kind, text) ==
  /\ lexemes < MaxLexemes
  /\ lexemes' = lexemes + 1
  /\ previous' = kind
  /\ at' = AdvancePosition(at, text)
AdvanceOver(text) == position' = AdvancePosition(position, text) /\ UNCHANGED skipped

\* from and literal are history: where the token is, and the number it is written as.
Token(text, value, literal) ==
  [begin |-> position, end |-> AdvancePosition(position, text), value |-> value,
   from |-> at, behind |-> skipped, literal |-> literal]
PushToken(text, value, literal) ==
  /\ tokens' = Append(tokens, Token(text, value, literal))
  /\ UNCHANGED <<condition, errorVars>>

\* AddLexError, and BEGIN(RECOVER) unless it throws; Tokenize then destroys the
\* scanner and the tokens.
RejectToken ==
  /\ AddError("tokenize")
  /\ condition' = IF thrown' = NoException THEN "RECOVER" ELSE "INITIAL"
  /\ tokens' = IF thrown' = NoException THEN tokens ELSE <<>>

-----------------------------------------------------------------------------
(* INITIAL *)

Initial(kind, text) == condition = "INITIAL" /\ Match(kind, text) /\ AdvanceOver(text)

\* Faulty: white space does not move the position here either.
FaultySkipWhitespace ==
  /\ previous # "space" /\ condition = "INITIAL"
  /\ \E text \in Blanks : Match("space", text)
  /\ UNCHANGED <<position, skipped, condition, tokens, errorVars>>
SkipWhitespace ==
  /\ previous # "space"
  /\ \E text \in Blanks : Initial("space", text)
  /\ UNCHANGED <<condition, tokens, errorVars>>

\* Operators and punctuation, of a character or two.
ScanOperator ==
  \E text \in {Word(1), Word(2)} : Initial("operator", text) /\ PushToken(text, 0, 0)

\* Keywords are identifiers here: both make a token, and none is too long.
ScanIdentifier ==
  /\ previous # "word"
  /\ \E text \in Words :
       /\ Initial("word", text)
       /\ IF text.length > MaxIdentifier THEN RejectToken ELSE PushToken(text, 0, 0)

ScanNumber ==
  /\ previous \notin {"word", "number"}
  /\ \E value \in Literals :
       /\ Initial("number", Word(1))
       /\ IF TryParseIntegerLiteral(value)
            THEN PushToken(Word(1), Truncated(value), value)
            ELSE RejectToken

ScanUnknown == Initial("unknown", Word(1)) /\ RejectToken

-----------------------------------------------------------------------------
(* RECOVER *)

\* White space ends the recovery, but does not move the position.
EndRecovery ==
  /\ condition = "RECOVER"
  /\ \E text \in Blanks :
       /\ Match("space", text)
       /\ skipped' = [length |-> skipped.length + text.length,
                      newlines |-> skipped.newlines + text.newlines]
  /\ condition' = "INITIAL"
  /\ UNCHANGED <<position, tokens, errorVars>>

SkipInRecovery ==
  /\ condition = "RECOVER"
  /\ Match("skipped", Word(1)) /\ AdvanceOver(Word(1))
  /\ UNCHANGED <<condition, tokens, errorVars>>

Scan ==
  \/ SkipWhitespace \/ ScanOperator \/ ScanIdentifier \/ ScanNumber \/ ScanUnknown
  \/ EndRecovery \/ SkipInRecovery
=============================================================================
