----------------------------- MODULE DriverProofs -----------------------------
(***************************************************************************)
(* The scanner keeps its promises on positions and literals, and main      *)
(* those on errors and files, for every limit, every text of white space,  *)
(* every width of int and long and every way the passes and the output may *)
(* go.  IInv is their common inductive invariant: the scanner's part, that *)
(* of the errors, of the stages of main and of the files.                  *)
(***************************************************************************)
EXTENDS Driver, TLAPS

Position == [offset : Nat, line : Nat, column : Nat]
Distance == [length : Nat, newlines : Nat]
TokenSet ==
  [begin : Position, end : Position, value : Int, from : Position, behind : Distance, literal : Nat]

\* The conjuncts of PositionsBehind and LiteralsKept on one token.
IsPlaced(t) ==
  /\ t.begin.offset + t.behind.length = t.from.offset
  /\ t.begin.line + t.behind.newlines = t.from.line
  /\ t.behind.length = 0 => t.begin = t.from
  /\ t.begin.offset < t.end.offset
IsKept(t) == t.literal <= LongMax /\ (t.value # t.literal <=> IntSize \div 2 <= t.literal)

\* The scanner is behind by what it skipped, and no token ends after it.
ScannerInv ==
  /\ position \in Position /\ at \in Position /\ skipped \in Distance
  /\ position.offset + skipped.length = at.offset
  /\ position.line + skipped.newlines = at.line
  /\ skipped.length = 0 => position = at
TokensInv ==
  /\ tokens \in Seq(TokenSet)
  /\ \A i \in DOMAIN tokens :
       IsPlaced(tokens[i]) /\ IsKept(tokens[i]) /\ tokens[i].end.offset <= position.offset
  /\ \A i, j \in DOMAIN tokens : i < j => tokens[i].end.offset <= tokens[j].begin.offset
LexerInv == ScannerInv /\ TokensInv

\* An exception made of errors is made of all of them; while there is none, the limit is not
\* reached.
ErrorsInv ==
  /\ errors \in Seq(Passes) /\ Len(errors) <= Limit
  /\ thrown \in {NoException, Internal, GetErrors(errors)}
  /\ thrown = NoException => Len(errors) < Limit

\* Exceptions lead to the handler; it ends with 1 as LLVM does in the output, and only a
\* program without errors is lowered.
StageInv ==
  /\ exit \in {"running", "0", "1", "aborted"}
  /\ stage # "catch" => thrown = NoException
  /\ stage = "tokenize" => exit = "running"
  /\ exit = "0" => stage = "output"
  /\ exit = "1" => stage \in {"catch", "output"}
  /\ stage \in {"lower", "output"} => errors = <<>>
  /\ printed = IF exit = "1" /\ stage = "catch" THEN Messages ELSE <<>>

\* Files are of programs without errors; the steps belong to modes, and what is left of the
\* files to how the process ended.
FilesInv ==
  /\ mode \in AllEmitModes
  /\ output # "untouched" \/ temporary # "absent" =>
       errors = <<>> /\ stage \in {"output", "catch"}
  /\ temporary # "absent" => mode = "executable"
  /\ temporary \notin {"absent", "left"} => stage # "catch" /\ exit # "0"
  /\ step \in {"open text", "write text"} => mode = "llvm"
  /\ step \in {"create temporary", "link"} => mode = "executable"
  /\ mode = "executable" /\ exit = "running" => output = "untouched"
  /\ exit = "0" =>
       \/ output = "written"
       \/ mode = "executable" /\ ~linker /\ output = "untouched"
       \/ mode = "llvm" /\ output = "opened"

IInv == LexerInv /\ ErrorsInv /\ StageInv /\ FilesInv

-----------------------------------------------------------------------------
(* The scanner *)

LEMMA Advanced ==
  ASSUME NEW p \in Position, NEW text \in Text
  PROVE  /\ AdvancePosition(p, text) \in Position
         /\ AdvancePosition(p, text).offset = p.offset + text.length
         /\ AdvancePosition(p, text).line = p.line + text.newlines
  BY DEF AdvancePosition, Position, Text

LEMMA WordsAreTexts ==
  ASSUME NEW n \in Nat \ {0}
  PROVE  Word(n) \in Text
  BY DEF Word, Text

LEMMA BlanksAreTexts == Blanks \subseteq Text
  BY LexerAssumption DEF IsText

\* A literal keeps its value in an int if it is one of the lower half.
LEMMA TruncatedValue ==
  ASSUME NEW value \in Nat
  PROVE  /\ Truncated(value) \in Int
         /\ Truncated(value) # value <=> IntSize \div 2 <= value
<1> DEFINE rest == value % IntSize
<1>1. IntSize \in Nat /\ IntSize > 1
  BY LexerAssumption
<1>2. rest \in 0..(IntSize - 1)
  BY <1>1
<1>3. value < IntSize => rest = value
  BY <1>1
<1>4. IntSize \div 2 \in Nat /\ IntSize \div 2 < IntSize
  BY <1>1
<1> HIDE DEF rest
<1>5. Truncated(value) = IF rest < IntSize \div 2 THEN rest ELSE rest - IntSize
  BY DEF Truncated, rest
<1>6. QED BY <1>1, <1>2, <1>3, <1>4, <1>5

\* A rule of INITIAL moves both positions over its text.
LEMMA MovesTogether ==
  ASSUME ScannerInv, NEW text \in Text, AdvanceOver(text), at' = AdvancePosition(at, text)
  PROVE  ScannerInv' /\ position'.offset = position.offset + text.length
<1>1. /\ position' = AdvancePosition(position, text) /\ skipped' = skipped
      /\ position \in Position /\ at \in Position /\ skipped \in Distance
  BY DEF AdvanceOver, ScannerInv
<1>2. /\ position' \in Position /\ at' \in Position
      /\ position'.offset = position.offset + text.length
      /\ position'.line = position.line + text.newlines
      /\ at'.offset = at.offset + text.length /\ at'.line = at.line + text.newlines
  BY <1>1, Advanced
<1>3. /\ position.offset \in Nat /\ position.line \in Nat /\ at.offset \in Nat /\ at.line \in Nat
      /\ skipped.length \in Nat /\ skipped.newlines \in Nat
      /\ text.length \in Nat /\ text.newlines \in Nat
  BY <1>1 DEF Position, Distance, Text
<1>4. skipped.length = 0 => position' = at'
  BY <1>1 DEF ScannerInv
<1>5. QED BY <1>1, <1>2, <1>3, <1>4 DEF ScannerInv

\* Tokens stay as they are when the position moves on.
LEMMA EndOfToken ==
  ASSUME NEW t \in TokenSet
  PROVE  t.end.offset \in Nat
  BY DEF TokenSet, Position

LEMMA OffsetType ==
  ASSUME ScannerInv
  PROVE  position.offset \in Nat
  BY DEF ScannerInv, Position

LEMMA TokensStay ==
  ASSUME LexerInv, ScannerInv', UNCHANGED tokens, position'.offset >= position.offset
  PROVE  TokensInv'
<1>1. /\ \A i \in DOMAIN tokens : tokens[i] \in TokenSet
      /\ position.offset \in Nat /\ position'.offset \in Nat
  BY OffsetType DEF LexerInv, TokensInv, ScannerInv, Position
<1>2. \A i \in DOMAIN tokens : tokens[i].end.offset <= position'.offset
  <2> TAKE i \in DOMAIN tokens
  <2>1. tokens[i].end.offset \in Nat /\ tokens[i].end.offset <= position.offset
    BY <1>1, EndOfToken DEF LexerInv, TokensInv
  <2>2. QED BY <1>1, <2>1
<1>3. QED BY <1>2 DEF LexerInv, TokensInv, IsPlaced, IsKept

\* What a rule pushes is a token.
LEMMA TokenType ==
  ASSUME ScannerInv, NEW text \in Text, NEW value \in Int, NEW literal \in Nat
  PROVE  /\ Token(text, value, literal) \in TokenSet
         /\ Token(text, value, literal).begin = position
         /\ Token(text, value, literal).end.offset = position.offset + text.length
         /\ IsPlaced(Token(text, value, literal))
         /\ value # literal <=> IntSize \div 2 <= literal
              => (literal <= LongMax => IsKept(Token(text, value, literal)))
<1> DEFINE t == Token(text, value, literal)
<1>1. /\ position \in Position /\ at \in Position /\ skipped \in Distance
      /\ AdvancePosition(position, text) \in Position
      /\ AdvancePosition(position, text).offset = position.offset + text.length
  BY Advanced DEF ScannerInv
<1>2. /\ t \in TokenSet /\ t.begin = position /\ t.end = AdvancePosition(position, text)
      /\ t.from = at /\ t.behind = skipped /\ t.value = value /\ t.literal = literal
  BY <1>1 DEF Token, TokenSet
<1>3. position.offset \in Nat /\ text.length \in Nat /\ text.length > 0
  BY <1>1 DEF Position, Text
<1>4. position.offset < position.offset + text.length
  BY <1>3
<1>5. IsPlaced(t)
  BY <1>1, <1>2, <1>4 DEF IsPlaced, ScannerInv
<1>6. QED BY <1>1, <1>2, <1>5 DEF IsKept

\* A token that is pushed where the position was comes after all others.
LEMMA TokenPushed ==
  ASSUME LexerInv, ScannerInv',
         NEW t \in TokenSet, IsPlaced(t), IsKept(t), t.begin = position,
         t.end.offset = position'.offset, position'.offset >= position.offset,
         tokens' = Append(tokens, t)
  PROVE  TokensInv'
<1> DEFINE n == Len(tokens)
<1>1. /\ tokens \in Seq(TokenSet) /\ n \in Nat /\ DOMAIN tokens = 1..n
      /\ tokens' \in Seq(TokenSet) /\ DOMAIN tokens' = 1..(n + 1)
      /\ \A i \in 1..n : tokens'[i] = tokens[i]
      /\ tokens'[n + 1] = t
  BY DEF LexerInv, TokensInv
<1>2. /\ \A i \in 1..n : tokens[i] \in TokenSet
      /\ position.offset \in Nat /\ position'.offset \in Nat
  BY <1>1, OffsetType DEF LexerInv, ScannerInv, Position
<1>3. \A i \in 1..n :
        /\ IsPlaced(tokens[i]) /\ IsKept(tokens[i])
        /\ tokens[i].end.offset <= position.offset /\ tokens[i].end.offset \in Nat
  BY <1>1, <1>2, EndOfToken DEF LexerInv, TokensInv
<1> HIDE DEF n
<1>4. \A i \in 1..(n + 1) :
        IsPlaced(tokens'[i]) /\ IsKept(tokens'[i]) /\ tokens'[i].end.offset <= position'.offset
  <2> TAKE i \in 1..(n + 1)
  <2>1. CASE i \in 1..n
    <3>1. tokens[i].end.offset <= position'.offset
      BY <1>2, <1>3, <2>1
    <3>2. QED BY <1>1, <1>3, <2>1, <3>1
  <2>2. CASE i = n + 1
    BY <1>1, <1>2, <2>2
  <2>3. QED BY <1>1, <2>1, <2>2
<1>5. \A i, j \in 1..(n + 1) : i < j => tokens'[i].end.offset <= tokens'[j].begin.offset
  <2> SUFFICES ASSUME NEW i \in 1..(n + 1), NEW j \in 1..(n + 1), i < j
               PROVE  tokens'[i].end.offset <= tokens'[j].begin.offset
    OBVIOUS
  <2>1. i \in 1..n /\ tokens'[i] = tokens[i]
    BY <1>1
  <2>2. CASE j \in 1..n
    BY <1>1, <2>1, <2>2 DEF LexerInv, TokensInv
  <2>3. CASE j = n + 1
    BY <1>1, <1>3, <2>1, <2>3
  <2>4. QED BY <1>1, <2>2, <2>3
<1>6. QED BY <1>1, <1>4, <1>5 DEF TokensInv, IsPlaced, IsKept

\* A rule of INITIAL that makes a token.
LEMMA PushKeeps ==
  ASSUME LexerInv, NEW kind, NEW text \in Text, NEW value \in Int, NEW literal \in Nat,
         Initial(kind, text), PushToken(text, value, literal),
         literal <= LongMax, value # literal <=> IntSize \div 2 <= literal
  PROVE  LexerInv'
<1>1. ScannerInv /\ ScannerInv' /\ position'.offset = position.offset + text.length
  BY MovesTogether DEF LexerInv, Initial, Match
<1>2. position.offset \in Nat /\ text.length \in Nat
  BY <1>1, OffsetType DEF Text
<1>3. position'.offset >= position.offset
  BY <1>1, <1>2
<1>4. TokensInv'
  BY <1>1, <1>3, TokenType, TokenPushed DEF PushToken
<1>5. QED BY <1>1, <1>4 DEF LexerInv

\* A rule of INITIAL that reports its text.
LEMMA RejectKeeps ==
  ASSUME LexerInv, NEW kind, NEW text \in Text, Initial(kind, text), RejectToken
  PROVE  LexerInv'
<1>1. ScannerInv /\ ScannerInv' /\ position'.offset = position.offset + text.length
  BY MovesTogether DEF LexerInv, Initial, Match
<1>2. position'.offset >= position.offset
  BY <1>1, OffsetType DEF Text
<1>3. CASE tokens' = tokens
  BY <1>1, <1>2, <1>3, TokensStay DEF LexerInv
<1>4. CASE tokens' = <<>>
  BY <1>1, <1>4 DEF LexerInv, TokensInv
<1>5. QED BY <1>3, <1>4 DEF RejectToken

\* A rule that leaves the tokens alone.
LEMMA MoveKeeps ==
  ASSUME LexerInv, NEW text \in Text, AdvanceOver(text), at' = AdvancePosition(at, text),
         UNCHANGED tokens
  PROVE  LexerInv'
<1>1. ScannerInv /\ ScannerInv' /\ position'.offset = position.offset + text.length
  BY MovesTogether DEF LexerInv
<1>2. position'.offset >= position.offset
  BY <1>1, OffsetType DEF Text
<1>3. QED BY <1>1, <1>2, TokensStay DEF LexerInv

LEMMA ScanKeepsLexer ==
  ASSUME LexerInv, Scan
  PROVE  LexerInv'
<1>1. CASE SkipWhitespace
  BY <1>1, BlanksAreTexts, MoveKeeps DEF SkipWhitespace, Initial, Match
<1>2. CASE ScanOperator
  <2>1. PICK text \in {Word(1), Word(2)} : Initial("operator", text) /\ PushToken(text, 0, 0)
    BY <1>2 DEF ScanOperator
  <2>2. text \in Text /\ 0 <= LongMax /\ ~(IntSize \div 2 <= 0)
    BY WordsAreTexts, LexerAssumption
  <2>3. QED BY <2>1, <2>2, PushKeeps
<1>3. CASE ScanIdentifier
  <2>1. PICK text \in Words : /\ Initial("word", text)
                              /\ RejectToken \/ PushToken(text, 0, 0)
    BY <1>3 DEF ScanIdentifier
  <2>2. text \in Text /\ 0 <= LongMax /\ ~(IntSize \div 2 <= 0)
    BY WordsAreTexts, LexerAssumption DEF Words
  <2>3. QED BY <2>1, <2>2, PushKeeps, RejectKeeps
<1>4. CASE ScanNumber
  <2>1. PICK value \in Literals :
          /\ Initial("number", Word(1))
          /\ \/ value <= LongMax /\ PushToken(Word(1), Truncated(value), value)
             \/ RejectToken
    BY <1>4 DEF ScanNumber, TryParseIntegerLiteral
  <2>2. Word(1) \in Text /\ value \in Nat
    BY WordsAreTexts, LexerAssumption
  <2>3. QED BY <2>1, <2>2, TruncatedValue, PushKeeps, RejectKeeps
<1>5. CASE ScanUnknown
  BY <1>5, WordsAreTexts, RejectKeeps DEF ScanUnknown
<1>6. CASE EndRecovery
  <2>1. PICK text \in Blanks :
          /\ at' = AdvancePosition(at, text)
          /\ skipped' = [length |-> skipped.length + text.length,
                         newlines |-> skipped.newlines + text.newlines]
    BY <1>6 DEF EndRecovery, Match
  <2>2. /\ text \in Text /\ position' = position /\ tokens' = tokens
        /\ position \in Position /\ at \in Position /\ skipped \in Distance
    BY <1>6, BlanksAreTexts DEF EndRecovery, LexerInv, ScannerInv
  <2>3. /\ at' \in Position
        /\ at'.offset = at.offset + text.length /\ at'.line = at.line + text.newlines
    BY <2>1, <2>2, Advanced
  <2>4. /\ position.offset \in Nat /\ position.line \in Nat
        /\ skipped.length \in Nat /\ skipped.newlines \in Nat
        /\ text.length \in Nat \ {0} /\ text.newlines \in Nat
    BY <2>2 DEF Position, Distance, Text
  <2>5. /\ skipped' \in Distance /\ skipped'.length # 0
        /\ skipped'.length = skipped.length + text.length
        /\ skipped'.newlines = skipped.newlines + text.newlines
    BY <2>1, <2>4 DEF Distance
  <2>6. ScannerInv'
    BY <2>2, <2>3, <2>4, <2>5 DEF LexerInv, ScannerInv
  <2>7. QED BY <2>2, <2>4, <2>6, TokensStay DEF LexerInv
<1>7. CASE SkipInRecovery
  BY <1>7, WordsAreTexts, MoveKeeps DEF SkipInRecovery, Match
<1>8. QED BY <1>1, <1>2, <1>3, <1>4, <1>5, <1>6, <1>7 DEF Scan

\* The scanner as it starts, and as the end of the source leaves it.
LEMMA NothingScanned ==
  /\ Start \in Position /\ Start.offset = 0 /\ Start.line = 1
  /\ [length |-> 0, newlines |-> 0] \in Distance
  BY DEF Start, Position, Distance

LEMMA LexerStays ==
  ASSUME LexerInv, UNCHANGED lexerVars
  PROVE  LexerInv'
<1>1. UNCHANGED <<position, at, skipped, tokens>>
  BY DEF lexerVars
<1>2. ScannerInv' /\ TokensInv'
  BY <1>1 DEF LexerInv, ScannerInv, TokensInv, IsPlaced, IsKept
<1>3. QED BY <1>2 DEF LexerInv

-----------------------------------------------------------------------------
(* Errors *)

LEMMA Exceptions ==
  /\ NoException # Internal
  /\ \A list : GetErrors(list) # NoException /\ GetErrors(list) # Internal
  BY DEF NoException, Internal, GetErrors

LEMMA AddErrorKeeps ==
  ASSUME ErrorsInv, thrown = NoException, NEW pass \in Passes, AddError(pass)
  PROVE  ErrorsInv'
<1>1. /\ errors' \in Seq(Passes) /\ Len(errors') = Len(errors) + 1 /\ Len(errors) \in Nat
      /\ Len(errors) < Limit
  BY DEF ErrorsInv, AddError
<1>2. thrown' = IF Len(errors') >= Limit THEN GetErrors(errors') ELSE NoException
  BY DEF AddError
<1>3. Limit \in Nat
  BY LimitAssumption
<1>4. QED BY <1>1, <1>2, <1>3, Exceptions DEF ErrorsInv, GetErrors

\* The scanner reports in its own name, or nothing.
LEMMA ScanKeepsErrors ==
  ASSUME ErrorsInv, thrown = NoException, Scan
  PROVE  ErrorsInv'
<1>1. AddError("tokenize") \/ UNCHANGED errorVars
  BY DEF Scan, SkipWhitespace, ScanOperator, ScanIdentifier, ScanNumber, ScanUnknown, EndRecovery,
         SkipInRecovery, PushToken, RejectToken
<1>2. CASE AddError("tokenize")
  BY <1>2, AddErrorKeeps DEF Passes
<1>3. CASE UNCHANGED errorVars
  BY <1>3 DEF errorVars, ErrorsInv, GetErrors
<1>4. QED BY <1>1, <1>2, <1>3

LEMMA ErrorsStay ==
  ASSUME ErrorsInv, UNCHANGED errors,
         thrown' \in {thrown, Internal, GetErrors(errors)}
  PROVE  ErrorsInv'
  BY Exceptions DEF ErrorsInv, GetErrors

-----------------------------------------------------------------------------
(* The output *)

\* What a step of the output does to errors and exceptions.
LEMMA OutputErrors ==
  ASSUME WriteOutput
  PROVE  /\ UNCHANGED <<errors, mode, linker>> /\ exit = "running" /\ thrown = NoException
         /\ \/ thrown' = Internal /\ exit' = "running" /\ RemoveTemporary
            \/ thrown' = NoException /\ exit' \in {"running", "0", "1", "aborted"}
  BY DEF WriteOutput, OpenText, WriteText, CreateTargetMachine, OpenObject, Emit, EmitFails,
         CreateTemporaryFile, Link, LinkFails, At, Go, Fail, Finish, Throw, errorVars

LEMMA OutputFiles ==
  ASSUME FilesInv, stage = "output", errors = <<>>, WriteOutput, Stay("output")
  PROVE  FilesInv'
<1>1. /\ errors' = <<>> /\ mode' = mode /\ linker' = linker /\ mode \in AllEmitModes
      /\ exit = "running" /\ thrown = NoException /\ stage' \in {"output", "catch"}
      /\ stage' = "catch" => RemoveTemporary /\ exit' = "running"
  BY OutputErrors, Exceptions DEF FilesInv, Stay
<1>2. CASE OpenText \/ WriteText
  BY <1>1, <1>2, Exceptions DEF FilesInv, OpenText, WriteText, At, Go, Fail, Finish, Throw,
     RemoveTemporary, errorVars, Stay
<1>3. CASE CreateTargetMachine \/ CreateTemporaryFile
  BY <1>1, <1>3, Exceptions DEF FilesInv, CreateTargetMachine, CreateTemporaryFile, At, Go, Fail,
     Throw, RemoveTemporary, errorVars, Stay, AllEmitModes
<1>4. CASE OpenObject
  BY <1>1, <1>4, Exceptions DEF FilesInv, OpenObject, ToTemporary, At, Go, Fail, Throw,
     RemoveTemporary, errorVars, Stay
<1>5. CASE Emit
  BY <1>1, <1>5, Exceptions DEF FilesInv, Emit, ToTemporary, At, Go, Fail, Finish, Throw,
     RemoveTemporary, errorVars, Stay
<1>6. CASE EmitFails \/ LinkFails
  BY <1>1, <1>6 DEF FilesInv, EmitFails, LinkFails, At, errorVars, Stay
<1>7. CASE Link
  BY <1>1, <1>7 DEF FilesInv, Link, At, Finish, RemoveTemporary, errorVars, Stay
<1>8. QED BY <1>2, <1>3, <1>4, <1>5, <1>6, <1>7 DEF WriteOutput

-----------------------------------------------------------------------------
(* main *)

LEMMA InitIInv == Init => IInv
<1> SUFFICES ASSUME Init PROVE IInv
  OBVIOUS
<1>1. ScannerInv /\ TokensInv
  BY NothingScanned DEF Init, InitLexer, ScannerInv, TokensInv
<1>2. ErrorsInv
  BY LimitAssumption DEF Init, InitErrors, ErrorsInv
<1>3. StageInv
  BY <1>2 DEF Init, InitErrors, InitOutput, StageInv
<1>4. FilesInv
  BY EmitModesAssumption DEF Init, InitOutput, FilesInv
<1>5. QED BY <1>1, <1>2, <1>3, <1>4 DEF IInv, LexerInv

\* Before the lowering there are no files; FilesInv lasts while the output is not touched.
LEMMA NoFilesYet ==
  ASSUME IInv, stage \notin {"output", "catch"}, UNCHANGED outputVars
  PROVE  FilesInv'
<1>1. output = "untouched" /\ temporary = "absent" /\ exit # "0"
  BY DEF IInv, FilesInv, StageInv
<1>2. QED BY <1>1 DEF IInv, FilesInv, outputVars

LEMMA TokenizeKeeps == ASSUME IInv, Tokenize PROVE IInv'
<1>1. /\ stage = "tokenize" /\ exit = "running" /\ thrown = NoException /\ printed = <<>>
      /\ Scan /\ Stay("tokenize") /\ UNCHANGED <<outputVars, exit, printed>>
  BY DEF IInv, StageInv, Tokenize, outputVars, passVars
<1>2. LexerInv' /\ ErrorsInv'
  BY <1>1, ScanKeepsLexer, ScanKeepsErrors DEF IInv
<1>3. StageInv'
  BY <1>1 DEF StageInv, Stay
<1>4. FilesInv'
  BY <1>1, NoFilesYet
<1>5. QED BY <1>2, <1>3, <1>4 DEF IInv

LEMMA EndOfFileKeeps == ASSUME IInv, EndOfFile PROVE IInv'
<1>1. ScannerInv' /\ TokensInv'
  BY NothingScanned DEF EndOfFile, ScannerInv, TokensInv
<1>2. ErrorsInv'
  BY ErrorsStay DEF IInv, EndOfFile, errorVars
<1>3. StageInv'
  BY DEF IInv, StageInv, EndOfFile, errorVars, outputVars, passVars
<1>4. FilesInv'
  BY NoFilesYet DEF EndOfFile
<1>5. QED BY <1>1, <1>2, <1>3, <1>4 DEF IInv, LexerInv

\* A pass reports an error.
LEMMA ReportKeeps ==
  ASSUME IInv, NEW s \in {"parse", "symbols", "resolve", "access", "types"}, ReportIn(s)
  PROVE  IInv'
<1>1. /\ stage = s /\ exit = "running" /\ thrown = NoException /\ printed = <<>>
      /\ AddError(s) /\ Stay(s) /\ UNCHANGED <<lexerVars, outputVars, exit, printed>>
  BY DEF IInv, StageInv, ReportIn, In, outputVars
<1>2. LexerInv' /\ ErrorsInv'
  BY <1>1, LexerStays, AddErrorKeeps DEF IInv, Passes
<1>3. StageInv'
  BY <1>1 DEF StageInv, Stay
<1>4. FilesInv'
  BY <1>1, NoFilesYet
<1>5. QED BY <1>2, <1>3, <1>4 DEF IInv

LEMMA CheckerGivesUpKeeps == ASSUME IInv, CheckerGivesUp PROVE IInv'
<1>1. /\ stage \in {"access", "types"} /\ exit = "running" /\ stage' = "catch" /\ printed = <<>>
      /\ Throw(Internal) /\ UNCHANGED <<lexerVars, outputVars, exit, printed>>
  BY DEF IInv, StageInv, CheckerGivesUp, In, outputVars
<1>2. LexerInv' /\ ErrorsInv'
  BY <1>1, LexerStays, ErrorsStay DEF IInv, Throw
<1>3. StageInv'
  BY <1>1 DEF StageInv
<1>4. FilesInv'
  BY <1>1, NoFilesYet
<1>5. QED BY <1>2, <1>3, <1>4 DEF IInv

LEMMA AssertionFailsKeeps == ASSUME IInv, AssertionFails PROVE IInv'
<1>1. /\ stage \in {"parse", "resolve", "lower", "number"} /\ exit = "running" /\ exit' = "aborted"
      /\ UNCHANGED <<errorVars, lexerVars, mode, step, output, temporary, linker, stage, printed>>
  BY DEF AssertionFails, passVars
<1>2. LexerInv' /\ ErrorsInv'
  BY <1>1, LexerStays, ErrorsStay DEF IInv, errorVars
<1>3. StageInv'
  BY <1>1 DEF IInv, StageInv, errorVars
<1>4. FilesInv'
  BY <1>1 DEF IInv, FilesInv, errorVars
<1>5. QED BY <1>2, <1>3, <1>4 DEF IInv

LEMMA PassEndsKeeps == ASSUME IInv, PassEnds PROVE IInv'
<1>1. PICK s \in {"parse", "number", "symbols", "resolve", "access", "types"} :
        In(s) /\ stage' = NextStage(s)
  BY DEF PassEnds
<1>2. /\ stage = s /\ exit = "running"
      /\ UNCHANGED <<errorVars, lexerVars, outputVars, exit, printed>>
  BY <1>1 DEF In, PassEnds, outputVars
<1>3. stage' \in {"number", "symbols", "resolve", "access", "types", "check"}
  <2>1. DOMAIN Stages = 1..10
    BY DEF Stages
  <2>2. \A i \in 1..10 : Stages[i] = s => i \in 2..7
    BY DEF Stages
  <2>3. \E i \in DOMAIN Stages : Stages[i] = s
    <3>1. /\ Stages[2] = "parse" /\ Stages[3] = "number" /\ Stages[4] = "symbols"
          /\ Stages[5] = "resolve" /\ Stages[6] = "access" /\ Stages[7] = "types"
      BY DEF Stages
    <3>2. QED BY <2>1, <3>1
  <2>4. (CHOOSE i \in DOMAIN Stages : Stages[i] = s) \in 2..7
    BY <2>1, <2>2, <2>3
  <2>5. \A i \in 2..7 :
          Stages[i + 1] \in {"number", "symbols", "resolve", "access", "types", "check"}
    BY DEF Stages
  <2>6. QED BY <1>1, <2>4, <2>5 DEF NextStage
<1>4. LexerInv' /\ ErrorsInv'
  BY <1>2, LexerStays, ErrorsStay DEF IInv, errorVars
<1>5. StageInv'
  BY <1>2, <1>3 DEF IInv, StageInv, errorVars
<1>6. FilesInv'
  BY <1>2, NoFilesYet
<1>7. QED BY <1>4, <1>5, <1>6 DEF IInv

LEMMA CheckErrorsKeeps == ASSUME IInv, CheckErrors PROVE IInv'
<1>1. /\ stage = "check" /\ exit = "running" /\ thrown = NoException /\ printed = <<>>
      /\ UNCHANGED <<errors, lexerVars, outputVars, exit, printed>>
      /\ \/ errors # <<>> /\ thrown' = GetErrors(errors) /\ stage' = "catch"
         \/ errors = <<>> /\ thrown' = NoException /\ stage' = "lower"
  BY DEF IInv, StageInv, CheckErrors, In, outputVars, Throw, HasErrors, errorVars
<1>2. LexerInv' /\ ErrorsInv'
  BY <1>1, LexerStays, ErrorsStay DEF IInv
<1>3. StageInv'
  BY <1>1 DEF StageInv
<1>4. FilesInv'
  BY <1>1, NoFilesYet
<1>5. QED BY <1>2, <1>3, <1>4 DEF IInv

LEMMA LowerKeeps == ASSUME IInv, Lower PROVE IInv'
<1>1. /\ stage = "lower" /\ exit = "running" /\ thrown = NoException /\ printed = <<>>
      /\ errors = <<>>
      /\ UNCHANGED <<errors, lexerVars, mode, output, temporary, linker, exit, printed>>
      /\ \/ thrown' = NoException /\ stage' = "output" /\ StartOutput
         \/ thrown' = Internal /\ stage' = "catch" /\ step' = step
  BY DEF IInv, StageInv, Lower, Throw, errorVars, passVars
<1>2. LexerInv' /\ ErrorsInv'
  BY <1>1, LexerStays, ErrorsStay DEF IInv
<1>3. StageInv'
  BY <1>1 DEF StageInv
<1>4. /\ output = "untouched" /\ temporary = "absent" /\ mode \in AllEmitModes
  BY <1>1 DEF IInv, FilesInv
<1>5. FilesInv'
  <2>1. CASE StartOutput
    BY <1>1, <1>4, <2>1 DEF FilesInv, StartOutput, AllEmitModes
  <2>2. CASE step' = step
    BY <1>1, <1>4, <2>2 DEF IInv, FilesInv
  <2>3. QED BY <1>1, <2>1, <2>2
<1>6. QED BY <1>2, <1>3, <1>5 DEF IInv

LEMMA WriteModuleKeeps == ASSUME IInv, WriteModule PROVE IInv'
<1>1. /\ stage = "output" /\ errors = <<>> /\ printed = <<>> /\ WriteOutput /\ Stay("output")
      /\ exit = "running" /\ UNCHANGED <<lexerVars, printed>>
  BY OutputErrors DEF IInv, StageInv, WriteModule, passVars
<1>2. LexerInv' /\ ErrorsInv'
  BY <1>1, LexerStays, ErrorsStay, OutputErrors DEF IInv
<1>3. StageInv'
  BY <1>1, OutputErrors, Exceptions DEF StageInv, Stay
<1>4. FilesInv'
  BY <1>1, OutputFiles DEF IInv
<1>5. QED BY <1>2, <1>3, <1>4 DEF IInv

LEMMA NothingInFront ==
  ASSUME NEW a, NEW b
  PROVE  <<>> \o <<a, b>> = <<a, b>> /\ <<>> \o <<a>> = <<a>>
<1> DEFINE S == {a, b}
<1>1. a \in S /\ b \in S
  OBVIOUS
<1>2. <<a, b>> \in Seq(S) /\ <<a>> \in Seq(S)
  BY <1>1
<1>3. QED BY <1>2

LEMMA CatchKeeps == ASSUME IInv, Catch PROVE IInv'
<1>1. /\ stage = "catch" /\ exit' = "1" /\ printed' = Messages
      /\ UNCHANGED <<errorVars, lexerVars, mode, step, output, temporary, linker, stage>>
  <2>1. printed = <<>>
    BY DEF IInv, StageInv, Catch
  <2>2. <<>> \o Messages = Messages
    BY NothingInFront DEF Messages
  <2>3. QED BY <2>1, <2>2 DEF Catch
<1>2. LexerInv' /\ ErrorsInv'
  BY <1>1, LexerStays, ErrorsStay DEF IInv, errorVars
<1>3. StageInv'
  BY <1>1 DEF IInv, StageInv, errorVars, Messages, HasErrors, GetErrors
<1>4. FilesInv'
  BY <1>1 DEF IInv, FilesInv, errorVars
<1>5. QED BY <1>2, <1>3, <1>4 DEF IInv

LEMMA StutterKeeps == ASSUME IInv, UNCHANGED vars PROVE IInv'
<1>1. UNCHANGED <<errorVars, errors, thrown, lexerVars, mode, step, output, temporary, linker, exit,
                  stage, printed>>
  BY DEF vars, errorVars, outputVars
<1>2. LexerInv' /\ ErrorsInv'
  BY <1>1, LexerStays, ErrorsStay DEF IInv
<1>3. StageInv' /\ FilesInv'
  BY <1>1 DEF IInv, StageInv, FilesInv, Messages, HasErrors, GetErrors
<1>4. QED BY <1>2, <1>3 DEF IInv

LEMMA NextKeeps == ASSUME IInv, [Next]_vars PROVE IInv'
<1>1. CASE \/ ParserReports \/ SymbolTableReports \/ ResolverReports
           \/ AccessCheckerReports \/ TypeCheckerReports
  BY <1>1, ReportKeeps DEF ParserReports, SymbolTableReports, ResolverReports,
     AccessCheckerReports, TypeCheckerReports
<1>2. CASE Ended
  BY <1>2, StutterKeeps DEF Ended
<1>3. QED
  BY <1>1, <1>2, TokenizeKeeps, EndOfFileKeeps, CheckerGivesUpKeeps, AssertionFailsKeeps,
     PassEndsKeeps, CheckErrorsKeeps, LowerKeeps, WriteModuleKeeps, CatchKeeps, StutterKeeps
  DEF Next

-----------------------------------------------------------------------------
(* The theorems *)

\* The inductive invariant of the scanner and of main.
THEOREM Invariant == Spec => []IInv
  BY InitIInv, NextKeeps, PTL DEF Spec

\* Debug infos of tokens are behind by the white space that ended recoveries, by nothing
\* else, and in order (Lexer.l:200).
THEOREM PositionsAreBehind == Spec => []PositionsBehind
<1>1. IInv => PositionsBehind
  BY DEF IInv, LexerInv, TokensInv, PositionsBehind, IsPlaced
<1>2. QED BY <1>1, Invariant, PTL

\* A literal changes its value exactly when it fits a long and no int (Lexer.l:92).
THEOREM LiteralsAreKept == Spec => []LiteralsKept
<1>1. IInv => LiteralsKept
  BY DEF IInv, LexerInv, TokensInv, LiteralsKept, IsKept
<1>2. QED BY <1>1, Invariant, PTL

\* What was reported when main ends is printed, once (Errors.cpp:88, main.cpp:142).
THEOREM ErrorsAreTold == Spec => []ErrorsReachUser
<1>1. IInv => ErrorsReachUser
  <2> SUFFICES ASSUME IInv PROVE ErrorsReachUser
    OBVIOUS
  <2>1. Len(errors) <= Limit
    BY DEF IInv, ErrorsInv
  <2>2. ASSUME exit \in {"0", "1"}, HasErrors
        PROVE  /\ exit = "1"
               /\ \E m \in DOMAIN printed :
                    /\ printed[m] = GetErrors(errors)
                    /\ \A k \in DOMAIN printed : k # m => printed[k].text # "errors"
    <3>1. exit = "1" /\ stage = "catch" /\ printed = Messages
      BY <2>2 DEF IInv, StageInv, HasErrors
    <3>2. CASE thrown = GetErrors(errors)
      <4>1. printed = <<GetErrors(errors)>> /\ DOMAIN printed = {1}
        BY <3>1, <3>2 DEF Messages
      <4>2. QED BY <3>1, <4>1
    <3>3. CASE thrown # GetErrors(errors)
      <4>1. printed = <<GetErrors(errors), thrown>> /\ DOMAIN printed = {1, 2}
        BY <2>2, <3>1, <3>3 DEF Messages
      <4>2. thrown.text # "errors"
        BY <3>3 DEF IInv, ErrorsInv, NoException, Internal
      <4>3. QED BY <3>1, <4>1, <4>2
    <3>4. QED BY <3>2, <3>3
  <2>3. QED BY <2>1, <2>2 DEF ErrorsReachUser
<1>2. QED BY <1>1, Invariant, PTL

\* A program with an error touches no file, main has tried to remove its temporary file
\* before it reports success or an exception, and exit code 0 means that the output is there
\* (ExecutableLowering.cpp:227).
THEOREM SuccessHasOutput == Spec => []OutputMeansSuccess
<1>1. IInv => OutputMeansSuccess
  BY DEF IInv, StageInv, FilesInv, OutputMeansSuccess, HasErrors
<1>2. QED BY <1>1, Invariant, PTL
===============================================================================
