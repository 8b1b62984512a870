-------------------------------- MODULE Driver --------------------------------
(***************************************************************************)
(* main of compiler_frontend_cli: the passes in their order, on one source *)
(* file, the errors they report and the exceptions that end them.  The     *)
(* scanner and the output are Lexer and Output; of the passes between them *)
(* only what they report is left.                                          *)
(***************************************************************************)
EXTENDS Lexer, Output

VARIABLES
  stage,         \* the function main is in
  unresolved,    \* names without a symbol in use_resolver: of receivers, or others
  bodyless,      \* the parser left a function without a body
  printed        \* what was written to std::cerr

vars == <<errorVars, lexerVars, outputVars, stage, unresolved, bodyless, printed>>

Stages == <<"tokenize", "parse", "number", "symbols", "resolve", "access", "types",
            "check", "lower", "output">>
NextStage(s) == Stages[(CHOOSE i \in DOMAIN Stages : Stages[i] = s) + 1]

\* A function of main is left with an exception, or stays, or is done.
Stay(s) == stage' = IF thrown' = NoException THEN s ELSE "catch"

Init ==
  /\ InitErrors /\ InitLexer /\ InitOutput
  /\ stage = "tokenize" /\ unresolved = {} /\ bodyless = FALSE /\ printed = <<>>

passVars == <<unresolved, bodyless, printed>>

-----------------------------------------------------------------------------
(* The passes *)

Tokenize ==
  /\ stage = "tokenize"
  /\ Scan
  /\ Stay("tokenize")
  /\ UNCHANGED <<outputVars, passVars>>

\* The start condition is reset with the scanner; what only the parser reads of the
\* tokens is left out from here on.
EndOfFile ==
  /\ stage = "tokenize"
  /\ stage' = "parse"
  /\ condition' = "INITIAL" /\ tokens' = <<>>
  /\ position' = Start /\ at' = Start /\ skipped' = [length |-> 0, newlines |-> 0]
  /\ lexemes' = 0 /\ previous' = "none"
  /\ UNCHANGED <<errorVars, outputVars, passVars>>

In(s) == stage = s /\ exit = "running" /\ UNCHANGED <<lexerVars, outputVars, printed>>

ReportIn(s) == In(s) /\ AddError(s) /\ Stay(s)

\* A syntax error, which may cost a function its body.
ParserReports ==
  /\ ReportIn("parse")
  /\ bodyless' \in {bodyless, TRUE}
  /\ UNCHANGED unresolved

SymbolTableReports == ReportIn("symbols") /\ UNCHANGED <<unresolved, bodyless>>

\* A name without a meaning, or one that means something else than it should.
ResolverReports ==
  /\ ReportIn("resolve")
  /\ \E names \in {{}, {"receiver"}, {"other"}} : unresolved' = unresolved \cup names
  /\ UNCHANGED bodyless

AccessCheckerReports == ReportIn("access") /\ UNCHANGED <<unresolved, bodyless>>
TypeCheckerReports == ReportIn("types") /\ UNCHANGED <<unresolved, bodyless>>

\* "resolver is incorrect for this program": the access checker looks at the receiver of
\* every field access, the type checker at every name it gets to.
CheckerGivesUp ==
  /\ \/ In("access") /\ "receiver" \in unresolved
     \/ In("types") /\ unresolved # {}
  /\ Throw(Internal)
  /\ stage' = "catch"
  /\ UNCHANGED <<unresolved, bodyless>>

\* assert: the parser's on pending errors, the resolver's on cycles of bases, those of the
\* lowering; and BuildStatementNumerizer's on functions without a body.
AssertionFails ==
  /\ stage \in {"parse", "resolve", "lower"} \/ (stage = "number" /\ bodyless)
  /\ exit = "running"
  /\ exit' = "aborted"
  /\ UNCHANGED <<errorVars, lexerVars, mode, step, output, temporary, linker, stage, passVars>>

\* The end of a pass.
PassEnds ==
  /\ \E s \in {"parse", "number", "symbols", "resolve", "access", "types"} :
       /\ In(s)
       /\ s = "number" => ~bodyless
       /\ s = "access" => "receiver" \notin unresolved
       /\ stage' = NextStage(s)
  /\ UNCHANGED <<errorVars, unresolved, bodyless>>

\* Faulty: only the errors of the last pass are looked at.
FaultyCheckErrors ==
  /\ In("check")
  /\ IF HasErrors /\ errors[Len(errors)] = "types"
       THEN Throw(GetErrors(errors)) /\ stage' = "catch"
       ELSE stage' = "lower" /\ UNCHANGED errorVars
  /\ UNCHANGED <<unresolved, bodyless>>
\* if (HasErrors()) ThrowErrors()
CheckErrors ==
  /\ In("check")
  /\ IF HasErrors THEN Throw(GetErrors(errors)) /\ stage' = "catch"
                  ELSE stage' = "lower" /\ UNCHANGED errorVars
  /\ UNCHANGED <<unresolved, bodyless>>

\* LowerToLLVMIRModule, which throws when LLVM does not accept the module.
Lower ==
  /\ stage = "lower" /\ exit = "running"
  /\ \/ stage' = "output" /\ StartOutput /\ UNCHANGED errorVars
     \/ stage' = "catch" /\ Throw(Internal) /\ UNCHANGED step
  /\ UNCHANGED <<lexerVars, mode, output, temporary, linker, exit, passVars>>

WriteModule ==
  /\ stage = "output"
  /\ WriteOutput
  /\ Stay("output")
  /\ UNCHANGED <<lexerVars, passVars>>

-----------------------------------------------------------------------------
\* Faulty: the errors are printed whatever the exception says.
FaultyMessages == IF HasErrors THEN <<GetErrors(errors), thrown>> ELSE <<thrown>>
\* The collected errors, unless the exception says the same, and the exception.
Messages ==
  IF HasErrors /\ GetErrors(errors) # thrown THEN <<GetErrors(errors), thrown>> ELSE <<thrown>>

\* catch (const std::exception& error)
Catch ==
  /\ stage = "catch" /\ exit = "running"
  /\ printed' = printed \o Messages
  /\ exit' = "1"
  /\ UNCHANGED <<errorVars, lexerVars, mode, step, output, temporary, linker, stage,
                 unresolved, bodyless>>

Ended == exit # "running" /\ UNCHANGED vars

Next ==
  \/ Tokenize \/ EndOfFile
  \/ ParserReports \/ SymbolTableReports \/ ResolverReports
  \/ AccessCheckerReports \/ TypeCheckerReports \/ CheckerGivesUp
  \/ AssertionFails \/ PassEnds \/ CheckErrors \/ Lower \/ WriteModule \/ Catch
  \/ Ended

Spec == Init /\ [][Next]_vars

-----------------------------------------------------------------------------
(* Properties *)

\* Every token is where its debug info says it is, until the scanner has recovered once:
\* from then on debug infos are behind by the white space that ended recoveries
\* (Lexer.l:200), in characters and in lines, and by nothing else.  Whatever is wrong,
\* ranges of tokens do not overlap and come in the order of the tokens.
PositionsBehind ==
  /\ \A i \in DOMAIN tokens :
       LET t == tokens[i]
       IN  /\ t.begin.offset + t.behind.length = t.from.offset
           /\ t.begin.line + t.behind.newlines = t.from.line
           /\ t.behind.length = 0 => t.begin = t.from
           /\ t.begin.offset < t.end.offset
  /\ \A i, j \in DOMAIN tokens : i < j => tokens[i].end.offset <= tokens[j].begin.offset

\* A literal that is no int is reported, unless a long holds it: then the token silently
\* has another value (TryParseIntegerLiteral, Lexer.l:97), and only then.
LiteralsKept ==
  \A i \in DOMAIN tokens :
    LET t == tokens[i]
    IN  /\ t.literal <= LongMax
        /\ t.value # t.literal <=> IntSize \div 2 <= t.literal

\* However the passes end - at the limit, in the middle of a pass, after the last one, or
\* with a checker that gives up because the resolver did not - every error reported until
\* then is printed, once, and there are never more than the limit.
ErrorsReachUser ==
  /\ Len(errors) <= Limit
  /\ exit \in {"0", "1"} /\ HasErrors =>
       /\ exit = "1"
       /\ \E m \in DOMAIN printed :
            /\ printed[m] = GetErrors(errors)
            /\ \A k \in DOMAIN printed : k # m => printed[k].text # "errors"

\* No file is touched for a program with an error; whether main succeeds or catches an
\* exception, it has tried to remove the temporary file - only an assertion or LLVM ends the
\* process without; and exit code 0 means that the output is there - but for an executable on
\* a machine without clang (ExecutableLowering.cpp:255), and for a text that could not be
\* written (main.cpp:135).
OutputMeansSuccess ==
  /\ output # "untouched" \/ temporary # "absent" => ~HasErrors
  /\ exit = "0" \/ thrown # NoException => temporary \in {"absent", "left"}
  /\ exit = "0" =>
       \/ output = "written"
       \/ mode = "executable" /\ ~linker /\ output = "untouched"
       \/ mode = "llvm" /\ output = "opened"
=============================================================================
