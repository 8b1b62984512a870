----------------------------- MODULE Interpreter -----------------------------
(***************************************************************************)
(* Interpret: the program executed on its tree, one statement a step.  It  *)
(* supports variables, assignments, print, blocks and ifs; anything else   *)
(* it meets is an exception.                                               *)
(***************************************************************************)
EXTENDS ProgramText

VARIABLES
  variables,     \* context.variables: definition nodes and their values
  interpreted,   \* where it is: a walk, or <<>> when it has ended
  output,        \* what it printed
  exception      \* "none", "unsupported", "unknown variable" or "already declared"

interpreterVars == <<variables, interpreted, output, exception>>

InitInterpreter ==
  /\ variables = <<>> /\ interpreted = <<>> /\ output = <<>> /\ exception = "none"

Throws(what) ==
  /\ exception' = what
  /\ interpreted' = <<>>
  /\ UNCHANGED <<variables, output, truth>>

Known(i) == DefinitionOf(i) \in DOMAIN variables

\* EvaluateExpression throws on this use, 0 being none.
Unevaluable(i) == i # 0 /\ (~IsValue(i) \/ ~Known(i))
ThrowsEvaluating(i) == Throws(IF IsValue(i) THEN "unknown variable" ELSE "unsupported")
EvaluateExpression(i) ==
  IF i = 0 THEN Written(Here(interpreted)) ELSE variables[DefinitionOf(i)]

Interpreting == interpreted # <<>>

-----------------------------------------------------------------------------
\* Faulty: a variable without an initializer is not known to the interpreter.
FaultyDeclare(d, i) ==
  variables' = IF HasDefault(d) THEN variables ELSE Put(variables, d, EvaluateExpression(i))
Declare(d, i) ==
  variables' = Put(variables, d, IF HasDefault(d) THEN Zero ELSE EvaluateExpression(i))

ExecuteDeclaration ==
  /\ Interpreting /\ IsOfDeclaration(interpreted)
  /\ \E n \in DeclaredHere(interpreted) :
       LET d == DefinitionIn(n, Here(interpreted).scope)
           initializer == UseHere(interpreted)
       IN  IF d \in DOMAIN variables THEN Throws("already declared")
           ELSE IF IsOfClass(d) THEN Throws("unsupported")
           ELSE IF Unevaluable(initializer) THEN ThrowsEvaluating(initializer)
           ELSE /\ Declare(d, initializer)
                /\ interpreted' = NextStatement(interpreted)
                /\ UNCHANGED <<output, exception, truth>>

\* ExecuteAssignment; the variable is looked up before the expression is evaluated.
ExecuteAssignment ==
  /\ Interpreting /\ IsOfUse(interpreted)
  /\ OnlyWrites(UseHere(interpreted))
  /\ LET i == UseHere(interpreted)
     IN  IF ~Known(i) THEN Throws("unknown variable")
         ELSE /\ variables' = [variables EXCEPT ![DefinitionOf(i)] = Written(Here(interpreted))]
              /\ interpreted' = NextStatement(interpreted)
              /\ UNCHANGED <<output, exception, truth>>

\* ExecutePrint, ExecuteReturn, and calls as statements.
ExecuteUse ==
  /\ Interpreting /\ IsOfUse(interpreted)
  /\ ~OnlyWrites(UseHere(interpreted))
  /\ LET i == UseHere(interpreted)
     IN  IF IsValue(i) /\ statementKind[i] = "return" THEN Throws("unsupported")
         ELSE IF Unevaluable(i) THEN ThrowsEvaluating(i)
         ELSE /\ output' = Append(output, EvaluateExpression(i))
              /\ interpreted' = NextStatement(interpreted)
              /\ UNCHANGED <<variables, exception, truth>>

\* The declaration of a function is nothing to execute, that of a class cannot be.
PassDeclaration ==
  /\ Interpreting /\ IsOfBlocks(interpreted)
  /\ LET owner == tables[BlockHere(interpreted)].owner
     IN  \/ owner = "class" /\ Throws("unsupported")
         \/ /\ owner = "function"
            /\ interpreted' = NextStatement(interpreted)
            /\ UNCHANGED <<variables, output, exception, truth>>

\* A block, or what ExecuteIf comes to: the else block after the conditions.
ExecuteBlock ==
  /\ Interpreting /\ IsOfBlocks(interpreted)
  /\ tables[BlockHere(interpreted)].owner \in {"block", "else"}
  /\ interpreted' = EnterBlock(interpreted, BlockHere(interpreted))
  /\ UNCHANGED <<variables, output, exception, truth>>

\* Faulty: an else block is executed beside the block of its if.
FaultyAfterTrue(at) ==
  IF Here(at).passed + 1 < Len(BlocksHere(at)) THEN NextBlock(at) \o StartOf(BlockHere(at))
                                               ELSE EnterBlock(at, BlockHere(at))
AfterTrue(at) == EnterBlock(at, BlockHere(at))
AfterFalse(at) ==
  IF Here(at).passed + 1 < Len(BlocksHere(at)) THEN NextBlock(at) ELSE NextStatement(at)

\* A condition of ExecuteIf.
ExecuteCondition ==
  /\ Interpreting /\ IsOfBlocks(interpreted)
  /\ tables[BlockHere(interpreted)].owner = "then"
  /\ LET condition == conditionOf[BlockHere(interpreted)]
     IN  IF Unevaluable(condition) THEN ThrowsEvaluating(condition)
         ELSE \E b \in BOOLEAN :
                /\ IsTruth(BlockHere(interpreted), EvaluateExpression(condition), b)
                /\ interpreted' = IF b THEN AfterTrue(interpreted) ELSE AfterFalse(interpreted)
                /\ UNCHANGED <<variables, output, exception>>

\* The end of a block; of the program, then of main, which is last.
EndOfBlock ==
  /\ Interpreting /\ AtEnd(interpreted)
  /\ IF Len(interpreted) > 1 THEN interpreted' = Front(interpreted)
     ELSE IF Here(interpreted).scope = Root /\ Mains # {}
            THEN \E main \in Mains : interpreted' = StartOf(main)
     ELSE interpreted' = <<>>
  /\ UNCHANGED <<variables, output, exception, truth>>

Interpret ==
  \/ ExecuteDeclaration \/ ExecuteAssignment \/ ExecuteUse
  \/ PassDeclaration \/ ExecuteBlock \/ ExecuteCondition \/ EndOfBlock
=============================================================================
