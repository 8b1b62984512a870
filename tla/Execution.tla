------------------------------ MODULE Execution ------------------------------
(***************************************************************************)
(* A program from its text to its output: visited and resolved, executed   *)
(* by the interpreter, lowered, and run as compiled code.  The interpreter *)
(* and the compiler take the same program and, where the value of a        *)
(* condition is the same, the same side of it.                             *)
(***************************************************************************)
EXTENDS Interpreter, CompiledCode

CONSTANT FunctionNames \* bound: the names of functions

VARIABLE stage   \* "build", "interpret", "lower", "run", "assertion" or "end"

textVars == <<conditionOf, statementKind, defaulted, truth>>
allVars == <<vars, textVars, interpreterVars, compiledVars, stage>>

ExecutionInit ==
  /\ Init
  /\ conditionOf = <<0>> /\ statementKind = <<>> /\ defaulted = {} /\ truth = <<>>
  /\ InitInterpreter /\ InitCompiled
  /\ stage = "build"

\* Bound: what functions are called.
FunctionsInBounds ==
  \A s \in Scopes : tables[s].owner = "function" => tables[s].name \in FunctionNames

\* Classes do not inherit from themselves.
IsAcyclic == \A c \in Classes, k \in 1..Cardinality(Classes) : Ancestor(c)[k] # c

\* A program whose declarations are right, so far.
Build ==
  /\ stage = "build"
  /\ BuildDeclaration \/ BuildStatement \/ BuildScopeEnd
  /\ errors' = {}
  /\ FunctionsInBounds'
  /\ IsAcyclic'
  /\ RecordCondition
  /\ UNCHANGED <<statementKind, defaulted, truth, interpreterVars, compiledVars, stage>>

\* The resolver and the type checker have nothing against the program: a name that is called
\* is a function's, other names have values but where anything can be printed or assigned to
\* itself.
IsAccepted ==
  \A i \in DOMAIN uses :
    /\ resolved[i] # NoSymbol
    /\ IF IsValue(i)
         THEN resolved[i].kind = "Function" => i \in ValueStatements /\ statementKind[i] # "return"
         ELSE resolved[i].kind = "Function"

\* Variables that functions and the program declare without a use in an initializer.
WithoutUse ==
  {d \in UNION {DefinitionsIn(s, {"Variable"}) : s \in {t \in Scopes : ~IsClassScope(t)}} :
     UseAt(d.scope, d.id) = 0}

\* BuildUseResolver in one step, which ResolutionIsLexical says comes to this.  Interpret and
\* the compiler both stop at errors.
ResolveProgram ==
  /\ stage = "build" /\ phase = "resolve"
  /\ resolved' = [i \in DOMAIN uses |-> Meaning(uses[i])]
  /\ statementKind' \in [ValueStatements -> UseStatements]
  /\ defaulted' \in SUBSET WithoutUse
  /\ UNCHANGED <<programVars, errors, phase, cursor, step, walk, proj, lookup, trail,
                 conditionOf, truth, variables, output, exception, compiledVars>>
  /\ IF IsAccepted' THEN stage' = "interpret" /\ interpreted' = StartOf(Root)
                    ELSE stage' = "end" /\ UNCHANGED interpreted

InterpretStep ==
  /\ stage = "interpret" /\ Interpret
  /\ stage' = IF interpreted' = <<>> THEN "lower" ELSE "interpret"
  /\ UNCHANGED <<vars, conditionOf, statementKind, defaulted, compiledVars>>

\* What is lowered has its storage and main takes no parameters, or the lowering ends in an
\* assertion.
TakesNothing(function) == \A n \in Names : tables[function].symbols[n].kind # "Parameter"
Lower ==
  /\ stage = "lower"
  /\ UNCHANGED <<vars, textVars, interpreterVars, returned, printed>>
  /\ IF \/ \E i \in DOMAIN uses : IsLowered(i) /\ ~HasStorage(i)
        \/ \E main \in Mains : ~TakesNothing(main)
       THEN stage' = "assertion" /\ UNCHANGED <<stack, globals>>
     ELSE IF Mains = {} THEN stage' = "end" /\ UNCHANGED <<stack, globals>>
     ELSE stage' = "run" /\ stack' = <<GlobalInit>> /\ globals' = GlobalConstants

RunStep ==
  /\ stage = "run" /\ Run
  /\ stage' = IF stack' = <<>> THEN "end" ELSE "run"
  /\ UNCHANGED <<vars, conditionOf, statementKind, defaulted, interpreterVars>>

\* Calls too deep for the bound are not followed.
IsTooDeep == stage = "run" /\ Len(stack) = MaxCalls /\ IsCall(UseNow) /\ returned = NoValue
ExecutionEnds == (stage \in {"end", "assertion"} \/ IsTooDeep) /\ UNCHANGED allVars

ExecutionNext ==
  \/ Build \/ ResolveProgram \/ InterpretStep \/ Lower \/ RunStep \/ ExecutionEnds

ExecutionSpec == ExecutionInit /\ [][ExecutionNext]_allVars

-----------------------------------------------------------------------------
(* Properties *)

\* The function, or the class for an initializer of a field, whose text the use is in.
Around(s) ==
  LET bodies == {t \in Enclosing[s] : tables[t].owner \in {"function", "class"}}
  IN  IF bodies = {} THEN NoScope ELSE Max(bodies)

\* A use of an accepted program finds its storage where it is lowered, unless it is a
\* variable of another function than the one it is in, a member of a class in a function
\* that is no method, or a function that is assigned to itself: exactly then the lowering
\* ends in an assertion (LLVMIRLowering.cpp:1728, :1704, :2097) that no check before it
\* prevents.
EveryUseHasStorage ==
  stage = "assertion" \/ stage = "run" =>
    \A i \in DOMAIN uses :
      LET d == DefinitionOf(i)
          inside == Around(uses[i].scope)
          member == IsClassScope(d.scope)
          isMethod == /\ inside # NoScope
                      /\ IsClassScope(inside) \/ IsClassScope(tables[inside].parent)
      IN  ~HasStorage(i) <=>
            \/ ~member /\ d.kind # "Function" /\ d.scope # Root /\ Around(d.scope) # inside
            \/ member /\ ~isMethod /\ (d.kind = "Function" => IsCall(i))
            \/ d.kind = "Function" /\ OnlyWrites(i)

\* The value of the statement that runs next is one of a variable.
ReadNow == Running /\ UseNow # 0 /\ IsValue(UseNow) /\ ~OnlyWrites(UseNow)

\* A local variable is read only after its declaration stored to it in the same call, whatever
\* the calls and branches before.  A global may be read before it has the value of its
\* initializer, but only in a call that the initializer of an earlier one, or its own, makes
\* (LLVMIRLowering.cpp:1045); one without an initializer has its value from the start.
ReadsAreInitialized ==
  stage = "run" /\ ReadNow =>
    LET d == DefinitionOf(UseNow)
    IN  d.kind # "Function" =>
          IF d.scope # Root THEN d \in DOMAIN Activation.frame
          ELSE d \notin DOMAIN globals =>
                 /\ Len(stack) > 1 /\ stack[1].function = NoScope
                 /\ d.id >= Here(stack[1].at).id /\ ~HasDefault(d)

\* Interpreter and compiled code print the same, as far as the interpreter gets.
OutputsAgree ==
  /\ stage = "run" =>
       IF exception = "none" THEN IsPrefix(printed, output)
       ELSE IsPrefix(printed, output) \/ IsPrefix(output, printed)
  /\ stage = "end" /\ IsAccepted /\ Mains # {} =>
       IF exception = "none" THEN printed = output ELSE IsPrefix(output, printed)

\* The interpreter, which keeps the variables of all scopes together and forgets none at the
\* end of a block, declares none twice, and knows every variable it meets - in initializers,
\* conditions and all other statements - but the parameters of main (Interpreter.cpp:89,
\* :218, :254).
NamesAreKnown ==
  /\ exception # "already declared"
  /\ interpreted # <<>> =>
       LET i == UseOf(interpreted)
       IN  i # 0 /\ IsValue(i) =>
             \/ DefinitionOf(i) \in DOMAIN variables
             \/ DefinitionOf(i).kind \in {"Parameter", "Function"}
=============================================================================
