---------------------------- MODULE CompiledCode ----------------------------
(***************************************************************************)
(* The program LowerToLLVMIRModule makes, run: main calls __global_init,   *)
(* then the user's main.  An activation is the function, where it is in    *)
(* its statements and what its allocas hold; FunctionLowering shows that   *)
(* the blocks lead from statement to statement as the text does.           *)
(***************************************************************************)
EXTENDS Storage

CONSTANT MaxCalls  \* bound: activations at a time

ASSUME MaxCallsAssumption == MaxCalls \in Nat

VARIABLES
  globals,       \* values of global variables: constants, and what was stored
  stack,         \* activations, the running one last
  returned,      \* what the call in the current statement returned, or NoValue
  printed        \* what was printed

compiledVars == <<globals, stack, returned, printed>>

NoValue == [by |-> "none", scope |-> 0, id |-> 0]

InitCompiled == globals = <<>> /\ stack = <<>> /\ returned = NoValue /\ printed = <<>>

Running == stack # <<>>
Activation == Last(stack)
At == Activation.at

\* DefineUserFunctions: the arguments are stored before the body runs.
Activate(function) ==
  [function |-> function, at |-> StartOf(function),
   frame |-> [d \in {e \in StorageOf(function) : e.kind = "Parameter"} |-> Argument]]
\* DefineGlobalInitFunction: of the statements of the program it takes the declarations.
GlobalInit == [function |-> NoScope, at |-> StartOf(Root), frame |-> <<>>]

-----------------------------------------------------------------------------
(* Loads and stores *)

\* CreateGlobalDeclarations: the constant is all a global without an initializer is given;
\* an object is made for it when __global_init runs.
GlobalConstants == [d \in {e \in GlobalDeclarations : HasDefault(e)} |-> Zero]

\* An alloca holds anything until it is stored to, a global its constant.
Load(d) ==
  CASE AddressIn(Activation.function, d) = "frame" ->
         IF d \in DOMAIN Activation.frame THEN Activation.frame[d] ELSE Undefined
    [] OTHER -> IF d \in DOMAIN globals THEN globals[d] ELSE Zero

\* The value is stored, and the statement is done.
StoreAndGoOn(d, value) ==
  IF AddressIn(Activation.function, d) = "frame"
    THEN /\ stack' = Append(Front(stack), [Activation EXCEPT !.frame = Put(@, d, value),
                                                             !.at = NextStatement(@)])
         /\ UNCHANGED globals
    ELSE /\ globals' = Put(globals, d, value)
         /\ stack' = Append(Front(stack), [Activation EXCEPT !.at = NextStatement(@)])

Move(at) == stack' = Append(Front(stack), [Activation EXCEPT !.at = at])

\* The use has a value now: it is no call, or the call has returned.
IsCall(i) == i # 0 /\ ~IsValue(i)
Ready(i) == IsCall(i) => returned # NoValue
ValueOf(i) ==
  IF i = 0 THEN Written(Here(At))
  ELSE IF IsCall(i) THEN returned
  ELSE LET d == DefinitionOf(i) IN IF d.kind = "Function" THEN AddressOf(d) ELSE Load(d)

-----------------------------------------------------------------------------
UseNow == UseOf(At)

Returns(value) ==
  /\ stack' = Front(stack)
  /\ returned' = value
  /\ UNCHANGED <<globals, printed, truth>>

Call ==
  /\ Running /\ IsCall(UseNow) /\ returned = NoValue
  /\ Len(stack) < MaxCalls
  /\ stack' = Append(stack, Activate(BodyOf(DefinitionOf(UseNow))))
  /\ UNCHANGED <<globals, returned, printed, truth>>

\* Faulty: local variables are left alone like globals.
FaultyIsLeftAlone(d) == HasDefault(d)
\* DefineGlobalInitFunction: nothing is stored to a global of the default.
IsLeftAlone(d) == d \in DOMAIN GlobalConstants

\* LowerDeclaration, and the loop of DefineGlobalInitFunction.
RunDeclaration ==
  /\ Running /\ IsOfDeclaration(At) /\ Ready(UseNow)
  /\ \E n \in DeclaredHere(At) :
       LET d == DefinitionIn(n, Here(At).scope)
       IN  IF IsLeftAlone(d) THEN Move(NextStatement(At)) /\ UNCHANGED globals
           ELSE StoreAndGoOn(d, IF HasDefault(d) THEN Zero ELSE ValueOf(UseNow))
  /\ returned' = NoValue
  /\ UNCHANGED <<printed, truth>>

\* LowerAssignment
RunAssignment ==
  /\ Running /\ IsOfUse(At) /\ OnlyWrites(UseNow)
  /\ StoreAndGoOn(DefinitionOf(UseNow), Written(Here(At)))
  /\ UNCHANGED <<returned, printed, truth>>

\* LowerPrint, and calls as statements.
RunUse ==
  /\ Running /\ IsOfUse(At) /\ ~OnlyWrites(UseNow) /\ Ready(UseNow)
  /\ IsValue(UseNow) => statementKind[UseNow] = "print"
  /\ printed' = IF IsValue(UseNow) THEN Append(printed, ValueOf(UseNow)) ELSE printed
  /\ Move(NextStatement(At))
  /\ returned' = NoValue
  /\ UNCHANGED <<globals, truth>>

\* LowerReturn
RunReturn ==
  /\ Running /\ IsOfUse(At) /\ IsValue(UseNow) /\ statementKind[UseNow] = "return"
  /\ Returns(ValueOf(UseNow))

\* Declarations of functions and classes leave no code; a block, or an else block.
RunBlock ==
  /\ Running /\ IsOfBlocks(At) /\ tables[BlockHere(At)].owner # "then"
  /\ Move(IF tables[BlockHere(At)].owner \in {"function", "class"}
            THEN NextStatement(At) ELSE EnterBlock(At, BlockHere(At)))
  /\ UNCHANGED <<globals, returned, printed, truth>>

\* LowerIf
RunCondition ==
  /\ Running /\ IsOfBlocks(At) /\ tables[BlockHere(At)].owner = "then" /\ Ready(UseNow)
  /\ \E b \in BOOLEAN :
       /\ IsTruth(BlockHere(At), ValueOf(UseNow), b)
       /\ Move(IF b THEN EnterBlock(At, BlockHere(At))
               ELSE IF Here(At).passed + 1 < Len(BlocksHere(At)) THEN NextBlock(At)
               ELSE NextStatement(At))
  /\ returned' = NoValue
  /\ UNCHANGED <<globals, printed>>

\* The end of a list: of a block; of a function, EmitDefaultReturnIfNeeded; of
\* __global_init, which DefineMainWrapper's main calls before the user's main.
RunEnd ==
  /\ Running /\ AtEnd(At)
  /\ IF Len(At) > 1 THEN Move(Front(At)) /\ UNCHANGED <<globals, returned, printed, truth>>
     ELSE IF Activation.function # NoScope THEN Returns(DefaultReturn)
     ELSE /\ \E main \in Mains : stack' = <<Activate(main)>>
          /\ UNCHANGED <<globals, returned, printed, truth>>

Run ==
  \/ Call \/ RunDeclaration \/ RunAssignment \/ RunUse \/ RunReturn
  \/ RunBlock \/ RunCondition \/ RunEnd
=============================================================================
