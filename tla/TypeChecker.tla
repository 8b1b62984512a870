----------------------------- MODULE TypeChecker -----------------------------
(***************************************************************************)
(* TypeCheckerVisitor: what one call of it makes of an expression, of the  *)
(* arguments of a call and of a statement, when every name of the program  *)
(* is resolved.  What a check has done so far is a record: the type of the *)
(* expression just evaluated, recovering_from_error_, and how many errors  *)
(* were reported.  Class B derives from class A.                           *)
(***************************************************************************)
EXTENDS Naturals, SequencesExt

VARIABLES
  recovering,    \* recovering_from_error_
  returnTypes    \* function_return_type_stack_

checkerVars == <<recovering, returnTypes>>

Types == {"int", "bool", "A", "B"}
NoType == "void"
ClassesOf == {"A", "B"}

IsTypeAssignable(expected, actual) ==
  expected = actual \/ (expected = "A" /\ actual = "B")

-----------------------------------------------------------------------------
(* Errors *)

\* Faulty: recovering_from_error_ is not set.
FaultyReportCodeError(c) == [c EXCEPT !.type = NoType, !.errors = @ + 1]
ReportCodeError(c) == [type |-> NoType, recovering |-> TRUE, errors |-> c.errors + 1]
ReportIf(wrong, c) == IF wrong THEN ReportCodeError(c) ELSE c

\* Faulty: recovering_from_error_ is left as the statement before left it.
FaultyVisit == [type |-> NoType, recovering |-> recovering, errors |-> 0]
\* VisitStatements, before each statement, and a class before each member.
Visit == [type |-> NoType, recovering |-> FALSE, errors |-> 0]
\* A check that goes on within a statement.
Resume == [type |-> NoType, recovering |-> recovering, errors |-> 0]

-----------------------------------------------------------------------------
(***************************************************************************)
(* Expressions: an atom (an identifier, a literal or a call, known by its  *)
(* type, none or "wrong" when checking it reports an error), or an         *)
(* operator on atoms.                                                      *)
(***************************************************************************)
Atoms == Types \cup {NoType, "wrong"}
UnaryOperators == {"!", "-"}
BinaryOperators == {"&&", "+", "=="}
Expressions ==
  [op : {"atom"}, left : Atoms] \cup [op : UnaryOperators, left : Atoms]
    \cup [op : BinaryOperators, left : Atoms, right : Atoms]

IsSupportedExprOp(op, type) ==
  \/ type = "bool" /\ op \in {"!", "&&", "=="}
  \/ type = "int" /\ op \in {"-", "+", "=="}
TypeOfOperation(op, type) == IF op \in {"!", "&&", "=="} THEN "bool" ELSE type

EvaluateAtom(c, atom) ==
  IF c.recovering THEN [c EXCEPT !.type = NoType]
  ELSE IF atom = "wrong" THEN ReportCodeError(c) ELSE [c EXCEPT !.type = atom]
RequireValue(c) == ReportIf(c.type = NoType /\ ~c.recovering, c)

\* Once an error is reported, or there is no type, an evaluation returns.
Failed(c) == c.recovering \/ c.type = NoType

EvaluateUnary(c, e) ==
  LET operand == RequireValue(EvaluateAtom(c, e.left))
  IN  IF Failed(operand) THEN operand
      ELSE ReportIf(~IsSupportedExprOp(e.op, operand.type),
                    [operand EXCEPT !.type = TypeOfOperation(e.op, @)])
EvaluateBinary(c, e) ==
  LET left == RequireValue(EvaluateAtom(c, e.left))
      right == RequireValue(EvaluateAtom(left, e.right))
  IN  IF Failed(left) THEN left
      ELSE IF Failed(right) THEN right
      ELSE ReportIf(left.type # right.type \/ ~IsSupportedExprOp(e.op, left.type),
                    [right EXCEPT !.type = TypeOfOperation(e.op, @)])

EvaluateExpressionType(c, e) ==
  CASE e.op = "atom" -> EvaluateAtom(c, e.left)
    [] e.op \in UnaryOperators -> EvaluateUnary(c, e)
    [] e.op \in BinaryOperators -> EvaluateBinary(c, e)
RequireValueType(c, e) == RequireValue(EvaluateExpressionType(c, e))

\* The value of e is required, and has to be of a type.
RequireAssignable(c, expected, e) ==
  LET value == RequireValueType(c, e)
  IN  ReportIf(~Failed(value) /\ ~IsTypeAssignable(expected, value.type), value)

-----------------------------------------------------------------------------
(* Statements.  visible: every class of a type is declared where it is used. *)

None == [op |-> "none"]

ValidateTypeReferences(c, visible) == ReportIf(~visible, c)

VisitDeclaration(c, visible, type, initializer) ==
  LET valid == ValidateTypeReferences(c, visible)
  IN  IF valid.recovering \/ initializer = None THEN valid
      ELSE RequireAssignable(valid, type, initializer)

VisitAssignment(c, type, e) == RequireAssignable(c, type, e)

\* The target is known by its type, "function" when it is not a variable.
VisitDelete(c, target) == ReportIf(target \notin ClassesOf, c)

VisitCondition(c, e) ==
  LET value == RequireValueType(c, e)
  IN  ReportIf(~Failed(value) /\ value.type # "bool", value)

VisitReturn(c, e) ==
  IF returnTypes = <<>> THEN ReportCodeError(c)
  ELSE IF Last(returnTypes) = NoType THEN ReportIf(e # None, c)
  ELSE IF e = None THEN ReportCodeError(c)
  ELSE RequireAssignable(c, Last(returnTypes), e)

\* The base class of a declaration, and whether it leads back to it.
VisitBase(c, base) == ReportIf(base \in {"undeclared", "cyclic"}, c)

-----------------------------------------------------------------------------
(***************************************************************************)
(* TypeCheckCallArguments.  A parameter is its type; its name is its       *)
(* place, and other places are names of no parameter.  An argument has the *)
(* name 0 when it is positional.                                           *)
(***************************************************************************)
CallArgumentsCheckState == [named |-> FALSE, positional |-> FALSE, used |-> {}, index |-> 0]

\* Faulty: a parameter may be named twice.
FaultyIsDuplicate(state, name) == FALSE
IsDuplicate(state, name) == name \in state.used

\* Each step of the loop: how it leaves the check and the loop's state.
CheckNamed(c, state, parameters, argument) ==
  LET next == [state EXCEPT !.named = TRUE, !.used = @ \cup {argument.name}]
  IN  IF \/ state.positional
         \/ argument.name \notin DOMAIN parameters
         \/ IsDuplicate(state, argument.name)
        THEN [check |-> ReportCodeError(c), state |-> next]
        ELSE [check |-> RequireAssignable(c, parameters[argument.name], argument.value),
              state |-> next]

CheckPositional(c, state, parameters, argument) ==
  LET at == state.index + 1
      next == [state EXCEPT !.positional = TRUE, !.index = at]
  IN  IF state.named \/ at \notin DOMAIN parameters
        THEN [check |-> ReportCodeError(c), state |-> next]
        ELSE [check |-> RequireAssignable(c, parameters[at], argument.value),
              state |-> next]

TypeCheckArgument(c, state, parameters, argument) ==
  IF argument.name = 0 THEN CheckPositional(c, state, parameters, argument)
                       ELSE CheckNamed(c, state, parameters, argument)
=============================================================================
