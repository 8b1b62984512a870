---------------------------- MODULE SemanticChecks ----------------------------
(***************************************************************************)
(* CheckAccessAllowance and CheckTypes on one program, which is chosen as  *)
(* it is visited.  Both visit statements in the same order; the type       *)
(* checker leaves out parts of a statement once it has reported an error   *)
(* of it, so what is open may be visited by the access checker only.       *)
(***************************************************************************)
EXTENDS TypeChecker, AccessAllowanceChecker, FiniteSets

CONSTANTS
  MaxStatements, \* bound: statements, fields and methods of the program
  MaxArguments,  \* bound: parameters and arguments of a call
  SignatureTypes, \* types that functions have parameters of, and return
  Values         \* arguments of calls

ASSUME ChecksAssumption ==
  /\ MaxStatements \in Nat /\ MaxArguments \in Nat
  /\ SignatureTypes \subseteq Types /\ Values \subseteq Atoms

VARIABLES
  open,          \* calls of Visit... in progress
  last,          \* the last statement without statements of its own
  statements,    \* statements, fields and methods so far
  classes,       \* classes so far
  forbidden      \* history: a field was accessed outside the methods of its class

walkVars == <<open, last, statements, classes, forbidden>>
vars == <<walkVars, checkerVars, accessVars>>

-----------------------------------------------------------------------------
(***************************************************************************)
(* What is open: whether the type checker visits it, the errors it         *)
(* reported of this statement itself, and, of all that is in it so far,    *)
(* whether anything is wrong and whether anything was reported; and of a   *)
(* call its parameters, the number of its arguments, those checked so far  *)
(* and the state of the loop over them.                                    *)
(***************************************************************************)
Frame(kind, visited, wrong, errors) ==
  [kind |-> kind, visited |-> visited, errors |-> errors,
   wrong |-> wrong, reported |-> errors > 0, returns |-> NoType,
   class |-> 0, previous |-> 0,
   parameters |-> <<>>, count |-> 0, given |-> <<>>, state |-> CallArgumentsCheckState]

Mark(frames, wrong, reported) ==
  IF frames = <<>> THEN frames
  ELSE Append(Front(frames), [Last(frames) EXCEPT !.wrong = @ \/ wrong,
                                                  !.reported = @ \/ reported])

InStatements ==
  open # <<>> => Last(open).kind \in {"block", "then", "else", "function", "method"}
InClass == open # <<>> /\ Last(open).kind = "class"
Visited == open # <<>> => Last(open).visited

Count == statements < MaxStatements /\ statements' = statements + 1
Statement == InStatements /\ Count

\* What a check c of the type checker leaves, if it visits what is checked.
Checked(c) == recovering' = IF Visited THEN c.recovering ELSE recovering
Errors(c) == IF Visited THEN c.errors ELSE 0
Open(frame) == open' = Append(open, frame)

Done(wrong, c) ==
  /\ last' = [visited |-> Visited, wrong |-> wrong, errors |-> Errors(c)]
  /\ open' = Mark(open, wrong, Errors(c) > 0)
  /\ Checked(c)

-----------------------------------------------------------------------------
(* What is wrong, by the rules of the language *)

Operand(atom) == IF atom \in Types THEN atom ELSE "wrong"
TypeOf(e) ==
  IF e.op = "atom" THEN e.left
  ELSE IF /\ IsSupportedExprOp(e.op, Operand(e.left))
          /\ e.op \in BinaryOperators => e.right = e.left
         THEN TypeOfOperation(e.op, e.left)
         ELSE "wrong"
Fits(type, e) == TypeOf(e) \in Types /\ IsTypeAssignable(type, TypeOf(e))

Bodies(frames) == {i \in DOMAIN frames : frames[i].kind \in {"function", "method"}}
Innermost(S) == CHOOSE i \in S : \A j \in S : j <= i

WrongReturn(e) ==
  \/ Bodies(open) = {}
  \/ LET type == open[Innermost(Bodies(open))].returns
     IN  IF type = NoType THEN e # None ELSE e = None \/ ~Fits(type, e)

\* The class in whose method a statement is.
LexicalOwner == IF Bodies(open) = {} THEN 0 ELSE open[Innermost(Bodies(open))].class

LegalArguments(parameters, given) ==
  /\ (\A i \in DOMAIN given : given[i].name = 0) \/ (\A i \in DOMAIN given : given[i].name # 0)
  /\ \A i \in DOMAIN given :
       IF given[i].name = 0 THEN Fits(parameters[i], given[i].value)
       ELSE /\ given[i].name \in DOMAIN parameters
            /\ Fits(parameters[given[i].name], given[i].value)
            /\ \A j \in DOMAIN given : given[j].name = given[i].name => i = j

-----------------------------------------------------------------------------
(* Statements without statements of their own *)

Init ==
  /\ recovering = FALSE /\ returnTypes = <<>>
  /\ InitAccess
  /\ open = <<>> /\ statements = 0 /\ classes = 0 /\ forbidden = FALSE
  /\ last = [visited |-> TRUE, wrong |-> FALSE, errors |-> 0]

Simple == Statement /\ UNCHANGED <<returnTypes, accessVars, classes, forbidden>>

DeclarationStatement ==
  /\ Simple
  /\ \E visible \in BOOLEAN, type \in Types, e \in Expressions \cup {None} :
       Done(~visible \/ (e # None /\ ~Fits(type, e)),
            VisitDeclaration(Visit, visible, type, e))

AssignmentStatement ==
  /\ Simple
  /\ \E type \in Types, e \in Expressions :
       Done(~Fits(type, e), VisitAssignment(Visit, type, e))

PrintStatement ==
  /\ Simple
  /\ \E e \in Expressions : Done(TypeOf(e) \notin Types, RequireValueType(Visit, e))

DeleteStatement ==
  /\ Simple
  /\ \E target \in Types \cup {"function"} :
       Done(target \notin ClassesOf, VisitDelete(Visit, target))

ReturnStatement ==
  /\ Simple
  /\ \E e \in Expressions \cup {None} : Done(WrongReturn(e), VisitReturn(Visit, e))

ExpressionStatement ==
  /\ Simple
  /\ \E e \in Expressions : Done(TypeOf(e) = "wrong", EvaluateExpressionType(Visit, e))

\* An expression that is a field of some class.
FieldAccess ==
  /\ Statement
  /\ \E class \in 1..classes :
       /\ CheckFieldAccess(class)
       /\ forbidden' = (forbidden \/ LexicalOwner # class)
  /\ Done(FALSE, Visit)
  /\ UNCHANGED <<returnTypes, classes>>

-----------------------------------------------------------------------------
(* Calls *)

Signatures == UNION {[1..n -> SignatureTypes] : n \in 0..MaxArguments}

\* The number of arguments is checked first.
Call ==
  /\ Statement /\ Visited
  /\ \E parameters \in Signatures, count \in 0..MaxArguments :
       LET wrong == count # Len(parameters)
           c == ReportIf(wrong, Visit)
       IN  /\ Open([Frame("call", TRUE, wrong, c.errors) EXCEPT
                      !.parameters = parameters, !.count = count])
           /\ Checked(c)
  /\ UNCHANGED <<returnTypes, accessVars, last, classes, forbidden>>

ArgumentsLeft(call) == ~recovering /\ Len(call.given) < call.count

Argument ==
  LET call == Last(open)
  IN  /\ open # <<>> /\ call.kind = "call" /\ ArgumentsLeft(call)
      /\ \E name \in 0..(MaxArguments + 1), atom \in Values :
           LET argument == [name |-> name, value |-> [op |-> "atom", left |-> atom]]
               step == TypeCheckArgument(Resume, call.state, call.parameters, argument)
               given == Append(call.given, argument)
           IN  /\ open' = Append(Front(open),
                    [call EXCEPT !.given = given, !.state = step.state,
                                 !.wrong = @ \/ ~LegalArguments(call.parameters, given),
                                 !.errors = @ + step.check.errors,
                                 !.reported = @ \/ step.check.errors > 0])
               /\ recovering' = step.check.recovering
      /\ UNCHANGED <<returnTypes, accessVars, last, statements, classes, forbidden>>

EndCall ==
  LET call == Last(open)
  IN  /\ open # <<>> /\ call.kind = "call" /\ ~ArgumentsLeft(call)
      /\ open' = Mark(Front(open), call.wrong, call.reported)
      /\ last' = [visited |-> TRUE, wrong |-> call.wrong, errors |-> call.errors]
      /\ UNCHANGED <<checkerVars, accessVars, statements, classes, forbidden>>

\* LowerCallArguments: the parameter an argument is put at.
Place(given, i) ==
  IF given[i].name # 0 THEN given[i].name
  ELSE Cardinality({j \in 1..i : given[j].name = 0})

-----------------------------------------------------------------------------
(* Blocks and ifs *)

Block ==
  /\ Statement
  /\ Open(Frame("block", Visited, FALSE, 0))
  /\ Checked(Visit)
  /\ UNCHANGED <<returnTypes, accessVars, last, classes, forbidden>>

\* The true block is visited if the condition is a bool.
If ==
  /\ Statement
  /\ \E e \in Expressions :
       LET c == VisitCondition(Visit, e)
       IN  /\ Open(Frame("then", Visited /\ c.errors = 0, TypeOf(e) # "bool", Errors(c)))
           /\ Checked(c)
  /\ UNCHANGED <<returnTypes, accessVars, last, classes, forbidden>>

\* VisitIfStatement gets to VisitElseTail.
VisitsElse(frame) == frame.visited /\ ~recovering

\* The tail of an if is a part of the same statement, whatever it was before.
ElseBlock ==
  /\ open # <<>> /\ Last(open).kind = "then"
  /\ open' = Append(Front(open),
       [Last(open) EXCEPT !.kind = "else", !.visited = VisitsElse(Last(open))])
  /\ UNCHANGED <<checkerVars, accessVars, last, statements, classes, forbidden>>

ElseIf ==
  LET frame == Last(open)
  IN  /\ open # <<>> /\ frame.kind = "then" /\ Count
      /\ \E e \in Expressions :
           LET after == VisitCondition(Resume, e)
               reports == IF VisitsElse(frame) THEN after.errors ELSE 0
           IN  /\ open' = Append(Front(open),
                    [frame EXCEPT !.visited = VisitsElse(frame) /\ reports = 0,
                                  !.errors = @ + reports,
                                  !.wrong = @ \/ TypeOf(e) # "bool",
                                  !.reported = @ \/ reports > 0])
               /\ recovering' = IF VisitsElse(frame) THEN after.recovering ELSE recovering
      /\ UNCHANGED <<returnTypes, accessVars, last, classes, forbidden>>

-----------------------------------------------------------------------------
(* Functions and classes *)

\* Parameters and return type are validated, and the return type is pushed.
Body(kind, class) ==
  \E visible \in BOOLEAN, type \in SignatureTypes \cup {NoType} :
    LET c == ValidateTypeReferences(Visit, visible)
        visits == Visited /\ ~c.recovering
    IN  /\ Open([Frame(kind, visits, ~visible, Errors(c)) EXCEPT
                   !.returns = type, !.class = class, !.previous = owner])
        /\ Checked(c)
        /\ returnTypes' = IF visits THEN Append(returnTypes, type) ELSE returnTypes

Function ==
  /\ Statement
  /\ Body("function", 0)
  /\ EnterFunction
  /\ UNCHANGED <<denied, last, classes, forbidden>>

Class ==
  /\ Statement
  /\ classes' = classes + 1
  /\ \E base \in {"none", "declared", "undeclared", "cyclic"} :
       LET c == VisitBase(Visit, base)
       IN  /\ Open([Frame("class", Visited, base \in {"undeclared", "cyclic"}, Errors(c))
                      EXCEPT !.class = classes + 1])
           /\ Checked(c)
  /\ UNCHANGED <<returnTypes, accessVars, last, forbidden>>

\* A field, its initializer included.
Field ==
  /\ InClass /\ Count
  /\ \E visible \in BOOLEAN, type \in Types, e \in Expressions \cup {None} :
       Done(~visible \/ (e # None /\ ~Fits(type, e)),
            VisitDeclaration(Visit, visible, type, e))
  /\ UNCHANGED <<returnTypes, accessVars, classes, forbidden>>

\* A field initialized with a field of some class.
FieldAccessInField ==
  /\ InClass /\ Count
  /\ \E class \in 1..classes :
       /\ CheckFieldAccess(class)
       /\ forbidden' = (forbidden \/ LexicalOwner # class)
  /\ Done(FALSE, Visit)
  /\ UNCHANGED <<returnTypes, classes>>

Method ==
  /\ InClass /\ Count
  /\ Body("method", Last(open).class)
  /\ EnterMethod(Last(open).class)
  /\ UNCHANGED <<denied, last, classes, forbidden>>

\* Faulty: the return type stays on the stack.
FaultyPopReturnType(frame) == returnTypes
PopReturnType(frame) == IF frame.visited THEN Front(returnTypes) ELSE returnTypes

\* The end of whatever is open, but a call.
Leave ==
  LET frame == Last(open)
  IN  /\ open # <<>> /\ frame.kind # "call"
      /\ open' = Mark(Front(open), frame.wrong, frame.reported)
      /\ IF frame.kind \in {"function", "method"}
           THEN Restore(frame.previous) /\ returnTypes' = PopReturnType(frame)
           ELSE UNCHANGED <<owner, returnTypes>>
      /\ UNCHANGED <<denied, recovering, last, statements, classes, forbidden>>

EndProgram == open = <<>> /\ UNCHANGED vars

Next ==
  \/ DeclarationStatement \/ AssignmentStatement \/ PrintStatement \/ DeleteStatement
  \/ ReturnStatement \/ ExpressionStatement \/ FieldAccess
  \/ Call \/ Argument \/ EndCall
  \/ Block \/ If \/ ElseBlock \/ ElseIf
  \/ Function \/ Class \/ Field \/ FieldAccessInField \/ Method \/ Leave
  \/ EndProgram

Spec == Init /\ [][Next]_vars

-----------------------------------------------------------------------------
(* Properties *)

\* The variables have their types.
TypeOK ==
  /\ recovering \in BOOLEAN /\ returnTypes \in Seq(Types \cup {NoType})
  /\ owner \in 0..classes /\ denied \in BOOLEAN /\ forbidden \in BOOLEAN
  /\ \A i \in DOMAIN open :
       /\ open[i].visited \in BOOLEAN /\ open[i].wrong \in BOOLEAN
       /\ open[i].reported \in BOOLEAN /\ open[i].errors \in Nat
       /\ open[i].class \in 0..classes /\ open[i].previous \in 0..classes
  /\ last.visited \in BOOLEAN /\ last.wrong \in BOOLEAN /\ last.errors \in Nat
  /\ statements \in 0..MaxStatements /\ classes \in 0..MaxStatements

\* The type checker reports a statement it visits at most once, however many things are
\* wrong with its expressions, its arguments or its types.
OneErrorPerStatement == last.errors <= 1 /\ \A i \in DOMAIN open : open[i].errors <= 1

\* Something was reported of what the type checker visits if and only if something is
\* wrong in it: what it leaves out after an error never hides the only error of a
\* statement, and no error is the consequence of another.
WrongIsReported ==
  /\ last.visited => (last.wrong <=> last.errors > 0)
  /\ \A i \in DOMAIN open : open[i].visited => (open[i].wrong <=> open[i].reported)

\* function_return_type_stack_ has the return types of the functions whose bodies are
\* being visited, outermost first.
ReturnTypesOfOpenBodies ==
  LET bodies == {i \in Bodies(open) : open[i].visited}
      Depth(i) == Cardinality({j \in bodies : j <= i})
  IN  /\ Len(returnTypes) = Cardinality(bodies)
      /\ \A i \in bodies : returnTypes[Depth(i)] = open[i].returns

\* Field accesses are reported if and only if they are outside the methods of the class
\* that declares the field, local functions of such methods being outside.
AccessInOwnMethods == denied <=> forbidden

\* LowerCallArguments puts exactly one argument at every parameter of a call that the type
\* checker accepted, and one that is assignable to it.
ArgumentsFillParameters ==
  \A i \in DOMAIN open :
    open[i].kind = "call" /\ open[i].errors = 0 /\ Len(open[i].given) = open[i].count =>
      LET given == open[i].given
      IN  \A p \in DOMAIN open[i].parameters :
            /\ \E a \in DOMAIN given :
                 Place(given, a) = p /\ Fits(open[i].parameters[p], given[a].value)
            /\ \A a, b \in DOMAIN given : Place(given, a) = Place(given, b) => a = b
=============================================================================
