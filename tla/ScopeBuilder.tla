---------------------------- MODULE ScopeBuilder ----------------------------
(***************************************************************************)
(* A program as BuildStatementNumerizer and BuildSymbolTable visit it.     *)
(* Both walk the same tree in the same order, so an action is the visit of *)
(* one node by the one and by the other; each keeps its own stack of       *)
(* scopes.  The program is chosen as it is visited.  An expression is at   *)
(* most one use of a name: a longer one repeats the use with the same      *)
(* statement and the same table.                                           *)
(***************************************************************************)
EXTENDS StatementNumerizer, SymbolTable, ClassTypes

CONSTANTS
  UseForms,      \* the uses an expression may be, a subset of AllUseForms
  VarNames,      \* bound: the names variables, parameters and fields may have
  VarTypes,      \* the types variables and fields have, NoClass for int
  ScopeOwners,   \* bound: the kinds of scopes the program has beside its own
  MaxScopes,     \* bound: scopes of the program, the global one included
  MaxStatements, \* bound: declarations and statements of the program
  MaxUses        \* bound: uses of the program

VARIABLES
  phase,         \* "visit", "resolve", and the ways BuildUseResolver ends
  statements,    \* how many statements the program has so far
  elseTail,      \* an if has just left its block: its else_tail comes next
  uses,          \* the nodes RegisterUse will be called for, in order
  complete       \* history: <<s, n>>, the declaration of n in s is behind us

builderVars == <<phase, statements, elseTail, uses, complete>>

(***************************************************************************)
(* "value": an identifier, an assigned or deleted variable; "call": a      *)
(* FunctionCall; "field" and "method": FieldAccess and MethodCall, name    *)
(* being the receiver and member what is accessed.                         *)
(***************************************************************************)
UseKinds == {"value", "call", "field", "method"}
AllUseForms == [kind : UseKinds, name : Names, member : Names]
NoUse == [kind |-> "none"]

ASSUME BuilderAssumption ==
  /\ UseForms \subseteq AllUseForms
  /\ VarNames \subseteq Names /\ ScopeOwners \subseteq Owners
  /\ VarTypes \subseteq Classes \cup {NoClass}
  /\ MaxScopes \in Nat /\ MaxStatements \in Nat /\ MaxUses \in Nat

InitBuilder ==
  /\ EnterRootScope
  /\ InitTables
  /\ InitClassTypes
  /\ phase = "visit"
  /\ statements = 0
  /\ elseTail = FALSE
  /\ uses = <<>>
  /\ complete = {}

-----------------------------------------------------------------------------
Expressions == UseForms \cup {NoUse}

Owner == tables[CurrentScope].owner
InStatementList == Owner \notin {"program", "class"}

\* VisitExpression: the nodes of a use get the reference of the statement and
\* the current table.
VisitExpression(e, ref) ==
  IF e = NoUse THEN UNCHANGED uses
  ELSE /\ Len(uses) < MaxUses
       /\ uses' = Append(uses, [form |-> e, scope |-> CurrentScope, ref |-> ref,
                                before |-> {s \in 1..Len(tables) : <<s, e.name>> \in complete}])

\* A statement of the current list.
TakeStatement ==
  /\ phase = "visit"
  /\ statements < MaxStatements
  /\ statements' = statements + 1
  /\ elseTail' = FALSE

OpensScope(owner) == owner \in ScopeOwners /\ Len(anchors) < MaxScopes

Completed(s, n) == complete' = complete \cup {<<s, n>>}

-----------------------------------------------------------------------------
(* Declarations *)

\* The initializer is visited before the symbol is added.
DeclareVariable(n, type, e) ==
  /\ TakeStatement /\ Owner # "class"
  /\ AcquireStatement
  /\ VisitExpression(e, NextStmtRef)
  /\ tables' = TablesAfterAdd(CurrentScope, n, Symbol("Variable", NextStmtRef, type))
  /\ ReportRejected(CurrentScope, NextStmtRef.id, n)
  /\ Completed(CurrentScope, n)
  /\ UNCHANGED <<scopeStack, classVars, phase>>

\* The symbol of a function is added before its body is entered.
AddFunctionAndEnterBody(n) ==
  /\ AcquireAndEnterScope
  /\ EnterTable(TablesAfterAdd(CurrentScope, n, Symbol("Function", NextStmtRef, NoClass)),
                "function", n)
  /\ ReportRejected(CurrentScope, NextStmtRef.id, n)
  /\ UNCHANGED <<uses, complete, phase, classType>>

DeclareFunction(n) ==
  /\ TakeStatement /\ OpensScope("function") /\ Owner # "class"
  /\ AddFunctionAndEnterBody(n)
  /\ members' = Append(members, NoMembers)

\* One turn of the loop over the parameters, before the statements of the body.
\* BindNodeWithStatementId numbers every parameter 0.
DeclareParameter(n, type) ==
  /\ phase = "visit" /\ Owner = "function" /\ Last(nextIds) = 1
  /\ tables' = TablesAfterAdd(CurrentScope, n,
                              Symbol("Parameter", [scope |-> CurrentScope, id |-> 0], type))
  /\ ReportRejected(CurrentScope, 0, n)
  /\ Completed(CurrentScope, n)
  /\ UNCHANGED <<numVars, scopeStack, classVars, phase, statements, elseTail, uses>>

\* A class adds no symbol of its own.
DeclareClass(c) ==
  /\ TakeStatement /\ OpensScope("class") /\ Owner # "class"
  /\ AcquireAndEnterScope
  /\ EnterTable(tables, "class", c)
  /\ members' = Append(members, NoMembers)
  /\ UNCHANGED <<errors, uses, complete, phase, classType>>

\* The fields of a class are visited before its methods, which open scopes.
DeclareField(n, type, e) ==
  /\ TakeStatement /\ Owner = "class"
  /\ \A s \in 1..Len(tables) : tables[s].parent # CurrentScope
  /\ AcquireStatement
  /\ VisitExpression(e, NextStmtRef)
  /\ tables' = TablesAfterAdd(CurrentScope, n, Symbol("Variable", NextStmtRef, type))
  /\ members' = MembersAfterAdd(CurrentScope, n,
                                [kind |-> "Field", id |-> NextStmtRef.id, type |-> type])
  /\ ReportRejected(CurrentScope, NextStmtRef.id, n)
  /\ Completed(CurrentScope, n)
  /\ UNCHANGED <<scopeStack, classType, phase>>

DeclareMethod(n) ==
  /\ TakeStatement /\ OpensScope("function") /\ Owner = "class"
  /\ AddFunctionAndEnterBody(n)
  /\ members' = Append(MembersAfterAdd(CurrentScope, n,
                         [kind |-> "Method", id |-> NextStmtRef.id, type |-> NoClass]),
                       NoMembers)

-----------------------------------------------------------------------------
(* Other statements *)

\* Assignment, print, delete, return and expression statements.
VisitUse(e) ==
  /\ TakeStatement /\ InStatementList
  /\ AcquireStatement
  /\ VisitExpression(e, NextStmtRef)
  /\ UNCHANGED <<tableVars, classVars, phase, complete>>

VisitBlock ==
  /\ TakeStatement /\ InStatementList /\ OpensScope("block")
  /\ AcquireAndEnterScope
  /\ EnterTable(tables, "block", NoClass)
  /\ members' = Append(members, NoMembers)
  /\ UNCHANGED <<errors, uses, complete, phase, classType>>

VisitIf(e) ==
  /\ TakeStatement /\ InStatementList /\ OpensScope("then")
  /\ AcquireAndEnterScope
  /\ VisitExpression(e, NextStmtRef)
  /\ EnterTable(tables, "then", NoClass)
  /\ members' = Append(members, NoMembers)
  /\ UNCHANGED <<errors, complete, phase, classType>>

\* VisitElseTail: an else block, or a further if in the same statement, whose
\* condition is visited in the scope of the first.
VisitElse(owner, e) ==
  /\ phase = "visit" /\ elseTail /\ OpensScope(owner)
  /\ owner = "else" => e = NoUse
  /\ EnterScopeInStatement
  /\ VisitExpression(e, current)
  /\ EnterTable(tables, owner, NoClass)
  /\ members' = Append(members, NoMembers)
  /\ elseTail' = FALSE
  /\ UNCHANGED <<errors, complete, phase, statements, classType>>

-----------------------------------------------------------------------------
(* The end of a scope *)

\* The end of a function, a class (with its base, which the parser recorded)
\* or a block.
LeaveScope(base) ==
  /\ phase = "visit" /\ CurrentScope # Root
  /\ LeaveScopeRestoring
  /\ LeaveTable
  /\ IF Owner = "class"
       THEN SyncClassType(tables[CurrentScope].name, CurrentScope, base)
       ELSE base = NoClass /\ UNCHANGED classType
  /\ elseTail' = (Owner = "then")
  /\ IF Owner = "function"
       THEN Completed(tables[CurrentScope].parent, tables[CurrentScope].name)
       ELSE UNCHANGED complete
  /\ UNCHANGED <<tables, errors, members, phase, statements, uses>>

\* The end of the program: the resolver starts.
EndProgram ==
  /\ phase = "visit" /\ CurrentScope = Root
  /\ LeaveRootScope
  /\ LeaveTable
  /\ phase' = "resolve"
  /\ elseTail' = FALSE
  /\ UNCHANGED <<tables, errors, classVars, statements, uses, complete>>

VisitDeclaration ==
  \/ \E n \in VarNames, type \in VarTypes, e \in Expressions :
        DeclareVariable(n, type, e) \/ DeclareField(n, type, e)
  \/ \E n \in Names : DeclareFunction(n) \/ DeclareMethod(n)
  \/ \E n \in VarNames, type \in VarTypes : DeclareParameter(n, type)
  \/ \E c \in Classes : DeclareClass(c)

VisitStatement ==
  \/ \E e \in UseForms : VisitUse(e)
  \/ VisitBlock
  \/ \E e \in Expressions : VisitIf(e)
  \/ \E owner \in {"then", "else"}, e \in Expressions : VisitElse(owner, e)

VisitScopeEnd ==
  \/ \E base \in Classes \cup {NoClass} : LeaveScope(base)
  \/ EndProgram
=============================================================================
