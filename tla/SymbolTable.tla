----------------------------- MODULE SymbolTable -----------------------------
(***************************************************************************)
(* LocalSymbolTable, SymbolTable and the scope stack of SymbolTableBuilder.*)
(* A table is the position at which CreateLocalTable pushed it, which is   *)
(* also the name of its scope owner: table 1 belongs to the Program.       *)
(* Class names are no symbols: nothing ever adds a SymbolKind::Class.      *)
(***************************************************************************)
EXTENDS Naturals, SequencesExt, Syntax

VARIABLES
  tables,        \* owned_tables_
  scopeStack,    \* scope_stack_
  errors         \* what the passes gave to FrontendErrors::AddError

tableVars == <<tables, scopeStack, errors>>

SymbolKinds == {"Variable", "Function", "Parameter"}
NoSymbol == [kind |-> "None", scope |-> 0, id |-> 0, type |-> NoClass]

\* SymbolData: the kind, declaration_ref and the class the type names, if any.
Symbol(kind, ref, type) ==
  [kind |-> kind, scope |-> ref.scope, id |-> ref.id, type |-> type]

\* What GetScopeOwner tells apart: the program, the body of a function or a
\* method, a class, and the blocks of an if, its else or a block statement.
BlockOwners == {"block", "then", "else"}
Owners == {"program", "function", "class"} \cup BlockOwners

\* name: of the function or the class that owns the scope.
NewTable(parent, owner, name) ==
  [parent |-> parent, owner |-> owner, name |-> name,
   symbols |-> [n \in Names |-> NoSymbol]]

InitTables ==
  /\ tables = <<NewTable(0, "program", NoClass)>>
  /\ scopeStack = <<1>>
  /\ errors = {}

CurrentScope == Last(scopeStack)
IsClassScope(s) == tables[s].owner = "class"

AddError(what, scope, id, name) ==
  errors' = errors \cup {[what |-> what, scope |-> scope, id |-> id, name |-> name]}

-----------------------------------------------------------------------------
(* AddSymbolInfo *)

\* The table, from table s outwards, that holds n: 0 when none does.
HolderOf(n) ==
  LET holder[s \in 0..Len(tables)] ==
        IF s = 0 \/ tables[s].symbols[n] # NoSymbol THEN s ELSE holder[tables[s].parent]
  IN  holder

\* GetVisibleSymbolInParents
VisibleSymbolInParents(s, n) ==
  LET holder == HolderOf(n)[tables[s].parent]
  IN  IF holder = 0 THEN NoSymbol ELSE tables[holder].symbols[n]

CanBeShadowed(symbol) == symbol.kind # "Function"

IsDuplicate(s, n) == tables[s].symbols[n] # NoSymbol
FaultyIsIllegalShadowing(s, n) ==
  tables[s].parent # 0 /\ ~CanBeShadowed(tables[tables[s].parent].symbols[n])
IsIllegalShadowing(s, n) == ~CanBeShadowed(VisibleSymbolInParents(s, n))

FaultyTablesAfterAdd(s, n, symbol) ==
  IF IsIllegalShadowing(s, n) THEN tables
  ELSE [tables EXCEPT ![s].symbols[n] = symbol]
\* The tables after AddSymbolInfo(n, symbol) on table s: the symbol goes in
\* unless the name is taken there or a function of that name is visible.
TablesAfterAdd(s, n, symbol) ==
  IF IsDuplicate(s, n) \/ IsIllegalShadowing(s, n) THEN tables
  ELSE [tables EXCEPT ![s].symbols[n] = symbol]

\* TryAddSymbolInfo's report of the message AddSymbolInfo returned.
ReportRejected(s, id, n) ==
  IF IsDuplicate(s, n) THEN AddError("duplicate", s, id, n)
  ELSE IF IsIllegalShadowing(s, n) THEN AddError("shadowing", s, id, n)
  ELSE UNCHANGED errors

-----------------------------------------------------------------------------
(* The scopes of SymbolTableBuilder *)

\* EnterScope and SetScopeOwner, once the tables are those in tabs.
EnterTable(tabs, owner, name) ==
  /\ tables' = Append(tabs, NewTable(CurrentScope, owner, name))
  /\ scopeStack' = Append(scopeStack, Len(tables) + 1)

FaultyLeaveTable == UNCHANGED scopeStack
LeaveTable == scopeStack' = Front(scopeStack)
=============================================================================
