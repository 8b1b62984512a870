------------------------------ MODULE Resolver ------------------------------
(***************************************************************************)
(* BuildUseResolver on the tables and numbers of ScopeBuilder: every use   *)
(* gets the symbol it names, or an error.  The loops of the code are steps *)
(* here: the walk over the tables (ResolveUse), the climb from the use to  *)
(* the scope of the declaration (ProjectUseToScope) and the walk over the  *)
(* base classes (LookupClassMember).                                       *)
(***************************************************************************)
EXTENDS ScopeBuilder

VARIABLES
  cursor,        \* the use being resolved
  step,          \* where in ResolveUse or after it the resolver is
  walk,          \* local_scope
  proj,          \* ref, in ProjectUseToScope
  lookup,        \* current_class and visited_classes, in LookupClassMember
  trail,         \* history: the tables ResolveUse has looked at for this use
  resolved       \* use_to_resolved_symbol_; NoSymbol for a use without one

resolverVars == <<cursor, step, walk, proj, lookup, trail, resolved>>
programVars == <<numVars, tables, scopeStack, classVars, statements, elseTail, uses, complete>>
vars == <<numVars, tableVars, classVars, builderVars, resolverVars>>

Steps == {"next", "scope", "project", "fallback", "receiver"}
NoLookup == [class |-> NoClass, visited |-> {}]

Init ==
  /\ InitBuilder
  /\ cursor = 0
  /\ step = "next"
  /\ walk = NoScope
  /\ proj = NoRef
  /\ lookup = NoLookup
  /\ trail = {}
  /\ resolved = <<>>

-----------------------------------------------------------------------------
Use == uses[cursor]
SymbolHere == tables[walk].symbols[Use.form.name]

(* IsSymbolVisible *)

\* IsFunctionForwardUseAllowed
ForwardUseAllowed(s) == s = Root \/ IsClassScope(s)

\* Visible wherever the scope is: parameters, functions of the program and of
\* classes, fields.
VisibleAnywhere(symbol) ==
  \/ symbol.id = 0
  \/ symbol.kind = "Function" /\ ForwardUseAllowed(symbol.scope)
  \/ symbol.kind = "Variable" /\ IsClassScope(symbol.scope)

\* Faulty: a declaration is visible in its own statement.
FaultyDeclaredBefore(symbol, ref) == symbol.id <= ref.id
\* The other symbols are visible to the statements that follow.
DeclaredBefore(symbol, ref) == symbol.id < ref.id

-----------------------------------------------------------------------------
(* How ResolveUse goes on or ends *)

Advance == step' = "next" /\ UNCHANGED <<walk, proj, lookup, trail>>

\* The next table, or "use before def" after the last.
WalkOn ==
  LET parent == tables[walk].parent
  IN  IF parent = NoScope
        THEN /\ resolved' = Append(resolved, NoSymbol)
             /\ AddError("use before def", Use.scope, Use.ref.id, Use.form.name)
             /\ Advance
        ELSE /\ walk' = parent
             /\ trail' = trail \cup {parent}
             /\ step' = "scope"
             /\ UNCHANGED <<proj, lookup, resolved, errors>>

\* The table at walk has no visible symbol: a call in a class goes on to the
\* methods of its bases.
NotHere ==
  IF IsClassScope(walk) /\ Use.form.kind = "call"
    THEN /\ step' = "fallback"
         /\ lookup' = StartLookup(tables[walk].name)
         /\ UNCHANGED <<walk, proj, trail, resolved, errors>>
    ELSE WalkOn

\* RegisterUse, and what the visit of the use does with its symbol: a called
\* symbol must be a function, a receiver an object of a declared class.
Bind(symbol) ==
  /\ resolved' = Append(resolved, symbol)
  /\ CASE Use.form.kind = "call" /\ symbol.kind # "Function" ->
            AddError("not a function", Use.scope, Use.ref.id, Use.form.name) /\ Advance
       [] Use.form.kind \in {"field", "method"} /\ symbol.type = NoClass ->
            AddError("not a class object", Use.scope, Use.ref.id, Use.form.name) /\ Advance
       [] Use.form.kind \in {"field", "method"} /\ symbol.type # NoClass ->
            IF classType[symbol.type].decl = 0
              THEN AddError("unknown class", Use.scope, Use.ref.id, Use.form.name) /\ Advance
              ELSE /\ step' = "receiver"
                   /\ lookup' = StartLookup(symbol.type)
                   /\ UNCHANGED <<walk, proj, trail, errors>>
       [] OTHER -> UNCHANGED errors /\ Advance

\* An exception or a failed assertion: main prints it and compilation is over.
Abort(how) ==
  /\ phase' = how
  /\ UNCHANGED <<resolverVars, errors>>

-----------------------------------------------------------------------------
Resolving(at) ==
  /\ phase = "resolve" /\ step = at
  /\ UNCHANGED programVars

BeginUse ==
  /\ Resolving("next")
  /\ cursor < Len(uses)
  /\ cursor' = cursor + 1
  /\ step' = "scope"
  /\ walk' = uses[cursor + 1].scope
  /\ trail' = {uses[cursor + 1].scope}
  /\ UNCHANGED <<proj, lookup, resolved, errors, phase>>

\* One turn of ResolveUse's loop, up to the projection IsSymbolVisible needs.
LookInTable ==
  /\ Resolving("scope")
  /\ UNCHANGED <<cursor, phase>>
  /\ CASE SymbolHere = NoSymbol -> NotHere
       [] SymbolHere # NoSymbol /\ VisibleAnywhere(SymbolHere) -> Bind(SymbolHere)
       [] OTHER -> /\ step' = "project"
                   /\ proj' = Use.ref
                   /\ UNCHANGED <<walk, lookup, trail, resolved, errors>>

\* ProjectUseToScope: one turn of its loop.  When it runs out of parents, the
\* use is outside the scope of a symbol its tables led to: IsSymbolVisible
\* throws "statement numerizer is incorrect for this program".
Climb ==
  /\ Resolving("project")
  /\ proj.scope # SymbolHere.scope
  /\ IF proj.scope = NoScope
       THEN Abort("numerizer is incorrect")
       ELSE /\ proj' = anchors[proj.scope]
            /\ UNCHANGED <<cursor, step, walk, lookup, trail, resolved, errors, phase>>

\* The end of IsSymbolVisible.
CompareNumbers ==
  /\ Resolving("project")
  /\ proj.scope = SymbolHere.scope
  /\ UNCHANGED <<cursor, phase>>
  /\ IF DeclaredBefore(SymbolHere, proj) THEN Bind(SymbolHere) ELSE NotHere

\* ResolveUse's class fallback: a method of a base class, no field.
Wanted == IF step = "fallback" THEN Use.form.name ELSE Use.form.member
CurrentClassOnly == step = "receiver" /\ Use.form.kind = "field"

BindBaseMethod ==
  /\ Resolving("fallback")
  /\ FoundMember(lookup, Wanted).kind = "Method"
  /\ UNCHANGED <<cursor, phase>>
  /\ Bind(Symbol("Function", [scope |-> DeclOf(lookup), id |-> FoundMember(lookup, Wanted).id],
                 NoClass))

NoBaseMethod ==
  /\ Resolving("fallback")
  /\ \/ FoundMember(lookup, Wanted).kind = "Field"
     \/ LookupFails(lookup, Wanted, CurrentClassOnly)
  /\ UNCHANGED <<cursor, phase>>
  /\ WalkOn

\* ResolveMethodCallMember, ResolveFieldAccessMember: the kind of the member.
CheckMember ==
  LET expected == IF Use.form.kind = "field" THEN "Field" ELSE "Method"
  IN  /\ Resolving("receiver")
      /\ \/ FoundMember(lookup, Wanted) # NoMember
         \/ LookupFails(lookup, Wanted, CurrentClassOnly)
      /\ UNCHANGED <<cursor, resolved, phase>>
      /\ IF FoundMember(lookup, Wanted).kind = expected THEN UNCHANGED errors
         ELSE AddError("unknown member", Use.scope, Use.ref.id, Wanted)
      /\ Advance

\* A further turn of LookupClassMember, at the base class.
LookInBase ==
  /\ phase = "resolve" /\ step \in {"fallback", "receiver"}
  /\ UNCHANGED programVars
  /\ LookupContinues(lookup, Wanted, CurrentClassOnly)
  /\ ~MeetsCycle(lookup)
  /\ lookup' = NextLookup(lookup)
  /\ UNCHANGED <<cursor, step, walk, proj, trail, resolved, errors, phase>>

\* The base class was visited: assert(false && "cyclic inheritance").
CyclicInheritance ==
  /\ phase = "resolve" /\ step \in {"fallback", "receiver"}
  /\ UNCHANGED programVars
  /\ LookupContinues(lookup, Wanted, CurrentClassOnly)
  /\ MeetsCycle(lookup)
  /\ Abort("assertion failed")

FinishResolve ==
  /\ Resolving("next")
  /\ cursor = Len(uses)
  /\ phase' = "done"
  /\ UNCHANGED <<resolverVars, errors>>

Resolve ==
  \/ BeginUse \/ LookInTable \/ Climb \/ CompareNumbers
  \/ BindBaseMethod \/ NoBaseMethod \/ CheckMember \/ LookInBase \/ CyclicInheritance
  \/ FinishResolve

Ends == {"done", "numerizer is incorrect", "assertion failed"}
Ended == phase \in Ends /\ UNCHANGED vars

BuildDeclaration == VisitDeclaration /\ UNCHANGED resolverVars
BuildStatement == VisitStatement /\ UNCHANGED resolverVars
BuildScopeEnd == VisitScopeEnd /\ UNCHANGED resolverVars

Next == BuildDeclaration \/ BuildStatement \/ BuildScopeEnd \/ Resolve \/ Ended

Spec == Init /\ [][Next]_vars
\* The resolver is one thread of control that never waits.
FairSpec == Spec /\ WF_vars(Resolve)
=============================================================================
