---------------------------- MODULE ResolverProps ----------------------------
(* What numbering, symbol tables and resolver promise together. *)
EXTENDS Resolver

\* A program declares finitely many classes.
ASSUME ClassesAssumption == IsFiniteSet(Classes)

-----------------------------------------------------------------------------
(* Types *)

Scopes == 1..Len(tables)
SymbolType ==
  [kind : SymbolKinds \cup {"None"}, scope : Nat, id : Nat, type : Classes \cup {NoClass}]
TableType ==
  [parent : Nat, owner : Owners, name : Names \cup Classes \cup {NoClass},
   symbols : [Names -> SymbolType]]
MemberType ==
  [kind : MemberKinds \cup {"None"}, id : Nat, type : Classes \cup {NoClass}]
UseType ==
  [form : UseForms, scope : Nat, ref : ScopedStmtRef, before : SUBSET Nat]

ErrorType ==
  [what : {"duplicate", "shadowing", "use before def", "not a function", "not a class object",
           "unknown class", "unknown member"},
   scope : Nat, id : Nat, name : Names]

NumTypeOK ==
  /\ anchors \in Seq(ScopedStmtRef)
  /\ anchorStack \in Seq(Nat)
  /\ nextIds \in Seq(Nat)
  /\ current \in ScopedStmtRef
  /\ saved \in Seq(ScopedStmtRef)

TableTypeOK ==
  /\ tables \in Seq(TableType)
  /\ scopeStack \in Seq(Nat)
  /\ errors \subseteq ErrorType

ClassTypeOK ==
  /\ classType \in [Classes -> [decl : Nat, base : Classes \cup {NoClass}]]
  /\ members \in Seq([Names -> MemberType])

BuilderTypeOK ==
  /\ phase \in {"visit", "resolve"} \cup Ends
  /\ statements \in Nat
  /\ elseTail \in BOOLEAN
  /\ uses \in Seq(UseType)
  /\ complete \subseteq (Nat \X (Names \cup Classes \cup {NoClass}))

ResolverTypeOK ==
  /\ cursor \in Nat
  /\ step \in Steps
  /\ walk \in Nat
  /\ proj \in ScopedStmtRef
  /\ lookup \in [class : Classes \cup {NoClass}, visited : SUBSET Classes]
  /\ trail \subseteq Nat
  /\ resolved \in Seq(SymbolType)

\* Every variable of the passes has its type.
TypeOK ==
  NumTypeOK /\ TableTypeOK /\ ClassTypeOK /\ BuilderTypeOK /\ ResolverTypeOK

-----------------------------------------------------------------------------
(* The tree of scopes *)

\* The numbering and the symbol table are built by two visits of the tree,
\* and the resolver uses the parents of the one to walk (GetParent) and the
\* anchors of the other to climb (ProjectUseToScope): they must be the same
\* tree, entered from the root outwards in, and both visits must stand in the
\* same scope.
ScopesAgree ==
  /\ Len(anchors) = Len(tables) /\ Len(members) = Len(tables)
  /\ scopeStack = anchorStack /\ Len(nextIds) = Len(scopeStack)
  /\ \A s \in Scopes : anchors[s].scope = tables[s].parent /\ tables[s].parent < s
  /\ \A i \in 1..Len(scopeStack) :
       /\ scopeStack[i] \in Scopes
       /\ tables[scopeStack[i]].parent = IF i = 1 THEN NoScope ELSE scopeStack[i - 1]

\* The projection of a use to the scope of a declaration its tables led to is
\* never nullopt: the resolver does not throw "statement numerizer is
\* incorrect for this program" (Resolver.cpp:155), whatever the program.
ProjectionNeverFails == phase # "numerizer is incorrect"

-----------------------------------------------------------------------------
(* What a use means, without numbers *)

\* The scopes around s, s included.
Enclosing ==
  LET chain[s \in 0..Len(tables)] ==
        IF s = NoScope THEN {} ELSE {s} \cup chain[tables[s].parent]
  IN  chain

\* The declaration of the name in scope s counts for the use: it was complete
\* when the use was met in the text, or it counts everywhere in its scope.
Counts(use, s) ==
  LET symbol == tables[s].symbols[use.form.name]
  IN  /\ symbol # NoSymbol
      /\ \/ s \in use.before
         \/ symbol.kind = "Function" /\ (s = Root \/ IsClassScope(s))
         \/ symbol.kind = "Variable" /\ IsClassScope(s)

\* The classes k steps up from c, as long as there are any.
Ancestor(c) ==
  LET up[k \in 0..Cardinality(Classes)] ==
        IF k = 0 THEN c
        ELSE IF up[k - 1] = NoClass THEN NoClass ELSE classType[up[k - 1]].base
  IN  up

\* The member n an object of class c has, of the nearest class that has one.
Inherited(c, n) ==
  LET has == {k \in 0..Cardinality(Classes) :
                /\ Ancestor(c)[k] # NoClass
                /\ classType[Ancestor(c)[k]].decl # 0
                /\ members[classType[Ancestor(c)[k]].decl][n] # NoMember}
      decl == classType[Ancestor(c)[Min(has)]].decl
  IN  IF has = {} \/ members[decl][n].kind # "Method" THEN NoSymbol
      ELSE Symbol("Function", [scope |-> decl, id |-> members[decl][n].id], NoClass)

\* What the use finds in scope s.
MeaningIn(use, s) ==
  IF Counts(use, s) THEN tables[s].symbols[use.form.name]
  ELSE IF IsClassScope(s) /\ use.form.kind = "call"
         THEN Inherited(tables[s].name, use.form.name)
         ELSE NoSymbol

\* The innermost scope that gives the use a meaning gives it its meaning.
Meaning(use) ==
  LET giving == {s \in Enclosing[use.scope] : MeaningIn(use, s) # NoSymbol}
  IN  IF giving = {} THEN NoSymbol ELSE MeaningIn(use, Max(giving))

\* What is reported of a use that has no meaning.
Unresolved(use) ==
  [what |-> "use before def", scope |-> use.scope, id |-> use.ref.id, name |-> use.form.name]

\* Every use the resolver has finished has the meaning of lexical scoping:
\* comparing statement numbers after the fact decides visibility exactly as
\* reading the program from the top would, across nested scopes, if chains
\* and bodies of unfinished functions; and "use before def" is reported for
\* the uses that have no meaning and for no others.
ResolutionIsLexical ==
  /\ \A i \in 1..Len(resolved) : resolved[i] = Meaning(uses[i])
  /\ {error \in errors : error.what = "use before def"} =
       {Unresolved(uses[i]) : i \in {j \in 1..Len(resolved) : resolved[j] = NoSymbol}}

-----------------------------------------------------------------------------
(* Shadowing *)

\* The statement of scope a inside which scope s stands.
StatementAround(s, a) ==
  LET around[t \in 0..Len(tables)] ==
        IF t = NoScope \/ tables[t].parent = a THEN (IF t = NoScope THEN 0 ELSE anchors[t].id)
        ELSE around[tables[t].parent]
  IN  around[s]

ShadowsFunction(s, a, n) ==
  /\ a \in Enclosing[s] \ {s}
  /\ tables[s].symbols[n] # NoSymbol
  /\ tables[a].symbols[n].kind = "Function"

\* A function is shadowed only by a declaration that precedes it: whatever
\* declares its name inside its scope after it, or in its own body, is
\* rejected (AddSymbolInfo), at whatever depth.
OnlyLaterFunctionsShadowed ==
  \A s, a \in Scopes, n \in Names :
    ShadowsFunction(s, a, n) => StatementAround(s, a) < tables[a].symbols[n].id

\* The symbol of a name in a scope is the one declared first and stays: the
\* resolver and the type checker keep pointers to it (GetSymbolInfoInLocalScope).
FirstDeclarationStays ==
  [][\A s \in Scopes, n \in Names :
       tables[s].symbols[n] # NoSymbol => tables'[s].symbols[n] = tables[s].symbols[n]]_vars

-----------------------------------------------------------------------------
(* The end *)

\* The resolver ends on every program, those whose classes inherit in a
\* circle included.
ResolverEnds == phase = "resolve" ~> phase \in Ends

\* assert(false && "cyclic inheritance") (ClassMemberLookup.cpp:65) claims that
\* no lookup meets a cycle of base classes.
NoCycleReachesLookup == phase # "assertion failed"
-----------------------------------------------------------------------------
(* The inductive invariant behind the safety properties above *)

\* Only the program has no scope around it, the name of a class scope is a
\* class, and a class_decl is a scope.
TreeInv ==
  /\ tables # <<>>
  /\ \A s \in Scopes : tables[s].parent = NoScope <=> s = Root
  /\ \A s \in Scopes : IsClassScope(s) => tables[s].name \in Classes
  /\ \A c \in Classes : classType[c].decl \in 0..Len(tables)

\* A symbol is in the table its declaration_ref names.
SymbolInv ==
  \A s \in Scopes, n \in Names :
    tables[s].symbols[n] # NoSymbol => tables[s].symbols[n].scope = s

\* While the program is visited: every scope entered has saved the statement
\* it was entered in, and the statement an else belongs to is current again.
VisitInv ==
  phase = "visit" =>
    /\ scopeStack # <<>> /\ Len(saved) + 1 = Len(scopeStack)
    /\ \A i \in 1..Len(saved) : saved[i].scope = scopeStack[i]
    /\ elseTail => current.scope = CurrentScope
    /\ step = "next" /\ cursor = 0

\* A use is numbered in the scope whose table it was registered with.
UseInv ==
  \A i \in 1..Len(uses) : uses[i].scope \in Scopes /\ uses[i].ref.scope = uses[i].scope

\* The tables looked at lead from the use outwards to the table in hand, and
\* the climb of ProjectUseToScope stays on that way.
WalkInv ==
  /\ cursor <= Len(uses)
  /\ step # "next" => cursor > 0
  /\ step \in {"fallback", "receiver"} => lookup.class \in Classes
  /\ step \in {"scope", "project", "fallback"} =>
       /\ walk \in trail /\ trail \subseteq Scopes
       /\ Use.scope \in trail
       /\ \A s \in trail : s = walk \/ tables[s].parent \in trail
  /\ step = "project" => proj.scope \in trail /\ SymbolHere # NoSymbol

IInv ==
  /\ TypeOK /\ ScopesAgree /\ TreeInv /\ SymbolInv /\ VisitInv /\ UseInv /\ WalkInv
  /\ ProjectionNeverFails

-----------------------------------------------------------------------------
(* The inductive invariant behind ResolutionIsLexical and                   *)
(* OnlyLaterFunctionsShadowed, on top of IInv                               *)

Declared(s, n) == tables[s].symbols[n] # NoSymbol
NumberOf(s, n) == tables[s].symbols[n].id

\* Statements are numbered from 1; what stands in an open scope has a number
\* the scope has given out, and the scope around it is at its last one.
NumbersInv ==
  /\ \A j \in 1..Len(nextIds) : nextIds[j] >= 1
  /\ \A s \in Scopes \ {Root} : anchors[s].id >= 1
  /\ \A i \in 1..Len(uses) : uses[i].ref.id >= 1
  /\ \A j \in 1..Len(scopeStack) :
       /\ \A s \in Scopes : tables[s].parent = scopeStack[j] => anchors[s].id < nextIds[j]
       /\ \A i \in 1..Len(uses) : uses[i].scope = scopeStack[j] => uses[i].ref.id < nextIds[j]
       /\ \A n \in Names : Declared(scopeStack[j], n) => NumberOf(scopeStack[j], n) < nextIds[j]
  /\ \A j \in 1..(Len(scopeStack) - 1) :
       saved[j].id = nextIds[j] - 1 /\ anchors[scopeStack[j + 1]].id = nextIds[j] - 1

\* The if an else belongs to is the last statement, and declares nothing.
ElseInv ==
  elseTail =>
    /\ current.id = Last(nextIds) - 1 /\ current.id >= 1
    /\ \A n \in Names : Declared(CurrentScope, n) => NumberOf(CurrentScope, n) < current.id

\* The name of the function whose body is scope t, in the scope around it.
IsBody(t, n) == tables[t].owner = "function" /\ tables[t].name = n

\* Declared, or never to be: a visible function forbids it.
Settled(s, n) == Declared(s, n) \/ IsIllegalShadowing(s, n)

\* A declaration behind us was taken into its table or refused for good; one
\* in a table is behind us unless it is a function whose body is open, and
\* in a scope around an open one exactly when its number says so.
CompleteInv ==
  /\ \A s \in Nat, n \in Names : <<s, n>> \in complete => s \in Scopes /\ Settled(s, n)
  /\ \A t \in Scopes : tables[t].owner = "function" => t # Root /\ tables[t].name \in Names
  /\ \A t, s \in Scopes, n \in Names : IsBody(t, n) /\ tables[t].parent = s => Settled(s, n)
  /\ \A s \in Scopes, n \in Names : Declared(s, n) /\ <<s, n>> \notin complete =>
       \E j \in 1..(Len(scopeStack) - 1) : scopeStack[j] = s /\ IsBody(scopeStack[j + 1], n)
  /\ \A j \in 1..(Len(scopeStack) - 1), n \in Names : Declared(scopeStack[j], n) =>
       /\ <<scopeStack[j], n>> \in complete <=> NumberOf(scopeStack[j], n) < nextIds[j] - 1
       /\ <<scopeStack[j], n>> \in complete \/ IsBody(scopeStack[j + 1], n)

\* Whether a declaration was behind a use when it was met is what its number
\* says at every scope around the use, where the use itself or the scope
\* that leads to it has the number to compare with.
BeforeInv ==
  \A i \in 1..Len(uses) :
    LET use == uses[i]
        n == use.form.name
    IN  /\ \A s \in use.before : <<s, n>> \in complete
        /\ Declared(use.scope, n) =>
             (use.scope \in use.before <=> NumberOf(use.scope, n) < use.ref.id)
        /\ \A t \in Enclosing[use.scope] \ {Root} :
             Declared(tables[t].parent, n) =>
               (tables[t].parent \in use.before <=> NumberOf(tables[t].parent, n) < anchors[t].id)

\* Who was never declared has no base.
BaseInv == \A c \in Classes : classType[c].decl = 0 => classType[c].base = NoClass

LexicalInv ==
  NumbersInv /\ ElseInv /\ CompleteInv /\ BeforeInv /\ BaseInv /\ OnlyLaterFunctionsShadowed

\* The lookup stands k steps up from the class c and has found nothing named n
\* on its way.
LookedUp(c, n, k) ==
  /\ k < Cardinality(Classes) /\ Cardinality(lookup.visited) = k + 1
  /\ lookup.class = Ancestor(c)[k] /\ lookup.class \in lookup.visited
  /\ \A j \in 0..(k - 1) :
       /\ Ancestor(c)[j] \in Classes
       /\ classType[Ancestor(c)[j]].decl # 0
       /\ members[classType[Ancestor(c)[j]].decl][n] = NoMember

\* The tables behind the walk gave the use no meaning, the climb is at a number
\* to compare with, and the lookup has gone from the class of the table up.
SearchInv ==
  /\ Len(resolved) = IF step \in {"next", "receiver"} THEN cursor ELSE cursor - 1
  /\ step \in {"scope", "project", "fallback"} =>
       /\ trail \cup Enclosing[walk] = Enclosing[Use.scope]
       /\ \A s \in trail \ {walk} : MeaningIn(Use, s) = NoSymbol
  /\ step = "project" =>
       /\ ~VisibleAnywhere(SymbolHere)
       /\ proj = Use.ref \/ \E t \in Enclosing[Use.scope] : proj = anchors[t]
  /\ step = "fallback" =>
       /\ IsClassScope(walk) /\ Use.form.kind = "call" /\ ~Counts(Use, walk)
       /\ \E k \in Nat : LookedUp(tables[walk].name, Use.form.name, k)

LInv == IInv /\ LexicalInv /\ SearchInv /\ ResolutionIsLexical
=============================================================================
