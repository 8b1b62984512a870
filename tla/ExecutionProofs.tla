--------------------------- MODULE ExecutionProofs ---------------------------
(***************************************************************************)
(* Proofs about the program on its way from the text to its output: what   *)
(* HasStorage asks of the definition a use resolves to comes to what       *)
(* EveryUseHasStorage says of the scopes of the two, compiled code reads   *)
(* what it has stored, the interpreter knows the names it meets, and both  *)
(* print the same, for every program.  SInv says why the first: every      *)
(* number is that of one statement (TextInv), what is resolved is what     *)
(* LexicalInv makes the meaning of the use, and nothing of the text        *)
(* changes afterwards (StageInv).  StackInv says why the second: a walk is *)
(* in blocks of statements it has just passed (PathInv), and what is       *)
(* declared in them behind it is stored (PassedIn).  InterpreterInv says   *)
(* why the third: its walk is such a walk too, and what it knows has been  *)
(* declared behind it (HasDeclared), so that it meets no declaration       *)
(* twice.  AgreeInv says why both print the same: the interpreter leaves a *)
(* run of states behind that compiled code passes through again, because   *)
(* none of these states is at a call, conditions stay as true as they      *)
(* were, and no statement is left out (FilledInv).                         *)
(***************************************************************************)
EXTENDS Execution, ResolverProofs

-----------------------------------------------------------------------------
(* The invariant of the text, on top of IInv and LexicalInv *)

\* Blocks are in functions, parameters are of functions, and a class_decl is a class.
OwnersInv ==
  /\ \A s \in Scopes : tables[s].owner = "program" <=> s = Root
  /\ \A s \in Scopes : tables[s].owner \in BlockOwners =>
       tables[tables[s].parent].owner \notin {"program", "class"}
  /\ \A s \in Scopes, n \in Names :
       /\ Declared(s, n) => tables[s].symbols[n].kind # "None"
       /\ tables[s].symbols[n].kind = "Parameter" => tables[s].owner = "function"
  /\ \A c \in Classes : classType[c].decl # 0 => IsClassScope(classType[c].decl)
  /\ elseTail => InStatementList

\* A number is that of one declaration, one function or class, one use, or of the blocks and
\* conditions of one if.
NumberedOnce ==
  /\ \A s \in Scopes, n \in Names : tables[s].symbols[n].kind = "Variable" =>
       /\ NumberOf(s, n) >= 1 /\ Anchored(s, NumberOf(s, n)) = {}
       /\ DeclaredAt(s, NumberOf(s, n)) = {n}
  /\ \A s \in Scopes, n \in Names : tables[s].symbols[n].kind = "Function" =>
       \E t \in Anchored(s, NumberOf(s, n)) : tables[t].owner = "function"
  /\ \A t, u \in Scopes \ {Root} :
       anchors[t] = anchors[u] /\ tables[t].owner \notin BlockOwners => t = u
  /\ \A i, j \in DOMAIN uses : uses[i].ref = uses[j].ref =>
       i = j \/ Anchored(uses[i].ref.scope, uses[i].ref.id) # {}
  /\ elseTail => \A t \in Anchored(current.scope, current.id) : tables[t].owner \in BlockOwners

\* No number is larger than the number of statements.
BoundedInv ==
  /\ \A j \in 1..Len(nextIds) : nextIds[j] <= statements + 1
  /\ \A s \in Scopes, n \in Names : NumberOf(s, n) <= statements

TextInv == OwnersInv /\ NumberedOnce /\ BoundedInv

\* The condition of a block is a use in the statement of the block.
ConditionsInv ==
  /\ conditionOf \in Seq(Nat) /\ Len(conditionOf) = Len(tables)
  /\ \A s \in Scopes : conditionOf[s] # 0 =>
       conditionOf[s] \in DOMAIN uses /\ uses[conditionOf[s]].ref = anchors[s]

\* A statement of that number is declared, opens scopes or is made of a use.
IsTaken(s, id) == DeclaredAt(s, id) # {} \/ Anchored(s, id) # {} \/ UsesAt(s, id) # {}

\* No number is left out, the bodies of functions are found under their names, and only the
\* blocks of ifs have conditions.
FilledInv ==
  /\ \A s \in Scopes, n \in Names :
       tables[s].symbols[n].kind = "Parameter" => NumberOf(s, n) = 0
  /\ \A t \in Scopes : tables[t].owner = "function" =>
       /\ tables[t].name \in Names
       /\ tables[tables[t].parent].symbols[tables[t].name].kind = "Function"
       /\ NumberOf(tables[t].parent, tables[t].name) = anchors[t].id
  /\ \A s \in Scopes : conditionOf[s] # 0 => tables[s].owner = "then"
  /\ \A s \in Scopes, m \in Nat : IsTaken(s, m) => \A id \in 1..m : IsTaken(s, id)
  /\ phase = "visit" => \A j \in 1..Len(nextIds) :
       \A id \in 1..(nextIds[j] - 1) : IsTaken(scopeStack[j], id)

\* What is built has been resolved as ResolveProgram does, and what is run has been accepted
\* by the lowering.
StageInv ==
  /\ phase \in {"visit", "resolve"}
  /\ stage # "build" =>
       phase = "resolve" /\ resolved = [i \in DOMAIN uses |-> Meaning(uses[i])]
  /\ stage \notin {"build", "end"} => IsAccepted
  /\ stage = "run" => \A i \in DOMAIN uses : IsLowered(i) => HasStorage(i)

\* Where a walk is in one list.
Place == [scope : Scopes, id : Nat \ {0}, passed : Nat]

\* The walk is in the body and in blocks, each of a statement of the list before it that it has
\* just passed, and no statement behind it ends in a return.
PathInv(body, at) ==
  /\ at \in Seq(Place) /\ at # <<>>
  /\ at[1].scope = body
  /\ \A k \in 1..(Len(at) - 1) :
       /\ at[k + 1].scope \in Anchored(at[k].scope, at[k].id - 1)
       /\ tables[at[k + 1].scope].owner \in BlockOwners
       /\ at[k].passed = 0
       /\ ~AfterReturn(anchors[at[k + 1].scope])
  /\ ~AfterReturn(Here(at))
  /\ Here(at).passed = 0 \/ Here(at).passed < Len(BlocksHere(at))

\* The variables declared in the lists the walk is in and behind it are stored.
PassedIn(at, stored) ==
  \A k \in 1..Len(at), n \in Names :
    tables[at[k].scope].symbols[n].kind = "Variable" /\ NumberOf(at[k].scope, n) < at[k].id
      => DefinitionIn(n, at[k].scope) \in DOMAIN stored

\* A function that runs is no method, and its parameters and what its walk has passed are in
\* its frame.
ActivationInv(activation) ==
  LET function == activation.function
      at == activation.at
      frame == activation.frame
  IN  /\ activation = [function |-> function, at |-> at, frame |-> frame]
      /\ function # NoScope =>
           /\ function \in Scopes /\ tables[function].owner = "function"
           /\ ~IsClassScope(tables[function].parent)
           /\ {d \in StorageOf(function) : d.kind = "Parameter"} \subseteq DOMAIN frame
           /\ PassedIn(at, frame)
      /\ PathInv(IF function = NoScope THEN Root ELSE function, at)

\* Only the first activation can be __global_init's; what it has passed, or all globals when
\* it has ended, are stored; those that are constants always.
StackOK(activations, stored) ==
  /\ activations \in Seq(Range(activations)) /\ activations # <<>>
  /\ DOMAIN GlobalConstants \subseteq DOMAIN stored
  /\ \A a \in 1..Len(activations) :
       ActivationInv(activations[a]) /\ (activations[a].function = NoScope => a = 1)
  /\ IF activations[1].function = NoScope THEN PassedIn(activations[1].at, stored)
     ELSE GlobalDeclarations \subseteq DOMAIN stored

StackInv ==
  stage = "run" =>
    \E activations \in {stack}, stored \in {globals} : StackOK(activations, stored)

\* What is declared in scope s by statement id, or stands in one of s, is behind the walk: in
\* the innermost list the walk has in common with s, its statement is a passed one.
Behind(at, s, id) ==
  \E k \in 1..Len(at) :
    /\ at[k].scope \in Enclosing[s]
    /\ k = Len(at) \/ at[k + 1].scope \notin Enclosing[s]
    /\ (IF s = at[k].scope THEN id ELSE StatementAround(s, at[k].scope)) \in 0..(at[k].id - 1)

\* The interpreter has declared d: a variable behind it, or a global when it is in main.
HasDeclared(body, at, d) ==
  \E s \in Scopes, n \in Names :
    /\ d = DefinitionIn(n, s) /\ tables[s].symbols[n].kind = "Variable"
    /\ body = Root => s = Root
    /\ Behind(at, s, NumberOf(s, n)) \/ (s = Root /\ body # Root)

\* The interpreter is in the program or in main, and knows what it has passed and nothing else.
InterpreterOK(at, known) ==
  LET body == at[1].scope
  IN  /\ body = Root \/ body \in Mains
      /\ PathInv(body, at) /\ PassedIn(at, known)
      /\ body # Root => GlobalDeclarations \subseteq DOMAIN known
      /\ \A d \in DOMAIN known : HasDeclared(body, at, d)

InterpreterInv ==
  /\ exception # "already declared"
  /\ stage = "build" => variables = <<>>
  /\ stage # "interpret" => interpreted = <<>>
  /\ stage = "interpret" =>
       \E at \in {interpreted}, known \in {variables} : InterpreterOK(at, known)

-----------------------------------------------------------------------------
(* The text of a program: one visit *)

\* tabs are the tables with at most one more symbol, n of that kind and number in the current
\* scope.
AddsKind(tabs, n, kind, number) ==
  \A s \in Scopes, m \in Names :
    \/ tabs[s].symbols[m] = tables[s].symbols[m]
    \/ /\ s = CurrentScope /\ m = n /\ ~Declared(s, m)
       /\ tabs[s].symbols[m].kind = kind /\ tabs[s].symbols[m].id = number

\* What AddSymbolInfo adds.
LEMMA AddedKind ==
  ASSUME IInv, phase = "visit", NEW n \in Names, NEW kind, NEW ref, NEW type
  PROVE  AddsKind(TablesAfterAdd(CurrentScope, n, Symbol(kind, ref, type)), n, kind, ref.id)
<1> DEFINE symbol == Symbol(kind, ref, type)
           c == CurrentScope
           tabs == TablesAfterAdd(c, n, symbol)
           row == [tables[c] EXCEPT !.symbols[n] = symbol]
           more == [tables EXCEPT ![c] = row]
<1>1. c \in Scopes /\ TableTypeOK
  BY StackFacts, Visiting DEF Scopes
<1>2. symbol.kind = kind /\ symbol.id = ref.id
  BY DEF Symbol
<1>3. tables[c] \in TableType /\ c \in DOMAIN tables
  BY <1>1, ElementOfSeq DEF Scopes, TableTypeOK
<1> HIDE DEF symbol, c
<1>4. row.symbols[n] = symbol /\ \A m \in Names : m # n => row.symbols[m] = tables[c].symbols[m]
  BY <1>3 DEF TableType
<1>5. more[c] = row /\ \A s \in Scopes : s # c => more[s] = tables[s]
  <2> HIDE DEF row
  <2>1. QED BY <1>3 DEF Scopes
<1>6. [tables EXCEPT ![c].symbols[n] = symbol] = more
  OBVIOUS
<1> HIDE DEF row, more
<1>7. CASE IsDuplicate(c, n) \/ IsIllegalShadowing(c, n)
  <2>1. tabs = tables
    BY <1>7 DEF TablesAfterAdd
  <2>2. QED BY <2>1 DEF AddsKind, symbol, c
<1>8. CASE ~(IsDuplicate(c, n) \/ IsIllegalShadowing(c, n))
  <2>1. tabs = more
    BY <1>6, <1>8 DEF TablesAfterAdd
  <2>2. AddsKind(more, n, kind, ref.id)
    <3> SUFFICES ASSUME NEW s \in Scopes, NEW m \in Names
                 PROVE  \/ more[s].symbols[m] = tables[s].symbols[m]
                        \/ /\ s = c /\ m = n /\ ~Declared(s, m)
                           /\ more[s].symbols[m].kind = kind /\ more[s].symbols[m].id = ref.id
      BY DEF AddsKind, c
    <3>1. CASE s = c /\ m = n
      BY <3>1, <1>2, <1>4, <1>5, <1>8 DEF IsDuplicate, Declared
    <3>2. CASE s = c /\ m # n
      BY <3>2, <1>4, <1>5
    <3>3. CASE s # c
      BY <3>3, <1>5
    <3>4. QED BY <3>1, <3>2, <3>3
  <2>3. QED BY <2>1, <2>2 DEF symbol, c
<1>9. QED BY <1>7, <1>8

\* Nothing has the number of the next statement.
LEMMA NextIsFresh ==
  ASSUME IInv, phase = "visit", LexicalInv
  PROVE  /\ Anchored(CurrentScope, NextStmtRef.id) = {}
         /\ \A i \in DOMAIN uses : uses[i].ref # NextStmtRef
<1> DEFINE d == Len(scopeStack)
<1>1. /\ d \in Nat \ {0} /\ CurrentScope = scopeStack[d] /\ CurrentScope \in Scopes
      /\ Last(nextIds) = nextIds[d] /\ Tree /\ AnchorsTyped /\ nextIds[d] \in Nat
  <2>1. d \in Nat \ {0} /\ d \in 1..d
    BY StackFacts
  <2>2. QED BY <2>1, StackFacts
<1>2. NextStmtRef.id = nextIds[d] /\ NextStmtRef.scope = CurrentScope
  BY <1>1, NextPosition DEF Position
<1>3. \A s \in Scopes : tables[s].parent = CurrentScope => anchors[s].id < nextIds[d]
  <2>1. d \in 1..Len(scopeStack)
    BY <1>1
  <2> HIDE DEF d
  <2>2. QED BY <1>1, <2>1 DEF LexicalInv, NumbersInv
<1>4. \A i \in 1..Len(uses) : uses[i].scope = CurrentScope => uses[i].ref.id < nextIds[d]
  <2>1. d \in 1..Len(scopeStack)
    BY <1>1
  <2> HIDE DEF d
  <2>2. QED BY <1>1, <2>1 DEF LexicalInv, NumbersInv
<1>5. ASSUME NEW s \in Anchored(CurrentScope, NextStmtRef.id) PROVE FALSE
  <2>1. s \in Scopes /\ anchors[s].scope = CurrentScope /\ anchors[s].id = nextIds[d]
    BY <1>2, <1>5 DEF Anchored
  <2>2. tables[s].parent = CurrentScope /\ anchors[s].id \in Nat
    BY <1>1, <2>1 DEF IInv, ScopesAgree, AnchorsTyped
  <2> HIDE DEF d
  <2>3. QED BY <1>1, <1>3, <2>1, <2>2
<1>6. ASSUME NEW i \in DOMAIN uses, uses[i].ref = NextStmtRef PROVE FALSE
  <2>1. uses \in Seq(UseType) /\ i \in 1..Len(uses) /\ uses[i] \in UseType
    BY ElementOfSeq DEF IInv, TypeOK, BuilderTypeOK
  <2>2. uses[i].scope = CurrentScope /\ uses[i].ref.id = nextIds[d]
    BY <1>2, <1>6, <2>1 DEF IInv, UseInv
  <2> HIDE DEF d
  <2>3. QED BY <1>1, <1>4, <2>1, <2>2
<1>7. QED BY <1>5, <1>6

\* A visit at statement ref of the current scope, a new one or, of else branches, that of
\* their if: it adds at most the declaration of n, one use and one scope.
IsNew(ref) ==
  /\ Anchored(CurrentScope, ref.id) = {}
  /\ \A i \in DOMAIN uses : uses[i].ref # ref
JoinsIf(ref) ==
  /\ \A t \in Anchored(CurrentScope, ref.id) : tables[t].owner \in BlockOwners
  /\ Scopes' # Scopes /\ \A t \in Scopes' \ Scopes : tables'[t].owner \in BlockOwners
  /\ \A s \in Scopes, m \in Names : tables'[s].symbols[m] = tables[s].symbols[m]
Visits(ref, n) ==
  /\ ref \in ScopedStmtRef /\ ref.scope = CurrentScope /\ ref.id >= 1 /\ CurrentScope \in Scopes
  /\ \A m \in Names : Declared(CurrentScope, m) => NumberOf(CurrentScope, m) < ref.id
  /\ IsNew(ref) \/ JoinsIf(ref)
  /\ Scopes \subseteq Scopes'
  /\ \A s \in Scopes : /\ tables'[s].owner = tables[s].owner
                       /\ tables'[s].parent = tables[s].parent /\ anchors'[s] = anchors[s]
  /\ \A s \in Scopes' \ Scopes :
       /\ anchors'[s] = ref /\ tables'[s].parent = CurrentScope /\ s # Root
       /\ \A m \in Names : tables'[s].symbols[m] = NoSymbol
  /\ \A s, t \in Scopes' \ Scopes : s = t
  /\ \A s \in Scopes, m \in Names :
       \/ tables'[s].symbols[m] = tables[s].symbols[m]
       \/ /\ s = CurrentScope /\ m = n /\ ~Declared(s, m)
          /\ \/ /\ tables'[s].symbols[m].kind = "Variable" /\ Scopes' = Scopes
                /\ tables'[s].symbols[m].id = ref.id
             \/ /\ tables'[s].symbols[m].kind = "Function" /\ tables'[s].symbols[m].id = ref.id
                /\ \E t \in Scopes' \ Scopes : tables'[t].owner = "function"
             \/ /\ tables'[s].symbols[m].kind = "Parameter" /\ tables'[s].symbols[m].id = 0
                /\ tables[s].owner = "function" /\ Scopes' = Scopes
  /\ DOMAIN uses \subseteq DOMAIN uses' /\ \A i \in DOMAIN uses : uses'[i] = uses[i]
  /\ \A i \in DOMAIN uses' \ DOMAIN uses : uses'[i].ref = ref
  /\ \A i, j \in DOMAIN uses' \ DOMAIN uses : i = j
  /\ ~elseTail'

\* What is anchored after a visit.
LEMMA AnchoredAfter ==
  ASSUME NEW ref, NEW n, Visits(ref, n), \A s \in Scopes : anchors[s] \in ScopedStmtRef
  PROVE  /\ \A s, id : ~(s = CurrentScope /\ id = ref.id) => Anchored(s, id)' = Anchored(s, id)
         /\ \A s, id : s = CurrentScope /\ id = ref.id =>
              Anchored(s, id)' = Anchored(s, id) \cup (Scopes' \ Scopes)
<1>1. \A s, id : Anchored(s, id)' =
        {t \in Scopes' \ {Root} : anchors'[t] = [scope |-> s, id |-> id]}
  BY DEF Anchored
<1>2. ref = [scope |-> CurrentScope, id |-> ref.id]
  BY DEF Visits, ScopedStmtRef
<1>3. \A s, id : [scope |-> s, id |-> id] = ref <=> s = CurrentScope /\ id = ref.id
  BY <1>2
<1>4. ASSUME NEW s, NEW id
      PROVE  \A t \in Scopes' \ {Root} : anchors'[t] = [scope |-> s, id |-> id] <=>
               t \in Anchored(s, id) \/ (t \notin Scopes /\ s = CurrentScope /\ id = ref.id)
  BY <1>3 DEF Visits, Anchored
<1>5. \A s, id : Anchored(s, id) \subseteq Scopes' \ {Root}
  BY DEF Anchored, Visits
<1>6. \A s, id : ~(s = CurrentScope /\ id = ref.id) => Anchored(s, id)' = Anchored(s, id)
  BY <1>1, <1>4, <1>5
<1>7. \A t \in Scopes' \ Scopes : t \in Scopes' \ {Root}
  BY DEF Visits
<1>8. ASSUME NEW s, NEW id, s = CurrentScope, id = ref.id
      PROVE  Anchored(s, id)' = Anchored(s, id) \cup (Scopes' \ Scopes)
  <2>1. \A t \in Scopes' \ {Root} : anchors'[t] = [scope |-> s, id |-> id] <=>
          t \in Anchored(s, id) \/ t \notin Scopes
    BY <1>4, <1>8
  <2>2. QED BY <1>1, <1>5, <1>7, <2>1
<1>9. QED BY <1>6, <1>8

\* Numbers stay those of one statement each.
LEMMA VisitKeepsNumbers ==
  ASSUME IInv, LexicalInv, TextInv, NEW ref, NEW n, Visits(ref, n)
  PROVE  NumberedOnce'
<1> DEFINE c == CurrentScope
           Kind(s, m) == tables[s].symbols[m].kind
           New == Scopes' \ Scopes
           After(s, id) == {t \in Scopes' \ {Root} : anchors'[t] = [scope |-> s, id |-> id]}
           DeclaredAfter(s, id) == {k \in Names : /\ tables'[s].symbols[k].kind = "Variable"
                                                 /\ tables'[s].symbols[k].id = id}
<1>1. /\ c \in Scopes /\ Scopes \subseteq Scopes' /\ ref.scope = c /\ ref.id \in Nat /\ ref.id >= 1
      /\ \A s \in Scopes : anchors[s] \in ScopedStmtRef
      /\ \A s, m : NoSymbol # tables[s].symbols[m] <=> Declared(s, m)
  BY TreeOf DEF Visits, IInv, ScopedStmtRef, Declared
<1>2. /\ \A s, id : ~(s = c /\ id = ref.id) => After(s, id) = Anchored(s, id)
      /\ \A s, id : s = c /\ id = ref.id => After(s, id) = Anchored(s, id) \cup New
  <2>1. \A s, id : Anchored(s, id)' = After(s, id)
    BY DEF Anchored
  <2>2. QED BY <1>1, <2>1, AnchoredAfter
<1> HIDE DEF After, DeclaredAfter
<1>3. \A s, m : /\ NumberOf(s, m)' = tables'[s].symbols[m].id
               /\ NumberOf(s, m) = tables[s].symbols[m].id
  BY DEF NumberOf
<1>4. \A s \in Scopes, m \in Names : Declared(s, m) => tables'[s].symbols[m] = tables[s].symbols[m]
  BY DEF Visits
<1>5. \A s \in Scopes, m \in Names : Kind(s, m) # "None" => Declared(s, m)
  BY DEF Declared, NoSymbol
<1>6. \A s \in Scopes', m \in Names : tables'[s].symbols[m].kind # "None" =>
        /\ s \in Scopes
        /\ \/ tables'[s].symbols[m] = tables[s].symbols[m] /\ Declared(s, m)
           \/ s = c /\ m = n /\ ~Declared(s, m)
  <2>1. \A s \in Scopes', m \in Names : s \notin Scopes => tables'[s].symbols[m].kind = "None"
    BY DEF Visits, NoSymbol
  <2>2. QED BY <1>5, <2>1 DEF Visits
<1>7. ASSUME NEW m \in Names, tables'[c].symbols[m].kind \in {"Variable", "Function"},
             ~Declared(c, m)
      PROVE  tables'[c].symbols[m].id = ref.id /\ m = n /\ IsNew(ref)
  <2>1. tables'[c].symbols[m] # tables[c].symbols[m]
    BY <1>1, <1>5, <1>7
  <2>2. tables'[c].symbols[m].id = ref.id /\ m = n
    BY <1>1, <1>7, <2>1 DEF Visits
  <2>3. IsNew(ref)
    BY <1>1, <2>1 DEF Visits, JoinsIf
  <2>4. QED BY <2>2, <2>3
<1>8. \A m \in Names : Declared(c, m) => tables'[c].symbols[m].id # ref.id
  <2>1. \A m \in Names : Declared(c, m) => tables[c].symbols[m].id < ref.id
    BY <1>1 DEF Visits, NumberOf
  <2>2. QED BY <1>1, <1>4, <2>1
\* Declarations.
<1>9. ASSUME NEW s \in Scopes', NEW m \in Names, tables'[s].symbols[m].kind = "Variable"
      PROVE  /\ tables'[s].symbols[m].id >= 1 /\ After(s, tables'[s].symbols[m].id) = {}
             /\ \A k \in Names : tables'[s].symbols[k].kind = "Variable"
                                  /\ tables'[s].symbols[k].id = tables'[s].symbols[m].id => k = m
  <2>1. CASE Declared(s, m)
    <3>1. s \in Scopes /\ tables'[s].symbols[m] = tables[s].symbols[m]
      BY <1>4, <1>6, <1>9, <2>1
    <3>2. /\ NumberOf(s, m) >= 1 /\ Anchored(s, NumberOf(s, m)) = {}
          /\ DeclaredAt(s, NumberOf(s, m)) = {m}
      BY <1>9, <3>1 DEF TextInv, NumberedOnce
    <3>3. ~(s = c /\ NumberOf(s, m) = ref.id)
      BY <1>3, <1>8, <2>1, <3>1
    <3>4. After(s, tables'[s].symbols[m].id) = {}
      BY <1>2, <1>3, <3>1, <3>2, <3>3
    <3>5. ASSUME NEW k \in Names, tables'[s].symbols[k].kind = "Variable",
                 tables'[s].symbols[k].id = tables'[s].symbols[m].id
          PROVE  k = m
      <4>1. Declared(s, k)
        BY <1>3, <1>6, <1>7, <3>1, <3>3, <3>5
      <4>2. tables'[s].symbols[k] = tables[s].symbols[k]
        BY <1>4, <3>1, <4>1
      <4>3. k \in DeclaredAt(s, NumberOf(s, m))
        BY <1>3, <3>1, <3>5, <4>2 DEF DeclaredAt
      <4>4. QED BY <3>2, <4>3
    <3>6. QED BY <1>3, <3>1, <3>2, <3>4, <3>5
  <2>2. CASE ~Declared(s, m)
    <3>1. s = c /\ m = n /\ tables'[s].symbols[m].id = ref.id /\ IsNew(ref)
      <4>1. s = c
        BY <1>6, <1>9, <2>2
      <4>2. QED BY <1>7, <1>9, <2>2, <4>1
    <3>2. Scopes' = Scopes
      <4>1. tables'[s].symbols[m] # tables[s].symbols[m]
        BY <1>1, <1>5, <1>9, <2>2, <3>1
      <4>2. QED BY <1>1, <1>9, <3>1, <4>1 DEF Visits
    <3>3. After(s, tables'[s].symbols[m].id) = {}
      BY <1>2, <3>1, <3>2 DEF IsNew
    <3>4. \A k \in Names : tables'[s].symbols[k].kind = "Variable"
                            /\ tables'[s].symbols[k].id = tables'[s].symbols[m].id => k = m
      BY <1>7, <1>8, <3>1
    <3>5. QED BY <1>1, <3>1, <3>3, <3>4
  <2>3. QED BY <2>1, <2>2
<1>10. ASSUME NEW s \in Scopes', NEW m \in Names, tables'[s].symbols[m].kind = "Variable"
       PROVE  DeclaredAt(s, NumberOf(s, m))' = {m}
  <2>1. DeclaredAt(s, NumberOf(s, m))' = DeclaredAfter(s, tables'[s].symbols[m].id)
    BY DEF DeclaredAt, NumberOf, DeclaredAfter
  <2>2. DeclaredAfter(s, tables'[s].symbols[m].id) = {m}
    BY <1>9, <1>10 DEF DeclaredAfter
  <2>3. QED BY <2>1, <2>2
\* Functions.
<1>11. ASSUME NEW s \in Scopes', NEW m \in Names, tables'[s].symbols[m].kind = "Function"
       PROVE  \E t \in After(s, tables'[s].symbols[m].id) : tables'[t].owner = "function"
  <2>1. CASE Declared(s, m)
    <3>1. s \in Scopes /\ tables'[s].symbols[m] = tables[s].symbols[m]
      BY <1>4, <1>6, <1>11, <2>1
    <3>2. PICK t \in Anchored(s, NumberOf(s, m)) : tables[t].owner = "function"
      BY <1>11, <3>1 DEF TextInv, NumberedOnce
    <3>3. ~(s = c /\ NumberOf(s, m) = ref.id)
      BY <1>3, <1>8, <2>1, <3>1
    <3>4. t \in Scopes
      BY DEF Anchored
    <3>5. t \in After(s, tables'[s].symbols[m].id)
      BY <1>2, <1>3, <3>1, <3>2, <3>3
    <3>6. QED BY <3>2, <3>4, <3>5 DEF Visits
  <2>2. CASE ~Declared(s, m)
    <3>1. s = c
      BY <1>6, <1>11, <2>2
    <3>2. tables'[s].symbols[m].id = ref.id
      BY <1>7, <1>11, <2>2, <3>1
    <3>3. tables'[s].symbols[m] # tables[s].symbols[m]
      BY <1>1, <1>5, <1>11, <2>2, <3>1
    <3>4. \E t \in New : tables'[t].owner = "function"
      BY <1>1, <1>11, <3>1, <3>3 DEF Visits
    <3>5. New \subseteq After(s, tables'[s].symbols[m].id)
      BY <1>2, <3>1, <3>2
    <3> HIDE DEF New
    <3>6. QED BY <3>4, <3>5
  <2>3. QED BY <2>1, <2>2
<1>12. ASSUME NEW s \in Scopes', NEW m \in Names, tables'[s].symbols[m].kind = "Function"
       PROVE  \E t \in Anchored(s, NumberOf(s, m))' : tables'[t].owner = "function"
  <2>1. Anchored(s, NumberOf(s, m))' = After(s, tables'[s].symbols[m].id)
    BY DEF NumberOf, Anchored, After
  <2>2. QED BY <1>11, <1>12, <2>1
\* Scopes.
<1>13. ASSUME NEW t \in Scopes' \ {Root}, NEW u \in Scopes' \ {Root}, anchors'[t] = anchors'[u],
              tables'[t].owner \notin BlockOwners
       PROVE  t = u
  <2>1. CASE t \in Scopes /\ u \in Scopes
    BY <1>13, <2>1 DEF Visits, TextInv, NumberedOnce
  <2>2. CASE t \notin Scopes /\ u \notin Scopes
    BY <1>13, <2>2 DEF Visits
  <2>3. ASSUME NEW x \in Scopes \ {Root}, NEW y \in New, anchors'[x] = anchors'[y]
        PROVE  tables'[x].owner \in BlockOwners /\ tables'[y].owner \in BlockOwners
    <3>1. anchors[x] = ref
      BY <2>3 DEF Visits
    <3>2. ref = [scope |-> c, id |-> ref.id]
      BY <1>1 DEF Visits, ScopedStmtRef
    <3>3. x \in Anchored(c, ref.id)
      BY <2>3, <3>1, <3>2 DEF Anchored
    <3>4. JoinsIf(ref)
      BY <3>3 DEF Visits, IsNew
    <3>5. QED BY <2>3, <3>3, <3>4 DEF JoinsIf, Visits
  <2>4. QED BY <1>13, <2>1, <2>2, <2>3
\* Uses.
<1>14. ASSUME NEW i \in DOMAIN uses', NEW j \in DOMAIN uses', uses'[i].ref = uses'[j].ref, i # j
       PROVE  After(uses'[i].ref.scope, uses'[i].ref.id) # {}
  <2>1. CASE i \in DOMAIN uses /\ j \in DOMAIN uses
    <3>1. uses'[i] = uses[i] /\ uses'[j] = uses[j]
      BY <2>1 DEF Visits
    <3>2. Anchored(uses[i].ref.scope, uses[i].ref.id) # {}
      BY <1>14, <2>1, <3>1 DEF TextInv, NumberedOnce
    <3> DEFINE r == uses[i].ref
    <3>3. Anchored(r.scope, r.id) # {} /\ r = uses'[i].ref
      BY <3>1, <3>2
    <3> HIDE DEF r
    <3>4. Anchored(r.scope, r.id) \subseteq After(r.scope, r.id)
      BY <1>2
    <3>5. QED BY <3>1, <3>2, <3>3, <3>4
  <2>2. CASE i \notin DOMAIN uses \/ j \notin DOMAIN uses
    <3>1. uses'[i].ref = ref
      BY <1>14, <2>2 DEF Visits
    <3>2. i \in DOMAIN uses \/ j \in DOMAIN uses
      BY <1>14, <2>2 DEF Visits
    <3>3. ~IsNew(ref)
      <4>1. \A k \in DOMAIN uses : uses'[k] = uses[k]
        BY DEF Visits
      <4>2. \E k \in DOMAIN uses : uses[k].ref = ref
        BY <1>14, <3>1, <3>2, <4>1
      <4>3. QED BY <4>2 DEF IsNew
    <3>4. New # {}
      BY <3>3 DEF Visits, JoinsIf
    <3>5. QED BY <1>1, <1>2, <3>1, <3>4
  <2>3. QED BY <2>1, <2>2
<1>15. /\ \A s \in Scopes', m \in Names : tables'[s].symbols[m].kind = "Variable" =>
            NumberOf(s, m)' >= 1 /\ Anchored(s, NumberOf(s, m))' = {}
       /\ ~elseTail'
  <2>1. \A s, m : /\ Anchored(s, NumberOf(s, m))' = After(s, tables'[s].symbols[m].id)
                  /\ NumberOf(s, m)' = tables'[s].symbols[m].id
    BY DEF NumberOf, Anchored, After
  <2>2. ~elseTail'
    BY DEF Visits
  <2>3. QED BY <1>9, <2>1, <2>2
<1>17. \A i \in DOMAIN uses' :
         Anchored(uses[i].ref.scope, uses[i].ref.id)' = After(uses'[i].ref.scope, uses'[i].ref.id)
  BY DEF Anchored, After
<1>16. QED BY <1>10, <1>12, <1>13, <1>14, <1>15, <1>17 DEF NumberedOnce

\* Blocks stay in functions.
LEMMA VisitKeepsOwners ==
  ASSUME IInv, IInv', TextInv, NEW ref, NEW n, Visits(ref, n), UNCHANGED classType,
         \A t \in Scopes' \ Scopes : tables'[t].owner # "program",
         (\E t \in Scopes' \ Scopes : tables'[t].owner \in BlockOwners) => InStatementList
  PROVE  OwnersInv'
<1>1. /\ \A s \in Scopes : tables[s].owner = "program" <=> s = Root
      /\ \A s \in Scopes : tables[s].owner \in BlockOwners =>
           tables[tables[s].parent].owner \notin {"program", "class"}
      /\ \A s \in Scopes, m \in Names :
           /\ Declared(s, m) => tables[s].symbols[m].kind # "None"
           /\ tables[s].symbols[m].kind = "Parameter" => tables[s].owner = "function"
      /\ \A c \in Classes : classType[c].decl # 0 => IsClassScope(classType[c].decl)
  BY DEF TextInv, OwnersInv
<1>2. \A s \in Scopes' : tables'[s].owner = "program" <=> s = Root
  BY <1>1 DEF Visits
<1>3. \A s \in Scopes \ {Root} : tables[s].parent \in Scopes
  BY TreeOfInv, EnclosingFacts
<1>4. Root \in Scopes /\ "program" \notin BlockOwners
  BY TreeOfInv, <1>1 DEF Visits, Tree, Scopes, Root, BlockOwners
<1>5. ASSUME NEW s \in Scopes', tables'[s].owner \in BlockOwners
      PROVE  tables'[tables'[s].parent].owner \notin {"program", "class"}
  <2>1. CASE s \in Scopes
    <3>1. s # Root
      BY <1>2, <1>4, <1>5
    <3>2. tables'[s].parent = tables[s].parent /\ tables[s].parent \in Scopes
          /\ tables'[s].owner = tables[s].owner
          /\ tables'[tables[s].parent].owner = tables[tables[s].parent].owner
      BY <1>3, <2>1, <3>1 DEF Visits
    <3>3. QED BY <1>1, <1>5, <2>1, <3>2
  <2>2. CASE s \notin Scopes
    <3>1. tables'[s].parent = CurrentScope /\ CurrentScope \in Scopes
      BY <2>2 DEF Visits
    <3>2. InStatementList
      BY <1>5, <2>2
    <3>3. tables'[CurrentScope].owner = tables[CurrentScope].owner
      BY <3>1 DEF Visits
    <3>4. QED BY <3>1, <3>2, <3>3 DEF InStatementList, Owner
  <2>3. QED BY <2>1, <2>2
<1>6. ASSUME NEW s \in Scopes', NEW m \in Names, tables'[s].symbols[m].kind = "Parameter"
      PROVE  tables'[s].owner = "function"
  <2>1. s \in Scopes
    BY <1>6 DEF Visits, NoSymbol
  <2>2. QED BY <1>1, <1>6, <2>1 DEF Visits
<1>7. ASSUME NEW c \in Classes, classType'[c].decl # 0
      PROVE  tables'[classType'[c].decl].owner = "class"
  <2>1. classType[c].decl \in Scopes
    BY <1>7 DEF IInv, TreeInv, Scopes
  <2>2. QED BY <1>1, <1>7, <2>1 DEF Visits, IsClassScope
<1>8. ~elseTail'
  BY DEF Visits
<1>10. ASSUME NEW s \in Scopes', NEW m \in Names, tables'[s].symbols[m] # NoSymbol
       PROVE  tables'[s].symbols[m].kind # "None"
  <2>1. s \in Scopes
    BY <1>10 DEF Visits
  <2>2. \/ tables'[s].symbols[m] = tables[s].symbols[m]
        \/ tables'[s].symbols[m].kind \in {"Variable", "Function", "Parameter"}
    BY <2>1 DEF Visits
  <2>3. QED BY <1>1, <1>10, <2>1, <2>2 DEF Declared
<1>9. QED BY <1>2, <1>5, <1>6, <1>7, <1>8, <1>10 DEF OwnersInv, IsClassScope, Declared, NoSymbol

\* Anchors are references to statements.
LEMMA AnchorRefs == IInv => \A s \in Scopes : anchors[s] \in ScopedStmtRef
  BY TreeOf DEF IInv

\* AnchorRefs of the next state.
LEMMA AnchorRefsNext == (IInv => \A s \in Scopes : anchors[s] \in ScopedStmtRef)'
  BY AnchorRefs, PTL

\* The uses after a visit of an expression.
LEMMA UsesVisited ==
  ASSUME IInv, phase = "visit", NEW e \in Expressions, NEW ref, VisitExpression(e, ref)
  PROVE  /\ DOMAIN uses \subseteq DOMAIN uses' /\ \A i \in DOMAIN uses : uses'[i] = uses[i]
         /\ \A i \in DOMAIN uses' \ DOMAIN uses : uses'[i].ref = ref
         /\ \A i, j \in DOMAIN uses' \ DOMAIN uses : i = j
         /\ Len(uses') \in {Len(uses), Len(uses) + 1} /\ DOMAIN uses' = 1..Len(uses')
         /\ Len(uses') > Len(uses) => uses'[Len(uses')].ref = ref
<1>1. uses \in Seq(UseType) /\ Len(uses) \in Nat /\ DOMAIN uses = 1..Len(uses)
  BY Visiting
<1>2. CASE e = NoUse
  <2>1. uses' = uses
    BY <1>2 DEF VisitExpression
  <2>2. QED BY <1>1, <2>1
<1>3. CASE e # NoUse
  <2> DEFINE use == [form |-> e, scope |-> CurrentScope, ref |-> ref,
                     before |-> {s \in 1..Len(tables) : <<s, e.name>> \in complete}]
  <2>1. uses' = Append(uses, use)
    BY <1>3 DEF VisitExpression
  <2>2. use.ref = ref
    OBVIOUS
  <2> HIDE DEF use
  <2>3. /\ Len(uses') = Len(uses) + 1 /\ DOMAIN uses' = 1..(Len(uses) + 1)
        /\ \A i \in 1..Len(uses) : uses'[i] = uses[i]
        /\ uses'[Len(uses) + 1] = use
    BY <1>1, <2>1
  <2>4. \A i \in DOMAIN uses' \ DOMAIN uses : i = Len(uses) + 1
    BY <1>1, <2>3
  <2>5. QED BY <1>1, <2>2, <2>3, <2>4
<1>4. QED BY <1>2, <1>3

\* A statement that opens no scope.
LEMMA LeafVisits ==
  ASSUME IInv, LexicalInv, phase = "visit", NEW n, NEW e \in Expressions,
         VisitExpression(e, NextStmtRef), AcquireStatement, ~elseTail',
         SameTree(tables'), AddsKind(tables', n, "Variable", NextStmtRef.id)
  PROVE  Visits(NextStmtRef, n)
<1>1. /\ NextStmtRef \in ScopedStmtRef /\ NextStmtRef.scope = CurrentScope /\ NextStmtRef.id >= 1
      /\ CurrentScope \in Scopes
      /\ \A m \in Names : Declared(CurrentScope, m) => NumberOf(CurrentScope, m) < NextStmtRef.id
  BY NextPosition, StackFacts DEF Position
<1>2. IsNew(NextStmtRef)
  BY NextIsFresh DEF IsNew
<1>3. /\ Scopes' = Scopes
      /\ \A s \in Scopes : /\ tables'[s].owner = tables[s].owner
                           /\ tables'[s].parent = tables[s].parent /\ anchors'[s] = anchors[s]
  BY DEF SameTree, AcquireStatement, Scopes
<1>4. \A s \in Scopes, m \in Names :
        \/ tables'[s].symbols[m] = tables[s].symbols[m]
        \/ /\ s = CurrentScope /\ m = n /\ ~Declared(s, m)
           /\ tables'[s].symbols[m].kind = "Variable" /\ Scopes' = Scopes
           /\ tables'[s].symbols[m].id = NextStmtRef.id
  BY <1>3 DEF AddsKind
<1>5. QED BY <1>1, <1>2, <1>3, <1>4, UsesVisited DEF Visits

\* A parameter.
LEMMA ParameterVisits ==
  ASSUME IInv, LexicalInv, NEW n \in VarNames, NEW type \in VarTypes, DeclareParameter(n, type)
  PROVE  Visits(NextStmtRef, n)
<1> DEFINE tabs == TablesAfterAdd(CurrentScope, n,
                     Symbol("Parameter", [scope |-> CurrentScope, id |-> 0], type))
<1>1. /\ phase = "visit" /\ Last(nextIds) = 1 /\ tables' = tabs
      /\ UNCHANGED <<numVars, scopeStack, classType, elseTail, uses>> /\ Owner = "function"
  BY DEF DeclareParameter, classVars
<1>2. n \in Names /\ type \in Classes \cup {NoClass} /\ "Parameter" \in SymbolKinds
  BY Chosen DEF SymbolKinds
<1>3. SameTree(tabs) /\ AddsKind(tabs, n, "Parameter", 0)
  <2> DEFINE ref == [scope |-> CurrentScope, id |-> 0]
  <2>1. ref.scope = CurrentScope /\ ref.id = 0 /\ 0 \in Nat
    OBVIOUS
  <2> HIDE DEF ref
  <2>2. /\ SameTree(TablesAfterAdd(CurrentScope, n, Symbol("Parameter", ref, type)))
        /\ AddsKind(TablesAfterAdd(CurrentScope, n, Symbol("Parameter", ref, type)), n,
                    "Parameter", 0)
    BY <1>1, <1>2, <2>1, AddedTables, AddedKind
  <2>3. QED BY <2>2 DEF ref
<1> HIDE DEF tabs
<1>4. /\ NextStmtRef \in ScopedStmtRef /\ NextStmtRef.scope = CurrentScope /\ NextStmtRef.id >= 1
      /\ CurrentScope \in Scopes
      /\ \A m \in Names : Declared(CurrentScope, m) => NumberOf(CurrentScope, m) < NextStmtRef.id
  BY <1>1, NextPosition, StackFacts DEF Position
<1>5. IsNew(NextStmtRef)
  BY <1>1, NextIsFresh DEF IsNew
<1>6. /\ Scopes' = Scopes
      /\ \A s \in Scopes : /\ tables'[s].owner = tables[s].owner
                           /\ tables'[s].parent = tables[s].parent /\ anchors'[s] = anchors[s]
  BY <1>1, <1>3 DEF SameTree, Scopes, numVars
<1>7. ~elseTail'
  <2>1. elseTail => FALSE
    BY <1>1, ElsePosition DEF LexicalInv, ElseInv
  <2>2. UNCHANGED elseTail
    BY <1>1
  <2>3. QED BY <2>1, <2>2
<1>8. \A s \in Scopes, m \in Names :
        \/ tables'[s].symbols[m] = tables[s].symbols[m]
        \/ /\ s = CurrentScope /\ m = n /\ ~Declared(s, m)
           /\ tables'[s].symbols[m].kind = "Parameter" /\ tables'[s].symbols[m].id = 0
           /\ tables[s].owner = "function" /\ Scopes' = Scopes
  BY <1>1, <1>3, <1>6 DEF AddsKind, Owner
<1>9. uses' = uses
  BY <1>1
<1>10. QED BY <1>4, <1>5, <1>6, <1>7, <1>8, <1>9 DEF Visits

\* A statement or a branch that opens a scope.
LEMMA ScopeVisits ==
  ASSUME IInv, IInv', LexicalInv, phase = "visit", NEW n, NEW e \in Expressions, NEW ref, NEW ids,
         Position(ref, ids), VisitExpression(e, ref), NEW tabs, SameTree(tabs),
         AddsKind(tabs, n, "Function", ref.id),
         NEW owner \in Owners, NEW name \in Names \cup Classes \cup {NoClass},
         EnterScopeAt(ref, ids), EnterTable(tabs, owner, name), ~elseTail',
         owner # "function" => tabs = tables,
         IsNew(ref) \/ /\ owner \in BlockOwners
                       /\ \A t \in Anchored(CurrentScope, ref.id) : tables[t].owner \in BlockOwners
  PROVE  Visits(ref, n) /\ Scopes' \ Scopes = {Len(tables) + 1}
         /\ tables'[Len(tables) + 1].owner = owner
<1> DEFINE k == Len(tables) + 1
<1>1. /\ Scopes' = Scopes \cup {k} /\ k \notin Scopes
      /\ \A s \in Scopes : tables'[s] = tabs[s] /\ anchors'[s] = anchors[s]
      /\ tables'[k] = NewTable(CurrentScope, owner, name) /\ anchors'[k].id = ref.id
  BY EnterFacts
<1>2. CurrentScope \in Scopes /\ Root \in Scopes
  BY StackFacts DEF Tree, Scopes, Root
<1>3. anchors'[k] = ref
  <2>1. anchors'[k].scope = tables'[k].parent
    BY <1>1 DEF IInv, ScopesAgree
  <2>2. anchors'[k] \in ScopedStmtRef
    BY <1>1, AnchorRefsNext
  <2>3. tables'[k].parent = CurrentScope
    BY <1>1 DEF NewTable
  <2> HIDE DEF k
  <2>4. ref \in ScopedStmtRef /\ ref.scope = CurrentScope
    BY DEF Position
  <2>5. anchors'[k].id = ref.id /\ anchors'[k].scope = ref.scope
    BY <1>1, <2>1, <2>3, <2>4
  <2>6. QED BY <2>2, <2>4, <2>5 DEF ScopedStmtRef
<1>4. /\ tables'[k].parent = CurrentScope /\ tables'[k].owner = owner
      /\ \A m \in Names : tables'[k].symbols[m] = NoSymbol
  BY <1>1 DEF NewTable
<1> HIDE DEF k
<1>5. Scopes' \ Scopes = {k} /\ k # Root
  BY <1>1, <1>2
<1>6. \A s \in Scopes : /\ tables'[s].owner = tables[s].owner
                        /\ tables'[s].parent = tables[s].parent /\ anchors'[s] = anchors[s]
                        /\ tables'[s].symbols = tabs[s].symbols
  BY <1>1 DEF SameTree
<1>7. \A s \in Scopes, m \in Names :
        \/ tables'[s].symbols[m] = tables[s].symbols[m]
        \/ /\ s = CurrentScope /\ m = n /\ ~Declared(s, m)
           /\ tables'[s].symbols[m].kind = "Function" /\ tables'[s].symbols[m].id = ref.id
           /\ tables'[k].owner = "function"
  <2>1. CASE owner # "function"
    BY <1>6, <2>1
  <2>2. CASE owner = "function"
    BY <1>4, <1>6, <2>2 DEF AddsKind
  <2>3. QED BY <2>1, <2>2
<1>8. IsNew(ref) \/ JoinsIf(ref)
  <2>1. CASE IsNew(ref)
    BY <2>1
  <2>2. CASE /\ owner \in BlockOwners
             /\ \A t \in Anchored(CurrentScope, ref.id) : tables[t].owner \in BlockOwners
    <3>1. tabs = tables
      BY <2>2 DEF BlockOwners
    <3>2. QED BY <1>4, <1>5, <1>6, <2>2, <3>1 DEF JoinsIf
  <2>3. QED BY <2>1, <2>2
<1>9. Visits(ref, n)
  <2>1. /\ ref \in ScopedStmtRef /\ ref.scope = CurrentScope /\ ref.id >= 1
        /\ \A m \in Names : Declared(CurrentScope, m) => NumberOf(CurrentScope, m) < ref.id
    BY DEF Position
  <2>2. /\ DOMAIN uses \subseteq DOMAIN uses' /\ \A i \in DOMAIN uses : uses'[i] = uses[i]
        /\ \A i \in DOMAIN uses' \ DOMAIN uses : uses'[i].ref = ref
        /\ \A i, j \in DOMAIN uses' \ DOMAIN uses : i = j
    BY UsesVisited
  <2>3. /\ \A s \in Scopes' \ Scopes :
             /\ anchors'[s] = ref /\ tables'[s].parent = CurrentScope /\ s # Root
             /\ \A m \in Names : tables'[s].symbols[m] = NoSymbol
        /\ \A s, t \in Scopes' \ Scopes : s = t
        /\ Scopes \subseteq Scopes'
    BY <1>1, <1>3, <1>4, <1>5
  <2>4. \A s \in Scopes, m \in Names :
          \/ tables'[s].symbols[m] = tables[s].symbols[m]
          \/ /\ s = CurrentScope /\ m = n /\ ~Declared(s, m)
             /\ tables'[s].symbols[m].kind = "Function" /\ tables'[s].symbols[m].id = ref.id
             /\ \E t \in Scopes' \ Scopes : tables'[t].owner = "function"
    BY <1>5, <1>7
  <2>5. QED BY <1>2, <1>6, <1>8, <2>1, <2>2, <2>3, <2>4 DEF Visits
<1>10. QED BY <1>4, <1>5, <1>9 DEF k

\* A visit that keeps classType and counts its statement.
VisitsOne(ref, n) ==
  /\ Visits(ref, n) /\ UNCHANGED classType
  /\ \A t \in Scopes' \ Scopes : tables'[t].owner # "program"
  /\ (\E t \in Scopes' \ Scopes : tables'[t].owner \in BlockOwners) => InStatementList
  /\ statements' \in Nat /\ statements <= statements' /\ ref.id <= statements'
  /\ \A j \in 1..Len(nextIds') : nextIds'[j] <= statements' + 1

\* Such a visit keeps the text in order.
LEMMA VisitKeepsText ==
  ASSUME IInv, IInv', LexicalInv, TextInv, NEW ref, NEW n, VisitsOne(ref, n)
  PROVE  TextInv'
<1>1. OwnersInv' /\ NumberedOnce'
  BY VisitKeepsNumbers, VisitKeepsOwners DEF VisitsOne
<1>2. BoundedInv'
  <2>1. ASSUME NEW s \in Scopes', NEW m \in Names
        PROVE  tables'[s].symbols[m].id <= statements'
    <3>0. statements' \in Nat /\ ref.id <= statements' /\ statements <= statements'
      BY DEF VisitsOne
    <3>1. CASE s \in Scopes /\ tables'[s].symbols[m] = tables[s].symbols[m]
      <4>1. tables[s].symbols[m].id <= statements /\ tables[s].symbols[m].id \in Nat
        <5>1. tables[s].symbols[m] \in SymbolType
          <6>1. tables[s] \in TableType
            BY <3>1, ElementOfSeq DEF IInv, TypeOK, TableTypeOK, Scopes
          <6>2. QED BY <6>1 DEF TableType
        <5>2. QED BY <3>1, <5>1 DEF TextInv, BoundedInv, NumberOf, SymbolType
      <4>2. statements \in Nat
        BY DEF IInv, TypeOK, BuilderTypeOK
      <4>3. QED BY <3>0, <3>1, <4>1, <4>2
    <3>2. CASE s \notin Scopes
      <4>1. tables'[s].symbols[m] = NoSymbol
        BY <3>2 DEF VisitsOne, Visits
      <4>2. QED BY <3>0, <4>1 DEF NoSymbol
    <3>3. CASE s \in Scopes /\ tables'[s].symbols[m] # tables[s].symbols[m]
      <4>1. tables'[s].symbols[m].id \in {ref.id, 0}
        BY <3>3 DEF VisitsOne, Visits
      <4>2. QED BY <3>0, <4>1
    <3>4. QED BY <3>1, <3>2, <3>3
  <2>2. QED BY <2>1 DEF BoundedInv, VisitsOne, NumberOf
<1>3. QED BY <1>1, <1>2 DEF TextInv

\* The counters after a new statement.
LEMMA Counted ==
  ASSUME IInv, LexicalInv, TextInv, TakeStatement, NEW ids, ids = CountersAfterAcquire
  PROVE  /\ phase = "visit" /\ statements' \in Nat /\ statements \in Nat
         /\ statements' = statements + 1
         /\ NextStmtRef.id \in Nat /\ NextStmtRef.id <= statements'
         /\ \A j \in 1..Len(ids) : ids[j] <= statements' + 1
         /\ Len(ids) \in Nat
<1>1. phase = "visit" /\ statements' = statements + 1 /\ statements \in Nat
  BY DEF TakeStatement, IInv, TypeOK, BuilderTypeOK
<1>2. Position(NextStmtRef, ids) /\ NextStmtRef.id = Last(nextIds)
  BY <1>1, NextPosition
<1>3. /\ nextIds \in Seq(Nat) /\ Last(nextIds) = nextIds[Len(nextIds)]
      /\ Len(nextIds) \in Nat \ {0}
      /\ Len(nextIds) = Len(scopeStack)
  BY <1>1, StackFacts
<1>4. \A j \in 1..Len(nextIds) : nextIds[j] \in Nat /\ nextIds[j] <= statements + 1
  BY <1>3 DEF TextInv, BoundedInv
<1>5. Last(nextIds) \in Nat /\ Last(nextIds) <= statements + 1
  <2>1. Len(nextIds) \in 1..Len(nextIds)
    BY <1>3
  <2>2. QED BY <1>3, <1>4, <2>1
<1>6. ASSUME NEW j \in 1..Len(ids)
      PROVE  ids[j] <= statements' + 1
  <2>1. j \in 1..Len(nextIds) /\ (j = Len(nextIds) \/ j \in 1..(Len(nextIds) - 1))
    BY <1>2, <1>3 DEF Position
  <2>2. CASE j = Len(nextIds)
    <3>1. ids[j] = Last(nextIds) + 1
      BY <1>2, <2>2 DEF Position
    <3>2. QED BY <1>1, <1>5, <3>1
  <2>3. CASE j \in 1..(Len(nextIds) - 1)
    <3>1. ids[j] = nextIds[j]
      BY <1>2, <2>3 DEF Position
    <3>2. QED BY <1>1, <1>4, <2>1, <3>1
  <2>4. QED BY <2>1, <2>2, <2>3
<1>7. QED BY <1>1, <1>2, <1>3, <1>5, <1>6 DEF Position

\* Variables, fields and uses.
LEMMA LeafText ==
  ASSUME IInv, LexicalInv, TextInv, NEW n, NEW e \in Expressions, TakeStatement,
         VisitExpression(e, NextStmtRef), AcquireStatement, UNCHANGED classType,
         SameTree(tables'), AddsKind(tables', n, "Variable", NextStmtRef.id)
  PROVE  VisitsOne(NextStmtRef, n)
<1> DEFINE ids == CountersAfterAcquire
<1>1. /\ phase = "visit" /\ statements' \in Nat /\ statements \in Nat
      /\ statements' = statements + 1 /\ NextStmtRef.id \in Nat /\ NextStmtRef.id <= statements'
      /\ \A j \in 1..Len(ids) : ids[j] <= statements' + 1
  BY Counted
<1>2. ~elseTail'
  BY Zenon DEF TakeStatement
<1>3. Visits(NextStmtRef, n)
  BY <1>1, <1>2, LeafVisits
<1>4. nextIds' = ids
  BY DEF AcquireStatement
<1> HIDE DEF ids
<1>5. Scopes' = Scopes
  BY DEF SameTree, Scopes
<1>6. QED BY <1>1, <1>3, <1>4, <1>5 DEF VisitsOne

\* Functions, classes, blocks and ifs.
LEMMA ScopeText ==
  ASSUME IInv, IInv', LexicalInv, TextInv, NEW n, NEW e \in Expressions, TakeStatement,
         VisitExpression(e, NextStmtRef), UNCHANGED classType,
         NEW tabs, SameTree(tabs), AddsKind(tabs, n, "Function", NextStmtRef.id),
         NEW owner \in Owners \ {"program"}, NEW name \in Names \cup Classes \cup {NoClass},
         AcquireAndEnterScope, EnterTable(tabs, owner, name),
         owner # "function" => tabs = tables, owner \in BlockOwners => InStatementList
  PROVE  VisitsOne(NextStmtRef, n)
<1> DEFINE ids == CountersAfterAcquire
<1>1. /\ phase = "visit" /\ statements' \in Nat /\ statements \in Nat
      /\ statements' = statements + 1 /\ NextStmtRef.id \in Nat /\ NextStmtRef.id <= statements'
      /\ \A j \in 1..Len(ids) : ids[j] <= statements' + 1
      /\ Len(ids) \in Nat
  BY Counted
<1>2. ~elseTail'
  BY Zenon DEF TakeStatement
<1>3. Position(NextStmtRef, ids) /\ EnterScopeAt(NextStmtRef, ids)
  BY <1>1, NextPosition DEF AcquireAndEnterScope
<1>4. IsNew(NextStmtRef)
  BY <1>1, NextIsFresh DEF IsNew
<1>5. /\ Visits(NextStmtRef, n) /\ Scopes' \ Scopes = {Len(tables) + 1}
      /\ tables'[Len(tables) + 1].owner = owner
  BY <1>1, <1>2, <1>3, <1>4, ScopeVisits
<1>6. /\ nextIds' = Append(ids, 1) /\ ids \in Seq(Nat)
  BY <1>3 DEF EnterScopeAt, Position
<1> HIDE DEF ids
<1>7. \A j \in 1..Len(nextIds') : nextIds'[j] <= statements' + 1
  <2>1. Len(nextIds') = Len(ids) + 1 /\ nextIds'[Len(ids) + 1] = 1
        /\ \A j \in 1..Len(ids) : nextIds'[j] = ids[j]
    BY <1>6
  <2>2. QED BY <1>1, <2>1
<1>8. QED BY <1>1, <1>5, <1>7 DEF VisitsOne

\* An else branch.
LEMMA ElseText ==
  ASSUME IInv, IInv', LexicalInv, TextInv, NEW owner \in {"then", "else"}, NEW e \in Expressions,
         VisitElse(owner, e)
  PROVE  VisitsOne(current, 0)
<1>1. /\ phase = "visit" /\ elseTail /\ EnterScopeAt(current, nextIds)
      /\ EnterTable(tables, owner, NoClass) /\ VisitExpression(e, current)
      /\ UNCHANGED <<statements, classType>>
  BY DEF VisitElse, EnterScopeInStatement
<1>2. ~elseTail'
  BY Zenon DEF VisitElse
<1>3. Position(current, nextIds)
  BY <1>1, ElsePosition
<1>4. owner \in BlockOwners /\ owner \in Owners /\ owner \notin {"function", "program"}
  BY DEF Owners, BlockOwners
<1>5. SameTree(tables) /\ \A n : AddsKind(tables, n, "Function", current.id)
  BY <1>1, Visiting, SameTreeItself DEF AddsKind
<1>6. \A t \in Anchored(CurrentScope, current.id) : tables[t].owner \in BlockOwners
  <2>1. current.scope = CurrentScope
    BY <1>3 DEF Position
  <2>2. QED BY <1>1, <2>1 DEF TextInv, NumberedOnce
<1>7. /\ Visits(current, 0) /\ Scopes' \ Scopes = {Len(tables) + 1}
      /\ tables'[Len(tables) + 1].owner = owner
  BY <1>1, <1>2, <1>3, <1>4, <1>5, <1>6, ScopeVisits
<1>8. InStatementList
  BY <1>1 DEF TextInv, OwnersInv
<1>9. /\ statements \in Nat /\ nextIds \in Seq(Nat) /\ nextIds' = Append(nextIds, 1)
      /\ Len(nextIds) \in Nat \ {0} /\ \A j \in 1..Len(nextIds) : nextIds[j] \in Nat
      /\ \A j \in 1..Len(nextIds) : nextIds[j] <= statements + 1
  <2>1. /\ Len(nextIds) \in Nat \ {0} /\ nextIds \in Seq(Nat)
    BY <1>1, StackFacts
  <2>2. QED BY <1>1, <2>1 DEF IInv, TypeOK, BuilderTypeOK, EnterScopeAt, TextInv, BoundedInv
<1>10. \A j \in 1..Len(nextIds') : nextIds'[j] <= statements' + 1
  <2>1. Len(nextIds') = Len(nextIds) + 1 /\ nextIds'[Len(nextIds) + 1] = 1
        /\ \A j \in 1..Len(nextIds) : nextIds'[j] = nextIds[j]
    BY <1>9
  <2>2. statements' = statements
    BY <1>1
  <2>3. QED BY <1>9, <2>1, <2>2
<1>11. current.id <= statements
  <2>1. Len(nextIds) \in 1..Len(nextIds)
    BY <1>9
  <2>2. nextIds[Len(nextIds)] <= statements + 1 /\ nextIds[Len(nextIds)] = current.id + 1
    BY <1>3, <1>9, <2>1 DEF Position
  <2>3. current.id \in Nat
    BY <1>3 DEF Position, ScopedStmtRef
  <2>4. QED BY <1>9, <2>2, <2>3
<1>12. QED BY <1>1, <1>4, <1>7, <1>8, <1>9, <1>10, <1>11 DEF VisitsOne

\* What the end of a scope leaves of the text.
LEMMA EndKeepsText ==
  ASSUME UNCHANGED <<tables, anchors, uses, statements>>, TextInv, IInv,
         nextIds' = Front(nextIds), nextIds # <<>>,
         \A c \in Classes : classType'[c].decl # 0 => tables[classType'[c].decl].owner = "class",
         elseTail' => /\ InStatementList'
                      /\ \A t \in Anchored(current.scope, current.id)' :
                           tables'[t].owner \in BlockOwners
  PROVE  TextInv'
<1>1. Scopes' = Scopes
  BY DEF Scopes
<1>2. \A s, m : NumberOf(s, m)' = NumberOf(s, m)
  BY DEF NumberOf
<1>3. OwnersInv'
  BY <1>1 DEF TextInv, OwnersInv, IsClassScope, Declared
<1>4. NumberedOnce'
  <2>1. \A s, m : /\ Anchored(s, NumberOf(s, m))' = Anchored(s, NumberOf(s, m))
                  /\ DeclaredAt(s, NumberOf(s, m))' = DeclaredAt(s, NumberOf(s, m))
    BY <1>1 DEF Anchored, DeclaredAt, NumberOf
  <2>2. \A i : Anchored(uses[i].ref.scope, uses[i].ref.id)'
                 = Anchored(uses[i].ref.scope, uses[i].ref.id)
    BY <1>1 DEF Anchored
  <2>3. /\ \A s \in Scopes', n \in Names : tables'[s].symbols[n].kind = "Variable" =>
              /\ NumberOf(s, n)' >= 1 /\ Anchored(s, NumberOf(s, n))' = {}
              /\ DeclaredAt(s, NumberOf(s, n))' = {n}
        /\ \A s \in Scopes', n \in Names : tables'[s].symbols[n].kind = "Function" =>
              \E t \in Anchored(s, NumberOf(s, n))' : tables'[t].owner = "function"
        /\ \A t, u \in Scopes' \ {Root} :
              anchors'[t] = anchors'[u] /\ tables'[t].owner \notin BlockOwners => t = u
    BY <1>1, <1>2, <2>1 DEF TextInv, NumberedOnce
  <2>4. \A i, j \in DOMAIN uses' : uses'[i].ref = uses'[j].ref =>
          i = j \/ Anchored(uses[i].ref.scope, uses[i].ref.id)' # {}
    BY <2>2 DEF TextInv, NumberedOnce
  <2>5. QED BY <2>3, <2>4 DEF NumberedOnce
<1>5. BoundedInv'
  <2>1. /\ nextIds \in Seq(Nat) /\ Len(nextIds') = Len(nextIds) - 1
        /\ \A j \in 1..(Len(nextIds) - 1) : nextIds'[j] = nextIds[j]
    <3>1. nextIds \in Seq(Nat)
      BY DEF IInv, TypeOK, NumTypeOK
    <3>2. QED BY <3>1, FrontProperties
  <2>2. \A j \in 1..(Len(nextIds) - 1) : j \in 1..Len(nextIds)
    BY <2>1
  <2>3. \A j \in 1..Len(nextIds') : nextIds'[j] <= statements' + 1
    BY <2>1, <2>2 DEF TextInv, BoundedInv
  <2>4. QED BY <1>1, <1>2, <2>3 DEF TextInv, BoundedInv
<1>6. QED BY <1>3, <1>4, <1>5 DEF TextInv

\* Leaving a scope; of a then block its statement is current again.
LEMMA LeaveText ==
  ASSUME IInv, LexicalInv, TextInv, NEW base \in Classes \cup {NoClass}, LeaveScope(base),
         NEW c, c = CurrentScope, NEW d, d = Len(scopeStack)
  PROVE  TextInv'
<1>1. /\ phase = "visit" /\ c # Root /\ LeaveScopeRestoring /\ LeaveTable
      /\ UNCHANGED <<tables, anchors, uses, statements>> /\ nextIds' = Front(nextIds)
      /\ current' = Last(saved)
  BY DEF LeaveScope, LeaveScopeRestoring
<1>2. /\ c \in Scopes /\ d \in Nat \ {0, 1} /\ c = scopeStack[d] /\ Tree
      /\ scopeStack \in Seq(Nat) /\ scopeStack # <<>>
      /\ d - 1 \in 1..(d - 1) /\ d - 1 \in 1..d /\ (d - 1) + 1 = d
      /\ scopeStack[d - 1] = tables[c].parent /\ scopeStack[d - 1] \in Scopes
      /\ Len(saved) = d - 1 /\ saved \in Seq(ScopedStmtRef) /\ saved # <<>>
      /\ nextIds \in Seq(Nat) /\ nextIds # <<>> /\ Len(nextIds) = d
  <2>1. /\ d \in Nat \ {0, 1} /\ scopeStack[d - 1] = tables[c].parent /\ c \in Scopes /\ Tree
        /\ c = scopeStack[d]
    BY <1>1, StackFacts, AroundCurrent
  <2>2. d - 1 \in 1..(d - 1) /\ d - 1 \in 1..d /\ (d - 1) + 1 = d /\ d - 1 # 0
    BY <2>1
  <2>3. Len(saved) = d - 1 /\ Len(nextIds) = d /\ \A j \in 1..d : scopeStack[j] \in Scopes
    BY <1>1, StackFacts
  <2>4. /\ saved \in Seq(ScopedStmtRef) /\ nextIds \in Seq(Nat)
        /\ scopeStack \in Seq(Nat)
    BY DEF IInv, TypeOK, NumTypeOK, TableTypeOK
  <2>5. saved # <<>> /\ nextIds # <<>> /\ scopeStack # <<>>
    BY <2>1, <2>2, <2>3, EmptySeq
  <2>6. QED BY <2>1, <2>2, <2>3, <2>4, <2>5
<1>3. current' = saved[d - 1] /\ current' \in ScopedStmtRef
  BY <1>1, <1>2, LastProperties
<1>4. anchors[c] = saved[d - 1]
  <2>1. saved[d - 1].scope = scopeStack[d - 1]
    BY <1>1, <1>2, Visiting DEF Stacks
  <2>2. anchors[c].scope = tables[c].parent
    BY <1>2 DEF IInv, ScopesAgree
  <2>3. /\ saved[d - 1].id = nextIds[d - 1] - 1
        /\ anchors[scopeStack[(d - 1) + 1]].id = nextIds[d - 1] - 1
    BY <1>2 DEF LexicalInv, NumbersInv
  <2>4. anchors[c] \in ScopedStmtRef
    BY <1>2, AnchorRefs
  <2>5. anchors[c].id = saved[d - 1].id /\ anchors[c].scope = saved[d - 1].scope
    BY <1>2, <2>1, <2>2, <2>3
  <2>6. saved[d - 1] \in ScopedStmtRef
    BY <1>3
  <2>7. QED BY <2>4, <2>5, <2>6 DEF ScopedStmtRef
<1>5. /\ scopeStack' = Front(scopeStack) /\ scopeStack' # <<>>
      /\ CurrentScope' = scopeStack[d - 1]
  <2>1. /\ scopeStack' \in Seq(Nat) /\ Len(scopeStack') = d - 1
        /\ \A j \in 1..(d - 1) : scopeStack'[j] = scopeStack[j]
    BY <1>1, <1>2, FrontProperties DEF LeaveTable
  <2>2. scopeStack' # <<>>
    BY <1>2, <2>1, EmptySeq
  <2>3. QED BY <1>1, <1>2, <2>1, <2>2, LastProperties DEF CurrentScope, LeaveTable
<1>6. ASSUME elseTail' PROVE tables[c].owner = "then"
  <2>1. elseTail' = (Owner = "then")
    BY DEF LeaveScope
  <2>2. QED BY <1>6, <2>1 DEF Owner
<1>7. ASSUME elseTail'
      PROVE  /\ InStatementList'
             /\ \A t \in Anchored(current.scope, current.id)' : tables'[t].owner \in BlockOwners
  <2>1. tables[c].owner \in BlockOwners
    BY <1>6, <1>7 DEF BlockOwners
  <2>2. tables[tables[c].parent].owner \notin {"program", "class"}
    BY <1>2, <2>1 DEF TextInv, OwnersInv
  <2>3. InStatementList'
    BY <1>1, <1>2, <1>5, <2>2 DEF InStatementList, Owner
  <2>4. Anchored(current.scope, current.id)'
          = {t \in Scopes \ {Root} : anchors[t] = [scope |-> current'.scope, id |-> current'.id]}
    BY <1>1 DEF Anchored, Scopes
  <2>5. current' = [scope |-> current'.scope, id |-> current'.id]
    BY <1>3 DEF ScopedStmtRef
  <2>6. \A t \in Scopes \ {Root} : anchors[t] = anchors[c] => tables[t].owner \in BlockOwners
    BY <1>1, <1>2, <2>1 DEF TextInv, NumberedOnce
  <2>7. QED BY <1>1, <1>3, <1>4, <2>3, <2>4, <2>5, <2>6
<1>8. ASSUME NEW k \in Classes, classType'[k].decl # 0
      PROVE  tables[classType'[k].decl].owner = "class"
  <2>1. CASE Owner = "class"
    <3>1. classType' = [classType EXCEPT ![tables[c].name] = [decl |-> c, base |-> base]]
      BY <2>1 DEF LeaveScope, SyncClassType
    <3>2. classType'[k] = [decl |-> c, base |-> base] \/ classType'[k] = classType[k]
      BY <3>1 DEF IInv, TypeOK, ClassTypeOK
    <3>3. QED BY <1>8, <2>1, <3>2 DEF TextInv, OwnersInv, IsClassScope, Owner
  <2>2. CASE Owner # "class"
    <3>1. UNCHANGED classType
      BY <2>2 DEF LeaveScope
    <3>2. QED BY <1>8, <3>1 DEF TextInv, OwnersInv, IsClassScope
  <2>3. QED BY <2>1, <2>2
<1>9. QED BY <1>1, <1>2, <1>7, <1>8, EndKeepsText

\* The end of a scope keeps the text in order.
LEMMA EndText ==
  ASSUME IInv, TextInv, EndProgram
  PROVE  TextInv'
<1>1. /\ phase = "visit" /\ UNCHANGED <<tables, anchors, uses, statements, classType>>
      /\ nextIds' = Front(nextIds)
  BY DEF EndProgram, LeaveRootScope, classVars
<1>2. ~elseTail'
  BY Zenon DEF EndProgram
<1>3. nextIds # <<>>
  BY <1>1, Visiting, VisitFacts
<1>4. \A c \in Classes : classType'[c].decl # 0 => tables[classType'[c].decl].owner = "class"
  BY <1>1 DEF TextInv, OwnersInv, IsClassScope
<1>5. QED BY <1>1, <1>2, <1>3, <1>4, EndKeepsText

\* What a visit leaves at statement ref: n if it is a function, and something unless it is
\* the visit of a parameter, which has no statement.
Fills(ref, n) ==
  /\ ref.id <= Last(nextIds)
  /\ \/ UNCHANGED <<nextIds, scopeStack>>
     \/ /\ \/ \E m \in Names : /\ tables'[CurrentScope].symbols[m].kind = "Variable"
                               /\ tables'[CurrentScope].symbols[m].id = ref.id
           \/ Scopes' # Scopes
           \/ DOMAIN uses' # DOMAIN uses
        /\ \E ids : /\ Position(ref, ids)
                    /\ \/ nextIds' = ids /\ scopeStack' = scopeStack
                       \/ /\ nextIds' = Append(ids, 1)
                          /\ scopeStack' = Append(scopeStack, Len(tables) + 1)
  /\ \A s \in Scopes : tables'[s].name = tables[s].name
  /\ \A t \in Scopes' \ Scopes :
       /\ tables'[t].owner = "function" =>
            /\ n \in Names /\ tables'[t].name = n
            /\ tables'[CurrentScope].symbols[n].kind = "Function"
            /\ tables'[CurrentScope].symbols[n].id = ref.id
       /\ tables'[t].owner # "then" => UNCHANGED uses

\* A symbol that is not rejected is added.
LEMMA SymbolIsAdded ==
  ASSUME IInv, phase = "visit", NEW n \in Names, NEW kind, NEW ref, NEW type, NEW number,
         ReportRejected(CurrentScope, number, n), errors' = {}
  PROVE  \E tabs \in {TablesAfterAdd(CurrentScope, n, Symbol(kind, ref, type))} :
           /\ tabs[CurrentScope].symbols[n].kind = kind
           /\ tabs[CurrentScope].symbols[n].id = ref.id
<1> DEFINE symbol == Symbol(kind, ref, type)
           c == CurrentScope
           tabs == TablesAfterAdd(c, n, symbol)
           row == [tables[c] EXCEPT !.symbols[n] = symbol]
<1>1. c \in Scopes /\ TableTypeOK
  BY StackFacts, Visiting DEF Scopes
<1>2. symbol.kind = kind /\ symbol.id = ref.id
  BY DEF Symbol
<1>3. tables[c] \in TableType /\ c \in DOMAIN tables
  BY <1>1, ElementOfSeq DEF Scopes, TableTypeOK
<1>4. ~IsDuplicate(c, n) /\ ~IsIllegalShadowing(c, n)
  BY DEF ReportRejected, AddError
<1> HIDE DEF symbol, c
<1>5. row.symbols[n] = symbol
  BY <1>3 DEF TableType
<1>6. tabs = [tables EXCEPT ![c] = row]
  BY <1>4 DEF TablesAfterAdd
<1> HIDE DEF row
<1>7. tabs[c] = row
  BY <1>3, <1>6
<1> HIDE DEF tabs
<1>8. tabs[c].symbols[n].kind = kind /\ tabs[c].symbols[n].id = ref.id
  BY <1>2, <1>5, <1>7
<1>9. QED BY <1>8 DEF tabs, symbol, c

\* Variables, fields and uses.
LEMMA LeafFills ==
  ASSUME IInv, LexicalInv, phase = "visit", NEW n, AcquireStatement, UNCHANGED scopeStack,
         SameTree(tables'),
         \/ \E m \in Names : /\ tables'[CurrentScope].symbols[m].kind = "Variable"
                             /\ tables'[CurrentScope].symbols[m].id = NextStmtRef.id
         \/ DOMAIN uses' # DOMAIN uses
  PROVE  Fills(NextStmtRef, n)
<1>1. PICK ids : ids = CountersAfterAcquire
  OBVIOUS
<1>2. /\ Position(NextStmtRef, ids) /\ nextIds' = ids
      /\ NextStmtRef.id <= Last(nextIds)
  <2>1. NextStmtRef.id = Last(nextIds) /\ Last(nextIds) \in Nat
    BY NumberedHere
  <2>2. QED BY <1>1, <2>1, NextPosition DEF AcquireStatement
<1>3. Scopes' = Scopes /\ \A s \in Scopes : tables'[s].name = tables[s].name
  BY DEF SameTree, Scopes
<1>4. \A t \in Scopes' \ Scopes : FALSE
  BY <1>3
<1>5. QED BY <1>2, <1>3, <1>4 DEF Fills

\* Functions, classes, blocks, ifs and else branches.
LEMMA ScopeFills ==
  ASSUME IInv, phase = "visit", NEW n, NEW ref, NEW ids, Position(ref, ids),
         ref.id <= Last(nextIds), NEW tabs, SameTree(tabs), NEW owner \in Owners,
         NEW name \in Names \cup Classes \cup {NoClass},
         EnterScopeAt(ref, ids), EnterTable(tabs, owner, name),
         owner = "function" => /\ n \in Names /\ name = n
                               /\ tabs[CurrentScope].symbols[n].kind = "Function"
                               /\ tabs[CurrentScope].symbols[n].id = ref.id,
         owner # "then" => UNCHANGED uses
  PROVE  Fills(ref, n)
<1>1. PICK k : k = Len(tables) + 1
  OBVIOUS
<1>2. /\ Scopes' = Scopes \cup {k} /\ k \notin Scopes
      /\ \A s \in Scopes : tables'[s] = tabs[s]
      /\ tables'[k] = NewTable(CurrentScope, owner, name)
  BY <1>1, EnterFacts
<1>3. CurrentScope \in Scopes
  BY StackFacts
<1>4. nextIds' = Append(ids, 1) /\ scopeStack' = Append(scopeStack, k)
  BY <1>1 DEF EnterScopeAt, EnterTable
<1>5. tables'[k].owner = owner /\ tables'[k].name = name
  BY <1>2 DEF NewTable
<1>6. \A s \in Scopes : tables'[s].name = tables[s].name
  BY <1>2 DEF SameTree
<1>7. tables'[CurrentScope] = tabs[CurrentScope]
  BY <1>2, <1>3
<1>8. \A t \in Scopes' \ Scopes : t = k
  BY <1>2
<1>9. Scopes' # Scopes
  BY <1>2
<1>10. QED BY <1>1, <1>4, <1>5, <1>6, <1>7, <1>8, <1>9 DEF Fills

\* A declaration or a statement.
LEMMA BuildVisitsOne ==
  ASSUME IInv, IInv', LexicalInv, TextInv, BuildDeclaration \/ BuildStatement
  PROVE  \E ref, n : VisitsOne(ref, n) /\ (errors' = {} => Fills(ref, n))
<1>1. ASSUME NEW n \in VarNames, NEW type \in VarTypes, NEW e \in Expressions,
             DeclareVariable(n, type, e) \/ DeclareField(n, type, e)
      PROVE  \E ref, m : VisitsOne(ref, m) /\ (errors' = {} => Fills(ref, m))
  <2> DEFINE tabs == TablesAfterAdd(CurrentScope, n, Symbol("Variable", NextStmtRef, type))
  <2>1. /\ TakeStatement /\ AcquireStatement /\ VisitExpression(e, NextStmtRef)
        /\ tables' = tabs /\ UNCHANGED classType /\ phase = "visit"
    BY <1>1 DEF DeclareVariable, DeclareField, TakeStatement, classVars
  <2>2. n \in Names /\ type \in Classes \cup {NoClass} /\ "Variable" \in SymbolKinds
    BY Chosen DEF SymbolKinds
  <2>3. SameTree(tabs) /\ AddsKind(tabs, n, "Variable", NextStmtRef.id)
    BY <2>1, <2>2, NumberedHere, AddedTables, AddedKind
  <2> HIDE DEF tabs
  <2>4. SameTree(tables') /\ AddsKind(tables', n, "Variable", NextStmtRef.id)
    BY <2>1, <2>3
  <2>5. VisitsOne(NextStmtRef, n)
    BY <2>1, <2>4, LeafText
  <2>6. ASSUME errors' = {} PROVE Fills(NextStmtRef, n)
    <3>1. ReportRejected(CurrentScope, NextStmtRef.id, n) /\ UNCHANGED scopeStack
      BY <1>1 DEF DeclareVariable, DeclareField
    <3>2. /\ tabs[CurrentScope].symbols[n].kind = "Variable"
          /\ tabs[CurrentScope].symbols[n].id = NextStmtRef.id
      BY <2>1, <2>2, <2>6, <3>1, SymbolIsAdded DEF tabs
    <3>3. QED BY <2>1, <2>2, <2>4, <3>1, <3>2, LeafFills
  <2>7. QED BY <2>5, <2>6
<1>2. ASSUME NEW n \in Names, DeclareFunction(n) \/ DeclareMethod(n)
      PROVE  \E ref, m : VisitsOne(ref, m) /\ (errors' = {} => Fills(ref, m))
  <2> DEFINE tabs == TablesAfterAdd(CurrentScope, n, Symbol("Function", NextStmtRef, NoClass))
  <2>1. /\ TakeStatement /\ AcquireAndEnterScope /\ EnterTable(tabs, "function", n)
        /\ UNCHANGED <<uses, classType>> /\ phase = "visit"
    BY <1>2 DEF DeclareFunction, DeclareMethod, AddFunctionAndEnterBody, TakeStatement
  <2>2. "Function" \in SymbolKinds /\ "function" \in Owners \ {"program"}
        /\ "function" \notin BlockOwners
    BY DEF SymbolKinds, Owners, BlockOwners
  <2>3. SameTree(tabs) /\ AddsKind(tabs, n, "Function", NextStmtRef.id)
    BY <2>1, <2>2, NumberedHere, AddedTables, AddedKind
  <2>4. NoUse \in Expressions /\ VisitExpression(NoUse, NextStmtRef)
    BY <2>1 DEF Expressions, VisitExpression
  <2> HIDE DEF tabs
  <2>5. VisitsOne(NextStmtRef, n)
    BY <2>1, <2>2, <2>3, <2>4, ScopeText
  <2>6. ASSUME errors' = {} PROVE Fills(NextStmtRef, n)
    <3>1. ReportRejected(CurrentScope, NextStmtRef.id, n)
      BY <1>2 DEF DeclareFunction, DeclareMethod, AddFunctionAndEnterBody
    <3>2. /\ tabs[CurrentScope].symbols[n].kind = "Function"
          /\ tabs[CurrentScope].symbols[n].id = NextStmtRef.id
      BY <2>1, <2>6, <3>1, SymbolIsAdded DEF tabs
    <3>3. /\ Position(NextStmtRef, CountersAfterAcquire) /\ "function" \in Owners
          /\ NextStmtRef.id <= Last(nextIds)
      BY <2>1, <2>2, NextPosition, NumberedHere
    <3>4. EnterScopeAt(NextStmtRef, CountersAfterAcquire) /\ UNCHANGED uses
      BY <2>1 DEF AcquireAndEnterScope
    <3>5. n \in Names \cup Classes \cup {NoClass}
      OBVIOUS
    <3>6. QED BY <2>1, <2>3, <3>2, <3>3, <3>4, <3>5, ScopeFills
  <2>7. QED BY <2>5, <2>6
<1>3. ASSUME NEW n \in VarNames, NEW type \in VarTypes, DeclareParameter(n, type)
      PROVE  \E ref, m : VisitsOne(ref, m) /\ (errors' = {} => Fills(ref, m))
  <2>1. Visits(NextStmtRef, n)
    BY <1>3, ParameterVisits
  <2>2. /\ phase = "visit" /\ Last(nextIds) = 1
        /\ UNCHANGED <<nextIds, statements, classType, scopeStack>>
    BY <1>3 DEF DeclareParameter, numVars, classVars
  <2>3. NextStmtRef.id = 1 /\ statements \in Nat /\ Len(nextIds) \in Nat \ {0}
        /\ nextIds[Len(nextIds)] = 1
    BY <2>2, StackFacts, NumberedHere DEF IInv, TypeOK, BuilderTypeOK
  <2>4. \A j \in 1..Len(nextIds) : nextIds[j] <= statements + 1
    BY DEF TextInv, BoundedInv
  <2>5. SameTree(tables') /\ Scopes' = Scopes
    <3>1. SameTree(tables')
      <4> DEFINE ref == [scope |-> CurrentScope, id |-> 0]
      <4>1. n \in Names /\ type \in Classes \cup {NoClass} /\ "Parameter" \in SymbolKinds
        BY Chosen DEF SymbolKinds
      <4>2. ref.scope = CurrentScope /\ ref.id = 0 /\ 0 \in Nat
        OBVIOUS
      <4>3. tables' = TablesAfterAdd(CurrentScope, n, Symbol("Parameter", ref, type))
        BY <1>3 DEF DeclareParameter
      <4> HIDE DEF ref
      <4>4. SameTree(TablesAfterAdd(CurrentScope, n, Symbol("Parameter", ref, type)))
        BY <2>2, <4>1, <4>2, AddedTables
      <4>5. QED BY <4>3, <4>4
    <3>2. QED BY <3>1 DEF SameTree, Scopes
  <2>6. statements >= 1
    <3> DEFINE d == Len(scopeStack)
    <3>1. CurrentScope # Root /\ CurrentScope \in Scopes /\ CurrentScope = scopeStack[d]
      <4>1. Owner = "function" /\ CurrentScope \in Scopes /\ CurrentScope = scopeStack[d]
        BY <1>3, <2>2, StackFacts DEF DeclareParameter
      <4>2. QED BY <4>1 DEF TextInv, OwnersInv, Owner
    <3>2. /\ d - 1 \in 1..(d - 1) /\ (d - 1) + 1 = d /\ d \in Nat /\ Len(nextIds) = d
          /\ d - 1 \in 1..d
      <4>1. d - 1 \in 1..(d - 1) /\ d \in Nat /\ Len(nextIds) = d
        BY <2>2, <3>1, AroundCurrent, StackFacts
      <4> HIDE DEF d
      <4>2. QED BY <4>1
    <3>3. anchors[scopeStack[(d - 1) + 1]].id = nextIds[d - 1] - 1 /\ nextIds[d - 1] \in Nat
      BY <2>2, <3>2, StackFacts DEF LexicalInv, NumbersInv
    <3>4. anchors[CurrentScope].id >= 1
      BY <3>1 DEF LexicalInv, NumbersInv
    <3>5. nextIds[d - 1] <= statements + 1
      BY <2>4, <3>2
    <3>6. anchors[CurrentScope].id = nextIds[d - 1] - 1
      BY <3>1, <3>2, <3>3
    <3> HIDE DEF d
    <3>7. QED BY <2>3, <3>3, <3>4, <3>5, <3>6
  <2>7. VisitsOne(NextStmtRef, n)
    BY <2>1, <2>2, <2>3, <2>4, <2>5, <2>6 DEF VisitsOne
  <2>8. Fills(NextStmtRef, n)
    <3>1. /\ UNCHANGED <<nextIds, scopeStack>>
          /\ \A s \in Scopes : tables'[s].name = tables[s].name
      BY <2>2, <2>5 DEF SameTree
    <3>2. NextStmtRef.id <= Last(nextIds)
      BY <2>2, NumberedHere
    <3>3. QED BY <2>5, <3>1, <3>2 DEF Fills
  <2>9. QED BY <2>7, <2>8
<1>4. ASSUME NEW owner \in Owners \ {"program", "function"},
             NEW name \in Names \cup Classes \cup {NoClass}, NEW e \in Expressions,
             TakeStatement, AcquireAndEnterScope, EnterTable(tables, owner, name),
             VisitExpression(e, NextStmtRef), UNCHANGED classType,
             owner \in BlockOwners => InStatementList, owner # "then" => UNCHANGED uses
      PROVE  \E ref, m : VisitsOne(ref, m) /\ (errors' = {} => Fills(ref, m))
  <2>1. phase = "visit"
    BY <1>4 DEF TakeStatement
  <2>2. SameTree(tables) /\ AddsKind(tables, 0, "Function", NextStmtRef.id)
    BY <2>1, Visiting, SameTreeItself DEF AddsKind
  <2>3. VisitsOne(NextStmtRef, 0)
    BY <1>4, <2>2, ScopeText
  <2>4. Fills(NextStmtRef, 0)
    <3>1. EnterScopeAt(NextStmtRef, CountersAfterAcquire) /\ owner \in Owners
          /\ owner # "function"
      BY <1>4 DEF AcquireAndEnterScope
    <3>2. Position(NextStmtRef, CountersAfterAcquire) /\ NextStmtRef.id <= Last(nextIds)
      BY <2>1, NextPosition, NumberedHere
    <3>3. QED BY <1>4, <2>1, <2>2, <3>1, <3>2, ScopeFills
  <2>5. QED BY <2>3, <2>4
<1>5. /\ NoUse \in Expressions /\ (UNCHANGED uses => VisitExpression(NoUse, NextStmtRef))
      /\ {"class", "block", "then"} \subseteq Owners \ {"program", "function"}
      /\ "class" \notin BlockOwners
  BY DEF Expressions, VisitExpression, Owners, BlockOwners
<1>6. ASSUME NEW c \in Classes, DeclareClass(c)
      PROVE  \E ref, m : VisitsOne(ref, m) /\ (errors' = {} => Fills(ref, m))
  <2>1. /\ TakeStatement /\ AcquireAndEnterScope /\ EnterTable(tables, "class", c)
        /\ UNCHANGED <<uses, classType>>
    BY <1>6 DEF DeclareClass
  <2>2. QED BY <1>4, <1>5, <2>1
<1>7. ASSUME VisitBlock PROVE \E ref, m : VisitsOne(ref, m) /\ (errors' = {} => Fills(ref, m))
  <2>1. /\ TakeStatement /\ AcquireAndEnterScope /\ EnterTable(tables, "block", NoClass)
        /\ UNCHANGED <<uses, classType>> /\ InStatementList
    BY <1>7 DEF VisitBlock
  <2>2. QED BY <1>4, <1>5, <2>1
<1>8. ASSUME NEW e \in Expressions, VisitIf(e)
      PROVE  \E ref, m : VisitsOne(ref, m) /\ (errors' = {} => Fills(ref, m))
  <2>1. /\ TakeStatement /\ AcquireAndEnterScope /\ EnterTable(tables, "then", NoClass)
        /\ VisitExpression(e, NextStmtRef) /\ UNCHANGED classType /\ InStatementList
    BY <1>8 DEF VisitIf
  <2>2. QED BY <1>4, <1>5, <2>1
<1>9. ASSUME NEW e \in UseForms, VisitUse(e)
      PROVE  \E ref, m : VisitsOne(ref, m) /\ (errors' = {} => Fills(ref, m))
  <2>1. /\ TakeStatement /\ AcquireStatement /\ VisitExpression(e, NextStmtRef)
        /\ UNCHANGED <<tables, classType>> /\ phase = "visit"
    BY <1>9 DEF VisitUse, TakeStatement, tableVars, classVars
  <2>2. SameTree(tables) /\ AddsKind(tables, 0, "Variable", NextStmtRef.id)
    BY <2>1, Visiting, SameTreeItself DEF AddsKind
  <2>3. SameTree(tables') /\ AddsKind(tables', 0, "Variable", NextStmtRef.id)
    BY <2>1, <2>2
  <2>4. e \in Expressions
    BY DEF Expressions
  <2>5. VisitsOne(NextStmtRef, 0)
    BY <2>1, <2>3, <2>4, LeafText
  <2>6. Fills(NextStmtRef, 0)
    <3>1. e # NoUse /\ uses' # uses /\ DOMAIN uses' # DOMAIN uses
      <4>1. e \in AllUseForms
        BY BuilderAssumption
      <4>2. "value" # "none" /\ "call" # "none" /\ "field" # "none" /\ "method" # "none"
        OBVIOUS
      <4>3. e # NoUse
        BY <4>1, <4>2 DEF AllUseForms, UseKinds, NoUse
      <4>4. uses \in Seq(UseType)
        BY <2>1, Visiting
      <4>5. PICK u : uses' = Append(uses, u)
        BY <2>1, <4>3 DEF VisitExpression
      <4>6. Len(uses) + 1 \in DOMAIN uses' /\ Len(uses) + 1 \notin DOMAIN uses
        BY <4>4, <4>5
      <4>7. QED BY <4>3, <4>6
    <3>2. UNCHANGED scopeStack
      BY <1>9 DEF VisitUse, tableVars
    <3>3. QED BY <2>1, <2>3, <3>1, <3>2, LeafFills
  <2>7. QED BY <2>5, <2>6
<1>10. ASSUME NEW owner \in {"then", "else"}, NEW e \in Expressions, VisitElse(owner, e)
       PROVE  \E ref, m : VisitsOne(ref, m) /\ (errors' = {} => Fills(ref, m))
  <2>1. VisitsOne(current, 0)
    BY <1>10, ElseText
  <2>2. /\ phase = "visit" /\ elseTail /\ EnterScopeAt(current, nextIds)
        /\ EnterTable(tables, owner, NoClass) /\ (owner = "else" => UNCHANGED uses)
    BY <1>10 DEF VisitElse, EnterScopeInStatement, VisitExpression
  <2>3. Position(current, nextIds) /\ SameTree(tables)
    BY <2>2, ElsePosition, Visiting, SameTreeItself
  <2>4. owner \in Owners /\ owner # "function" /\ (owner # "then" => UNCHANGED uses)
    BY <2>2 DEF Owners, BlockOwners
  <2>5. current.id <= Last(nextIds)
    <3>1. current.id \in Nat /\ nextIds[Len(nextIds)] = current.id + 1
      BY <2>3 DEF Position, ScopedStmtRef
    <3>2. QED BY <2>2, <3>1, StackFacts
  <2>6. Fills(current, 0)
    BY <2>2, <2>3, <2>4, <2>5, ScopeFills
  <2>7. QED BY <2>1, <2>6
<1>11. CASE BuildDeclaration
  BY <1>1, <1>2, <1>3, <1>6, <1>11 DEF BuildDeclaration, VisitDeclaration
<1>12. CASE BuildStatement
  BY <1>7, <1>8, <1>9, <1>10, <1>12 DEF BuildStatement, VisitStatement
<1>13. QED BY <1>11, <1>12

\* Every visit keeps TextInv.
LEMMA VisitText ==
  ASSUME IInv, IInv', LexicalInv, TextInv, BuildDeclaration \/ BuildStatement \/ BuildScopeEnd
  PROVE  TextInv'
<1>1. CASE BuildDeclaration \/ BuildStatement
  BY <1>1, BuildVisitsOne, VisitKeepsText
<1>2. CASE BuildScopeEnd
  <2>1. ASSUME NEW base \in Classes \cup {NoClass}, LeaveScope(base) PROVE TextInv'
    <3>1. \A c, d : c = CurrentScope /\ d = Len(scopeStack) => TextInv'
      BY <2>1, LeaveText
    <3>2. QED BY <3>1
  <2>2. QED BY <1>2, <2>1, EndText DEF BuildScopeEnd, VisitScopeEnd
<1>3. QED BY <1>1, <1>2

\* The condition of a new block is the use of the same visit.
LEMMA VisitConditions ==
  ASSUME IInv, IInv', ConditionsInv, NEW ref, NEW n, Visits(ref, n), RecordCondition
  PROVE  ConditionsInv'
<1>1. /\ Len(tables) \in Nat /\ Len(tables') \in Nat /\ Scopes = 1..Len(tables)
      /\ Scopes' = 1..Len(tables')
  BY TreeOfInv, TreeOfInvNext DEF Tree, Scopes
<1>2. /\ uses \in Seq(UseType) /\ Len(uses) \in Nat /\ DOMAIN uses = 1..Len(uses)
  BY DEF IInv, TypeOK, BuilderTypeOK
<1>3. /\ uses' \in Seq(UseType) /\ Len(uses') \in Nat /\ DOMAIN uses' = 1..Len(uses')
  BY DEF IInv, TypeOK, BuilderTypeOK
<1>4. Len(tables') \in {Len(tables), Len(tables) + 1}
  <2>1. Scopes \subseteq Scopes' /\ \A s, t \in Scopes' \ Scopes : s = t
    BY DEF Visits
  <2>2. Len(tables) <= Len(tables')
    <3>1. Len(tables) # 0 => Len(tables) \in Scopes'
      BY <1>1, <2>1
    <3>2. QED BY <1>1, <3>1
  <2>3. ASSUME Len(tables') >= Len(tables) + 2 PROVE FALSE
    <3>1. Len(tables) + 1 \in Scopes' \ Scopes /\ Len(tables) + 2 \in Scopes' \ Scopes
      BY <1>1, <2>3
    <3>2. Len(tables) + 1 = Len(tables) + 2
      BY <2>1, <3>1
    <3>3. QED BY <1>1, <3>2
  <2>4. QED BY <1>1, <2>2, <2>3
<1>5. /\ conditionOf \in Seq(Nat) /\ Len(conditionOf) = Len(tables)
      /\ \A s \in Scopes : conditionOf[s] # 0 =>
           conditionOf[s] \in DOMAIN uses /\ uses[conditionOf[s]].ref = anchors[s]
  BY DEF ConditionsInv
<1>6. ASSUME NEW s \in Scopes, conditionOf[s] # 0
      PROVE  conditionOf[s] \in DOMAIN uses' /\ uses'[conditionOf[s]].ref = anchors'[s]
  BY <1>5, <1>6 DEF Visits
<1>7. CASE Len(tables') = Len(tables)
  <2>1. conditionOf' = conditionOf
    BY <1>7 DEF RecordCondition
  <2>2. QED BY <1>1, <1>5, <1>6, <1>7, <2>1 DEF ConditionsInv
<1>8. CASE Len(tables') = Len(tables) + 1
  <2> DEFINE k == Len(tables) + 1
             last == IF Len(uses') > Len(uses) THEN Len(uses') ELSE 0
  <2>1. conditionOf' = Append(conditionOf, last)
    BY <1>1, <1>8 DEF RecordCondition
  <2>2. last \in Nat /\ (last # 0 => last = Len(uses') /\ last \in DOMAIN uses' \ DOMAIN uses)
    BY <1>2, <1>3
  <2> HIDE DEF last
  <2>3. /\ conditionOf' \in Seq(Nat) /\ Len(conditionOf') = Len(tables')
        /\ \A s \in Scopes : conditionOf'[s] = conditionOf[s]
        /\ conditionOf'[k] = last
    BY <1>1, <1>5, <1>8, <2>1, <2>2
  <2>4. k \in Scopes' \ Scopes /\ Scopes' = Scopes \cup {k}
    BY <1>1, <1>8
  <2> HIDE DEF k
  <2>5. last # 0 => last \in DOMAIN uses' /\ uses'[last].ref = anchors'[k]
    BY <2>2, <2>4 DEF Visits
  <2>6. QED BY <1>6, <2>3, <2>4, <2>5 DEF ConditionsInv
<1>9. QED BY <1>4, <1>7, <1>8

\* Every visit keeps ConditionsInv.
LEMMA BuildConditions ==
  ASSUME IInv, IInv', LexicalInv, TextInv, ConditionsInv, RecordCondition,
         BuildDeclaration \/ BuildStatement \/ BuildScopeEnd
  PROVE  ConditionsInv'
<1>1. CASE BuildDeclaration \/ BuildStatement
  BY <1>1, BuildVisitsOne, VisitConditions DEF VisitsOne
<1>2. CASE BuildScopeEnd
  <2>1. UNCHANGED <<tables, anchors, uses>>
    BY <1>2 DEF BuildScopeEnd, VisitScopeEnd, LeaveScope, EndProgram, LeaveScopeRestoring,
                LeaveRootScope
  <2>2. conditionOf' = conditionOf
    BY <2>1 DEF RecordCondition
  <2>3. QED BY <2>1, <2>2 DEF ConditionsInv, Scopes
<1>3. QED BY <1>1, <1>2

-----------------------------------------------------------------------------
(* What uses mean *)

\* The parts of a use.
LEMMA UseParts ==
  ASSUME IInv, NEW i \in DOMAIN uses
  PROVE  /\ uses[i].form.name \in Names /\ uses[i].form.kind \in UseKinds
         /\ uses[i].scope \in Scopes
         /\ uses[i].ref = [scope |-> uses[i].scope, id |-> uses[i].ref.id]
         /\ uses[i].ref.id \in Nat
<1>1. uses \in Seq(UseType) /\ i \in 1..Len(uses)
  BY DEF IInv, TypeOK, BuilderTypeOK
<1>2. uses[i] \in UseType
  BY <1>1, ElementOfSeq
<1>3. uses[i].form \in AllUseForms /\ uses[i].ref \in ScopedStmtRef
  BY <1>2, BuilderAssumption DEF UseType
<1>4. uses[i].form.name \in Names /\ uses[i].form.kind \in UseKinds
  BY <1>3 DEF AllUseForms
<1>5. uses[i].scope \in Scopes /\ uses[i].ref.scope = uses[i].scope
  BY <1>1 DEF IInv, UseInv
<1>6. QED BY <1>3, <1>4, <1>5 DEF ScopedStmtRef

\* The parts of a symbol.
LEMMA SymbolParts ==
  ASSUME IInv, NEW s \in Scopes, NEW n \in Names
  PROVE  /\ tables[s].symbols[n] \in SymbolType
         /\ tables[s].symbols[n].kind \in SymbolKinds \cup {"None"}
         /\ tables[s].symbols[n].kind # "None" => Declared(s, n)
         /\ Declared(s, n) => tables[s].symbols[n].scope = s
         /\ tables[s].symbols[n].id \in Nat
<1>1. tables[s] \in TableType
  BY ElementOfSeq DEF IInv, TypeOK, TableTypeOK, Scopes
<1>2. tables[s].symbols[n] \in SymbolType
  BY <1>1 DEF TableType
<1>3. QED BY <1>2 DEF SymbolType, Declared, NoSymbol, IInv, SymbolInv

\* What a class inherits is a method of a class.
LEMMA InheritedIsMethod ==
  ASSUME IInv, OwnersInv, NEW c \in Classes, NEW n \in Names
  PROVE  \/ Inherited(c, n) = NoSymbol
         \/ /\ Inherited(c, n) \in SymbolType /\ Inherited(c, n).kind = "Function"
            /\ Inherited(c, n).scope \in Scopes /\ IsClassScope(Inherited(c, n).scope)
<1> DEFINE N == Cardinality(Classes)
           has == {k \in 0..N : /\ Ancestor(c)[k] # NoClass
                                /\ classType[Ancestor(c)[k]].decl # 0
                                /\ members[classType[Ancestor(c)[k]].decl][n] # NoMember}
           decl == classType[Ancestor(c)[Min(has)]].decl
<1>1. ClassTypeOK /\ members \in Seq([Names -> MemberType]) /\ Len(members) = Len(tables)
  BY DEF IInv, TypeOK, ClassTypeOK, ScopesAgree
<1>2. Inherited(c, n) =
        IF has = {} \/ members[decl][n].kind # "Method" THEN NoSymbol
        ELSE Symbol("Function", [scope |-> decl, id |-> members[decl][n].id], NoClass)
  BY DEF Inherited
<1>3. CASE has = {} \/ members[decl][n].kind # "Method"
  BY <1>2, <1>3
<1>4. CASE ~(has = {} \/ members[decl][n].kind # "Method")
  <2>1. N \in Nat /\ \A k \in 0..N : Ancestor(c)[k] \in Classes \cup {NoClass}
    BY <1>1, AncestorEquation
  <2>2. has \in SUBSET Nat /\ has # {}
    <3>1. has \subseteq 0..N
      OBVIOUS
    <3> HIDE DEF has
    <3>2. QED BY <1>4, <2>1, <3>1
  <2>3. Min(has) \in has
    BY <2>2, MinIsLeast
  <2>4. decl # 0 /\ Ancestor(c)[Min(has)] \in Classes
    BY <2>1, <2>3
  <2> HIDE DEF has
  <2>5. decl \in Scopes /\ IsClassScope(decl) /\ decl \in Nat
    BY <2>4 DEF OwnersInv, IInv, TreeInv, Scopes
  <2> HIDE DEF decl
  <2>6. members[decl][n].id \in Nat
    <3>1. members[decl] \in [Names -> MemberType]
      BY <1>1, <2>5, ElementOfSeq DEF Scopes
    <3>2. QED BY <3>1 DEF MemberType
  <2> DEFINE ref == [scope |-> decl, id |-> members[decl][n].id]
  <2>7. ref.scope = decl /\ ref.scope \in Nat /\ ref.id \in Nat
    BY <2>5, <2>6
  <2>8. Inherited(c, n) = Symbol("Function", ref, NoClass)
    BY <1>2, <1>4
  <2> HIDE DEF ref
  <2>9. /\ Symbol("Function", ref, NoClass) \in SymbolType
        /\ Symbol("Function", ref, NoClass).scope = decl
        /\ Symbol("Function", ref, NoClass).kind = "Function"
    BY <2>7, SymbolTypeOf DEF SymbolKinds, Symbol
  <2>10. QED BY <2>5, <2>8, <2>9
<1>5. QED BY <1>3, <1>4

MeansSymbolOf(use, symbol, s) ==
  /\ s \in Enclosing[use.scope] /\ s \in Scopes /\ Counts(use, s)
  /\ symbol = tables[s].symbols[use.form.name] /\ symbol.scope = s
  /\ symbol.kind \in SymbolKinds
MeansMethod(use, symbol) ==
  /\ symbol.kind = "Function" /\ use.form.kind = "call"
  /\ symbol.scope \in Scopes /\ IsClassScope(symbol.scope)
\* What a use means: a symbol of a scope around it that counts for it, or of a call a method
\* of a class.
LEMMA MeaningFacts ==
  ASSUME IInv, OwnersInv, NEW i \in DOMAIN uses
  PROVE  /\ Meaning(uses[i]) \in SymbolType
         /\ Meaning(uses[i]) # NoSymbol =>
              \/ \E s : MeansSymbolOf(uses[i], Meaning(uses[i]), s)
              \/ MeansMethod(uses[i], Meaning(uses[i]))
<1> DEFINE use == uses[i]
           n == use.form.name
           giving == {s \in Enclosing[use.scope] : MeaningIn(use, s) # NoSymbol}
<1>1. Tree /\ use.scope \in Scopes /\ n \in Names /\ use.form.kind \in UseKinds
  BY TreeOfInv, UseParts
<1>2. Enclosing[use.scope] \subseteq Scopes /\ Len(tables) \in Nat
  BY <1>1, EnclosingFacts DEF Tree
<1>3. Meaning(use) = IF giving = {} THEN NoSymbol ELSE MeaningIn(use, Max(giving))
  BY DEF Meaning
<1>4. CASE giving = {}
  BY <1>3, <1>4, NoSymbolType
<1>5. CASE giving # {}
  <2>1. giving \in SUBSET (0..Len(tables))
    BY <1>2 DEF Scopes
  <2>2. Max(giving) \in giving
    BY <1>2, <1>5, <2>1, MaxIsLargest
  <2>3. PICK s : s = Max(giving)
    OBVIOUS
  <2>4. /\ s \in Enclosing[use.scope] /\ s \in Scopes /\ Meaning(use) = MeaningIn(use, s)
        /\ MeaningIn(use, s) # NoSymbol
    BY <1>2, <1>3, <1>5, <2>2, <2>3
  <2> HIDE DEF giving, use, n
  <2>5. CASE Counts(use, s)
    <3>1. Meaning(use) = tables[s].symbols[n] /\ n = use.form.name
      BY <2>4, <2>5 DEF MeaningIn, n
    <3>2. Declared(s, n)
      BY <2>4, <3>1 DEF Declared
    <3>3. /\ tables[s].symbols[n] \in SymbolType /\ tables[s].symbols[n].scope = s
          /\ tables[s].symbols[n].kind \in SymbolKinds \cup {"None"}
      BY <1>1, <2>4, <3>2, SymbolParts
    <3>4. tables[s].symbols[n].kind # "None"
      BY <1>1, <2>4, <3>2 DEF OwnersInv
    <3>5. QED BY <2>4, <2>5, <3>1, <3>3, <3>4 DEF MeansSymbolOf, use
  <2>6. CASE ~Counts(use, s)
    <3>1. /\ IsClassScope(s) /\ use.form.kind = "call"
          /\ Meaning(use) = Inherited(tables[s].name, n)
      BY <2>4, <2>6 DEF MeaningIn, n
    <3>2. tables[s].name \in Classes
      BY <2>4, <3>1 DEF IInv, TreeInv
    <3>3. Meaning(use) \in SymbolType /\ MeansMethod(use, Meaning(use))
      BY <1>1, <2>4, <3>1, <3>2, InheritedIsMethod DEF MeansMethod
    <3>4. QED BY <3>3 DEF use
  <2>7. QED BY <2>5, <2>6
<1>6. QED BY <1>4, <1>5

-----------------------------------------------------------------------------
(* The invariant of the program, on its way from stage to stage *)

SInv == IInv /\ LexicalInv /\ TextInv /\ ConditionsInv /\ StageInv

\* TextInv and ConditionsInv speak of what the visits leave only.
LEMMA TextStays ==
  ASSUME TextInv, ConditionsInv, UNCHANGED <<programVars, conditionOf>>
  PROVE  TextInv' /\ ConditionsInv'
<1>1. UNCHANGED <<tables, anchors, nextIds, current, scopeStack, classType, uses, elseTail,
                  statements, conditionOf>>
  BY DEF programVars, numVars, classVars
<1>2. /\ Scopes' = Scopes /\ \A s, n : NumberOf(s, n)' = NumberOf(s, n)
      /\ \A s, n : Declared(s, n)' <=> Declared(s, n)
  BY <1>1, SameTables
<1>3. OwnersInv'
  BY <1>1, <1>2 DEF TextInv, OwnersInv, IsClassScope, InStatementList, Owner, CurrentScope
<1>4. NumberedOnce'
  <2>1. \A s, m : /\ Anchored(s, NumberOf(s, m))' = Anchored(s, NumberOf(s, m))
                  /\ DeclaredAt(s, NumberOf(s, m))' = DeclaredAt(s, NumberOf(s, m))
    BY <1>1, <1>2 DEF Anchored, DeclaredAt, NumberOf
  <2>2. \A i : Anchored(uses[i].ref.scope, uses[i].ref.id)'
                 = Anchored(uses[i].ref.scope, uses[i].ref.id)
    BY <1>1, <1>2 DEF Anchored
  <2>3. Anchored(current.scope, current.id)' = Anchored(current.scope, current.id)
    BY <1>1, <1>2 DEF Anchored
  <2>4. /\ \A s \in Scopes', n \in Names : tables'[s].symbols[n].kind = "Variable" =>
              /\ NumberOf(s, n)' >= 1 /\ Anchored(s, NumberOf(s, n))' = {}
              /\ DeclaredAt(s, NumberOf(s, n))' = {n}
        /\ \A s \in Scopes', n \in Names : tables'[s].symbols[n].kind = "Function" =>
              \E t \in Anchored(s, NumberOf(s, n))' : tables'[t].owner = "function"
        /\ \A t, u \in Scopes' \ {Root} :
              anchors'[t] = anchors'[u] /\ tables'[t].owner \notin BlockOwners => t = u
    BY <1>1, <1>2, <2>1 DEF TextInv, NumberedOnce
  <2>5. \A i, j \in DOMAIN uses' : uses'[i].ref = uses'[j].ref =>
          i = j \/ Anchored(uses[i].ref.scope, uses[i].ref.id)' # {}
    BY <1>1, <2>2 DEF TextInv, NumberedOnce
  <2>6. elseTail' => \A t \in Anchored(current.scope, current.id)' :
          tables'[t].owner \in BlockOwners
    BY <1>1, <2>3 DEF TextInv, NumberedOnce
  <2>7. QED BY <2>4, <2>5, <2>6 DEF NumberedOnce
<1>5. BoundedInv'
  BY <1>1, <1>2 DEF TextInv, BoundedInv
<1>6. ConditionsInv'
  BY <1>1, <1>2 DEF ConditionsInv
<1>7. QED BY <1>3, <1>4, <1>5, <1>6 DEF TextInv

\* Nor do the statements and what they need change when the program is executed.
LEMMA SameProgram ==
  ASSUME UNCHANGED <<vars, statementKind>>
  PROVE  /\ IsAccepted' <=> IsAccepted
         /\ \A i : (IsLowered(i)' <=> IsLowered(i)) /\ (HasStorage(i)' <=> HasStorage(i))
         /\ Terminated' = Terminated
<1>1. /\ UNCHANGED <<tables, anchors, classType, members, uses, resolved, statementKind>>
  BY DEF vars, numVars, classVars, tableVars, builderVars, resolverVars
<1>2. ValueStatements' = ValueStatements
  BY <1>1 DEF ValueStatements, IsValue, IsStatement, DeclaredAt, ScopesAt, Anchored, Scopes
<1>3. /\ \A i : IsValue(i)' <=> IsValue(i)
      /\ \A i : OnlyWrites(i)' <=> OnlyWrites(i)
  BY <1>1, <1>2 DEF IsValue, OnlyWrites
<1>4. IsAccepted' <=> IsAccepted
  BY <1>1, <1>2, <1>3 DEF IsAccepted
<1>5. Terminated' = Terminated
  BY <1>1, <1>2 DEF Terminated, EndsInReturn, Returning, UsesAt, ScopesAt, Anchored, Scopes,
                    LastStatement
<1>6. \A i : IsLowered(i)' <=> IsLowered(i)
  BY <1>1, <1>2, <1>5 DEF IsLowered, LoweredLists, AfterReturn, EndsInReturn, Returning, UsesAt,
                          ScopesAt, Anchored, Scopes
<1>7. \A i : HasStorage(i)' <=> HasStorage(i)
  <2>1. Context' = Context /\ \A i : DefinitionOf(i)' = DefinitionOf(i)
    BY <1>1 DEF Context, DefinitionOf, Definition
  <2>2. /\ \A c : ThisClass(c)' = ThisClass(c)
        /\ \A s : IsClassScope(s)' <=> IsClassScope(s)
    BY <1>1 DEF ThisClass, OwnerClass, IsClassScope
  <2>3. \A s, kinds : DefinitionsIn(s, kinds)' = DefinitionsIn(s, kinds)
    BY <1>1 DEF DefinitionsIn, DefinitionIn, Definition
  <2>4. \A c : StorageOf(c)' = StorageOf(c)
    <3>1. \A c : ListsOf(c)' = ListsOf(c)
      BY <1>1 DEF ListsOf, IsWalked, Scopes
    <3>2. QED BY <2>2, <2>3, <3>1 DEF StorageOf
  <2>5. \A c, d : AddressIn(c, d)' = AddressIn(c, d)
    BY <2>2, <2>3, <2>4 DEF AddressIn, GlobalDeclarations
  <2>6. \A i : AddressIn(Context[uses[i].scope], DefinitionOf(i))'
                 = AddressIn(Context[uses[i].scope], DefinitionOf(i))
    BY <1>1, <2>1, <2>2, <2>3, <2>4 DEF AddressIn, GlobalDeclarations
  <2>7. \A i : CanCall(Context[uses[i].scope], DefinitionOf(i))'
                 <=> CanCall(Context[uses[i].scope], DefinitionOf(i))
    BY <1>1, <2>1, <2>2 DEF CanCall
  <2>8. QED BY <1>3, <2>1, <2>6, <2>7 DEF HasStorage
<1>8. QED BY <1>4, <1>5, <1>6, <1>7

\* Nor what the uses mean.
LEMMA SameUseMeaning ==
  ASSUME UNCHANGED programVars
  PROVE  \A i : Meaning(uses[i])' = Meaning(uses[i])
<1>1. UNCHANGED <<tables, anchors, classType, members, uses>>
  BY DEF programVars, numVars, classVars
<1>2. \A i : /\ Enclosing' = Enclosing
             /\ \A s : Counts(uses[i], s)' <=> Counts(uses[i], s)
  BY <1>1, SameTables DEF Counts, IsClassScope
<1>3. \A c, n : Inherited(c, n)' = Inherited(c, n)
  BY <1>1 DEF Inherited, Ancestor
<1>4. \A i, s : MeaningIn(uses[i], s)' = MeaningIn(uses[i], s)
  BY <1>1, <1>2, <1>3 DEF MeaningIn, IsClassScope
<1>5. QED BY <1>1, <1>2, <1>4 DEF Meaning

-----------------------------------------------------------------------------
(* The steps *)

\* A visit keeps SInv.
LEMMA BuildKeeps ==
  ASSUME SInv, Build
  PROVE  SInv'
<1>1. /\ stage = "build" /\ stage' = "build" /\ RecordCondition
      /\ BuildDeclaration \/ BuildStatement \/ BuildScopeEnd
  BY DEF Build
<1>2. IInv'
  <2>1. Next
    BY <1>1 DEF Next
  <2>2. QED BY <2>1, NextIInv DEF SInv
<1>3. LexicalInv' /\ TextInv'
  BY <1>1, <1>2, VisitLexical, VisitText DEF SInv
<1>4. ConditionsInv'
  BY <1>1, <1>2, BuildConditions DEF SInv
<1>5. phase' \in {"visit", "resolve"}
  BY <1>1 DEF SInv, StageInv, BuildDeclaration, VisitDeclaration, DeclareVariable, DeclareField,
     DeclareFunction, DeclareMethod, DeclareParameter, DeclareClass, AddFunctionAndEnterBody,
     BuildStatement, VisitStatement, VisitUse, VisitBlock, VisitIf, VisitElse, BuildScopeEnd,
     VisitScopeEnd, LeaveScope, EndProgram
<1>6. StageInv'
  BY <1>1, <1>5 DEF StageInv
<1>7. QED BY <1>2, <1>3, <1>4, <1>6 DEF SInv

\* Resolving the program keeps SInv; what goes on from there is accepted.
LEMMA ResolveProgramKeeps ==
  ASSUME SInv, ResolveProgram
  PROVE  SInv'
<1>1. /\ phase = "resolve" /\ phase' = phase /\ errors' = errors
      /\ UNCHANGED <<programVars, cursor, step, walk, proj, lookup, trail, conditionOf>>
      /\ resolved' = [i \in DOMAIN uses |-> Meaning(uses[i])]
      /\ IInv /\ LexicalInv /\ TextInv /\ ConditionsInv
  BY DEF SInv, ResolveProgram
<1>2. resolved' \in Seq(SymbolType)
  <2>1. \A i \in DOMAIN uses : Meaning(uses[i]) \in SymbolType
    BY <1>1, MeaningFacts DEF TextInv
  <2>2. DOMAIN uses = 1..Len(uses) /\ Len(uses) \in Nat
    BY <1>1 DEF IInv, TypeOK, BuilderTypeOK
  <2>3. resolved' \in [1..Len(uses) -> SymbolType]
    BY <1>1, <2>1, <2>2
  <2>4. QED BY <2>2, <2>3
<1>3. ResolverTypeOK'
  BY <1>1, <1>2 DEF IInv, TypeOK, ResolverTypeOK
<1>4. WalkInv'
  <2>1. UNCHANGED <<tables, uses>>
    BY <1>1 DEF programVars
  <2>2. QED BY <1>1, <2>1 DEF IInv, WalkInv, Use, SymbolHere, Scopes
<1>5. IInv'
  BY <1>1, <1>3, <1>4, ResolveStep DEF IInv, TypeOK, TableTypeOK
<1>6. LexicalInv' /\ TextInv' /\ ConditionsInv'
  BY <1>1, LexicalStays, TextStays
<1>7. StageInv'
  <2>1. \A use : Meaning(use)' = Meaning(use)
    BY <1>1, SameMeaning
  <2>2. DOMAIN uses' = DOMAIN uses /\ \A i : uses'[i] = uses[i]
    BY <1>1 DEF programVars
  <2>3. \A i : Meaning(uses[i])' = Meaning(uses[i])
    BY <1>1, SameUseMeaning
  <2>4. resolved' = [i \in DOMAIN uses' |-> Meaning(uses[i])']
    BY <1>1, <2>2, <2>3
  <2>5. (stage' = "interpret" /\ IsAccepted') \/ stage' = "end"
    BY DEF ResolveProgram
  <2>6. QED BY <1>1, <2>4, <2>5 DEF StageInv
<1>8. QED BY <1>5, <1>6, <1>7 DEF SInv

\* The later stages leave the program.
LEMMA LaterKeeps ==
  ASSUME SInv, UNCHANGED <<vars, conditionOf, statementKind>>, stage # "build", stage' # "build",
         stage' \notin {"build", "end"} => IsAccepted,
         stage' = "run" => \A i \in DOMAIN uses : IsLowered(i) => HasStorage(i)
  PROVE  SInv'
<1>1. /\ IInv /\ LexicalInv /\ TextInv /\ ConditionsInv /\ StageInv
      /\ UNCHANGED <<programVars, phase, resolved, uses>>
  BY DEF SInv, vars, programVars, tableVars, builderVars, resolverVars
<1>2. IInv'
  BY <1>1, NextIInv
<1>3. LexicalInv' /\ TextInv' /\ ConditionsInv'
  BY <1>1, LexicalStays, TextStays
<1>4. StageInv'
  <2>1. /\ IsAccepted' <=> IsAccepted
        /\ \A i : (IsLowered(i)' <=> IsLowered(i)) /\ (HasStorage(i)' <=> HasStorage(i))
    BY SameProgram
  <2>2. /\ phase = "resolve" /\ resolved = [i \in DOMAIN uses |-> Meaning(uses[i])]
    BY <1>1 DEF StageInv
  <2>3. resolved' = [i \in DOMAIN uses' |-> Meaning(uses[i])']
    <3>1. \A i : Meaning(uses[i])' = Meaning(uses[i])
      BY <1>1, SameUseMeaning
    <3>2. QED BY <1>1, <2>2, <3>1
  <2>4. QED BY <1>1, <2>1, <2>2, <2>3 DEF StageInv
<1>5. QED BY <1>2, <1>3, <1>4 DEF SInv

\* Before the first visit.
LEMMA InitSInv == ExecutionInit => SInv
<1> SUFFICES ASSUME ExecutionInit PROVE SInv
  OBVIOUS
<1>1. Init /\ stage = "build" /\ conditionOf = <<0>>
  BY DEF ExecutionInit
<1>2. IInv /\ LexicalInv
  BY <1>1, InitIInv, InitLexical
<1>3. /\ tables = <<NewTable(0, "program", NoClass)>> /\ Len(tables) = 1 /\ uses = <<>>
      /\ nextIds = <<1>> /\ ~elseTail /\ statements = 0 /\ phase = "visit"
      /\ classType = [c \in Classes |-> [decl |-> 0, base |-> NoClass]]
  BY <1>1 DEF Init, InitBuilder, EnterRootScope, InitTables, InitClassTypes
<1>4. /\ Scopes = {Root} /\ tables[Root].owner = "program"
      /\ \A n \in Names : tables[Root].symbols[n] = NoSymbol
  BY <1>3 DEF Scopes, Root, NewTable
<1>5. OwnersInv
  BY <1>3, <1>4 DEF OwnersInv, BlockOwners, NoSymbol, Declared
<1>6. NumberedOnce
  BY <1>3, <1>4 DEF NumberedOnce, NoSymbol
<1>7. BoundedInv
  BY <1>3, <1>4 DEF BoundedInv, NumberOf, NoSymbol
<1>8. ConditionsInv
  BY <1>1, <1>3, <1>4 DEF ConditionsInv, Root
<1>9. StageInv
  BY <1>1, <1>3 DEF StageInv
<1>10. QED BY <1>2, <1>5, <1>6, <1>7, <1>8, <1>9 DEF SInv, TextInv

\* Every step keeps SInv.
LEMMA NextSInv == SInv /\ [ExecutionNext]_allVars => SInv'
<1> SUFFICES ASSUME SInv, [ExecutionNext]_allVars PROVE SInv'
  OBVIOUS
<1>1. CASE Build
  BY <1>1, BuildKeeps
<1>2. CASE ResolveProgram
  BY <1>2, ResolveProgramKeeps
<1>3. CASE InterpretStep
  <2>1. /\ stage = "interpret" /\ stage' \in {"interpret", "lower"} /\ IsAccepted
        /\ UNCHANGED <<vars, conditionOf, statementKind>>
    BY <1>3 DEF InterpretStep, SInv, StageInv
  <2>2. QED BY <2>1, LaterKeeps
<1>4. CASE Lower
  <2>1. /\ stage = "lower" /\ stage' \in {"assertion", "run", "end"} /\ IsAccepted
        /\ UNCHANGED <<vars, conditionOf, statementKind>>
    BY <1>4 DEF Lower, SInv, StageInv, textVars
  <2>2. stage' = "run" => \A i \in DOMAIN uses : IsLowered(i) => HasStorage(i)
    BY <1>4 DEF Lower
  <2>3. QED BY <2>1, <2>2, LaterKeeps
<1>5. CASE RunStep
  <2>1. /\ stage = "run" /\ stage' \in {"run", "end"} /\ IsAccepted
        /\ UNCHANGED <<vars, conditionOf, statementKind>>
        /\ \A i \in DOMAIN uses : IsLowered(i) => HasStorage(i)
    BY <1>5 DEF RunStep, SInv, StageInv
  <2>2. QED BY <2>1, LaterKeeps
<1>6. CASE UNCHANGED allVars
  <2>1. UNCHANGED <<vars, conditionOf, statementKind, stage>>
    BY <1>6 DEF allVars, textVars
  <2>2. CASE stage = "build"
    <3>1. UNCHANGED programVars /\ UNCHANGED phase
      BY <2>1 DEF vars, programVars, tableVars, builderVars
    <3>2. QED BY <2>1, <2>2, <3>1, NextIInv, LexicalStays, TextStays DEF SInv, StageInv
  <2>3. CASE stage # "build"
    BY <2>1, <2>3, LaterKeeps DEF SInv, StageInv
  <2>4. QED BY <2>2, <2>3
<1>7. QED BY <1>1, <1>2, <1>3, <1>4, <1>5, <1>6 DEF ExecutionNext, ExecutionEnds

-----------------------------------------------------------------------------
(* Contexts *)

\* The context of a scope is itself or that of its parent.
LEMMA ContextEquation ==
  Tree => /\ Context[0] = 0
          /\ \A s \in Scopes :
               Context[s] = IF tables[s].owner \in {"function", "class"} THEN s
                            ELSE Context[tables[s].parent]
<1> SUFFICES ASSUME Tree
             PROVE  /\ Context[0] = 0
                    /\ \A s \in Scopes :
                         Context[s] = IF tables[s].owner \in {"function", "class"} THEN s
                                      ELSE Context[tables[s].parent]
  OBVIOUS
<1> DEFINE n == Len(tables)
           Own(s) == tables[s].owner \in {"function", "class"}
           p == [s \in 1..n |-> tables[s].parent]
           V == 0..n
           g == [s \in 1..n |-> [v \in V |-> IF Own(s) THEN s ELSE v]]
           Eq(f) == f = [s \in 0..n |-> IF s = NoScope \/ Own(s) THEN s ELSE f[tables[s].parent]]
<1>1. n \in Nat /\ Scopes = 1..n
  BY DEF Tree, Scopes
<1>2. \A s \in 1..n : p[s] \in 0..(s - 1) /\ p[s] = tables[s].parent
  BY <1>1 DEF Tree
<1>3. /\ 0 \in V /\ g \in [1..n -> [V -> V]]
      /\ \A s \in 1..n, v \in V : g[s][v] = IF Own(s) THEN s ELSE v
  BY <1>1
<1>4. \E f : FollowsParents(f, n, p, V, 0, g)
  <2> HIDE DEF V, g, p, n
  <2>1. QED BY <1>1, <1>2, <1>3, ParentRecursionExists
<1>5. PICK f : FollowsParents(f, n, p, V, 0, g)
  BY <1>4
<1>6. /\ f \in [0..n -> V] /\ f[0] = 0
      /\ \A s \in 1..n : f[s] = IF Own(s) THEN s ELSE f[tables[s].parent]
  <2>1. f \in [0..n -> V] /\ f[0] = 0 /\ \A s \in 1..n : f[s] = g[s][f[p[s]]]
    BY <1>5 DEF FollowsParents
  <2>2. \A s \in 1..n : p[s] \in 0..n
    BY <1>1, <1>2
  <2>3. \A s \in 1..n : p[s] \in 0..n /\ f[p[s]] \in V
    BY <2>1, <2>2
  <2> HIDE DEF V, g, p, Own
  <2>4. QED BY SMTT(20), <2>1, <2>3, <1>2, <1>3
<1> HIDE DEF Own
<1>7. Eq(f)
  <2>1. DOMAIN f = 0..n /\ f = [s \in 0..n |-> f[s]]
    BY <1>6
  <2>2. \A s \in 0..n : f[s] = IF s = NoScope \/ Own(s) THEN s ELSE f[tables[s].parent]
    BY <1>1, <1>6 DEF NoScope
  <2> HIDE DEF n, V
  <2>3. QED BY <2>1, <2>2
<1>8. Context = CHOOSE h : Eq(h)
  BY DEF Context, Own
<1>9. Eq(Context)
  <2> HIDE DEF Eq
  <2>1. QED BY <1>7, <1>8
<1>10. \A s \in 0..n :
         Context[s] = IF s = NoScope \/ Own(s) THEN s ELSE Context[tables[s].parent]
  <2>1. Context = [s \in 0..n |->
                     IF s = NoScope \/ Own(s) THEN s ELSE Context[tables[s].parent]]
    BY <1>9
  <2> HIDE DEF n, Eq
  <2>2. QED BY <2>1
<1>11. \A s \in Scopes : s \in 0..n /\ s # NoScope
  BY <1>1 DEF NoScope
<1>12. 0 \in 0..n
  BY <1>1
<1>13. QED
  <2> HIDE DEF n, Eq
  <2>1. QED BY <1>10, <1>11, <1>12 DEF NoScope, Own

\* The owners of scopes.
LEMMA OwnerKinds ==
  ASSUME IInv, OwnersInv, NEW s \in Scopes
  PROVE  /\ tables[s].owner \in Owners
         /\ s # Root => tables[s].parent \in Scopes /\ tables[s].parent < s /\ s \in Nat
         /\ tables[s].owner = "program" <=> s = Root
<1>1. tables[s] \in TableType
  BY ElementOfSeq DEF IInv, TypeOK, TableTypeOK, Scopes
<1>2. tables[s].owner \in Owners
  BY <1>1 DEF TableType
<1>3. s # Root => tables[s].parent \in Scopes
  BY TreeOfInv, EnclosingFacts
<1>4. tables[s].parent < s /\ s \in Nat
  BY DEF IInv, ScopesAgree, Scopes
<1>5. QED BY <1>2, <1>3, <1>4 DEF OwnersInv

ContextAround(s) ==
  /\ Context[s] \in Enclosing[s] /\ Context[s] \in Scopes
  /\ tables[Context[s]].owner \in {"function", "class"} /\ Context[Context[s]] = Context[s]
\* The context of a scope is a function or a class around it; that of a block is a function.
LEMMA ContextFacts ==
  ASSUME IInv, OwnersInv
  PROVE  \A s \in Scopes :
           /\ s = Root => Context[s] = NoScope
           /\ s # Root => ContextAround(s)
           /\ tables[s].owner \in BlockOwners => tables[Context[s]].owner = "function"
<1> DEFINE P(s) == /\ s = Root => Context[s] = NoScope
                   /\ s # Root => ContextAround(s)
                   /\ tables[s].owner \in BlockOwners => tables[Context[s]].owner = "function"
           T == {s \in Nat : s \in Scopes => P(s)}
<1>1. /\ Tree /\ Context[0] = 0
      /\ \A s \in Scopes : Context[s] = IF tables[s].owner \in {"function", "class"} THEN s
                                        ELSE Context[tables[s].parent]
  BY TreeOfInv, ContextEquation
<1>2. \A s \in Scopes : s \in Enclosing[s] /\ Enclosing[s] = {s} \cup Enclosing[tables[s].parent]
  BY <1>1, EnclosingFacts, EnclosingEquation
<1>3. ASSUME NEW s \in Nat, \A m \in Nat : m < s => m \in T
      PROVE  s \in T
  <2> SUFFICES ASSUME s \in Scopes PROVE P(s)
    OBVIOUS
  <2>1. /\ tables[s].owner \in Owners /\ (tables[s].owner = "program" <=> s = Root)
        /\ s # Root => tables[s].parent \in Scopes /\ tables[s].parent < s
    BY OwnerKinds
  <2>2. CASE s = Root
    <3>1. tables[s].parent = 0 /\ Context[s] = Context[tables[s].parent]
      BY <1>1, <2>1, <2>2 DEF Tree, NoScope
    <3>2. QED BY <1>1, <2>1, <2>2, <3>1 DEF BlockOwners, NoScope
  <2>3. CASE tables[s].owner \in {"function", "class"}
    <3>1. Context[s] = s /\ s # Root
      BY <1>1, <2>1, <2>3
    <3>2. QED BY <1>2, <2>3, <3>1 DEF ContextAround, BlockOwners
  <2>4. CASE tables[s].owner \in BlockOwners
    <3> DEFINE q == tables[s].parent
    <3>1. /\ s # Root /\ Context[s] = Context[q] /\ q \in Scopes /\ q < s /\ q \in Nat
          /\ tables[q].owner \notin {"program", "class"} /\ tables[q].owner \in Owners
          /\ (tables[q].owner = "program" <=> q = Root)
      BY <1>1, <2>1, <2>4, OwnerKinds DEF OwnersInv, BlockOwners, Scopes
    <3>2. P(q) /\ q # Root
      BY <1>3, <3>1
    <3>3. ContextAround(s)
      BY <1>2, <3>1, <3>2 DEF ContextAround
    <3>4. tables[Context[s]].owner = "function"
      <4>1. CASE tables[q].owner = "function"
        BY <1>1, <3>1, <4>1
      <4>2. CASE tables[q].owner \in BlockOwners
        BY <3>1, <3>2, <4>2
      <4>3. QED BY <3>1, <4>1, <4>2 DEF Owners
    <3>5. QED BY <3>1, <3>3, <3>4
  <2>5. QED BY <2>1, <2>2, <2>3, <2>4 DEF Owners
<1>4. \A s \in Nat : s \in T
  <2> HIDE DEF T
  <2>1. QED BY <1>3, StrongInduction
<1>5. QED BY <1>4 DEF Scopes

\* The context of a scope is the function or the class whose text it is in.
LEMMA AroundIsContext ==
  ASSUME IInv, OwnersInv
  PROVE  \A s \in Scopes : Around(s) = Context[s]
<1> DEFINE bodies(s) == {t \in Enclosing[s] : tables[t].owner \in {"function", "class"}}
           T == {s \in Nat : s \in Scopes => Around(s) = Context[s]}
<1>1. /\ Tree /\ Context[0] = 0 /\ Enclosing[0] = {} /\ Len(tables) \in Nat
      /\ \A s \in Scopes : Context[s] = IF tables[s].owner \in {"function", "class"} THEN s
                                        ELSE Context[tables[s].parent]
      /\ \A s \in Scopes : Enclosing[s] = {s} \cup Enclosing[tables[s].parent]
      /\ \A s \in Scopes : /\ Enclosing[s] \subseteq Scopes /\ \A a \in Enclosing[s] : a <= s
  BY TreeOfInv, ContextEquation, EnclosingEquation, EnclosingFacts DEF Tree
<1>2. \A s : Around(s) = IF bodies(s) = {} THEN NoScope ELSE Max(bodies(s))
  BY DEF Around
<1>3. ASSUME NEW s \in Nat, \A m \in Nat : m < s => m \in T
      PROVE  s \in T
  <2> SUFFICES ASSUME s \in Scopes PROVE Around(s) = Context[s]
    OBVIOUS
  <2>1. /\ (tables[s].owner = "program" <=> s = Root)
        /\ s # Root => tables[s].parent \in Scopes /\ tables[s].parent < s
    BY OwnerKinds
  <2>2. CASE tables[s].owner \in {"function", "class"}
    <3>1. s \in bodies(s) /\ bodies(s) \subseteq 0..Len(tables) /\ \A a \in bodies(s) : a <= s
      BY <1>1, <2>2 DEF Scopes
    <3>2. PICK B : B = bodies(s)
      OBVIOUS
    <3>3. Max(B) \in B /\ \A y \in B : y <= Max(B)
      <4>1. B \in SUBSET (0..Len(tables)) /\ B # {}
        BY <3>1, <3>2
      <4>2. QED BY <1>1, <4>1, MaxIsLargest
    <3>4. Max(B) <= s /\ s <= Max(B) /\ Max(B) \in Nat
      BY <3>1, <3>2, <3>3
    <3>5. Max(B) = s /\ B # {}
      BY <3>3, <3>4
    <3>6. QED BY <1>1, <1>2, <2>2, <3>2, <3>5
  <2>3. CASE tables[s].owner \notin {"function", "class"}
    <3>1. bodies(s) = bodies(tables[s].parent) /\ Context[s] = Context[tables[s].parent]
      BY <1>1, <2>3
    <3>2. Around(s) = Around(tables[s].parent)
      BY <1>2, <3>1
    <3>3. CASE s = Root
      <4>1. tables[s].parent = 0
        BY <1>1, <3>3 DEF Tree, NoScope
      <4>2. bodies(0) = {}
        BY <1>1
      <4>3. QED BY <1>1, <1>2, <3>1, <3>2, <4>1, <4>2 DEF NoScope
    <3>4. CASE s # Root
      <4>1. tables[s].parent \in T /\ tables[s].parent \in Scopes
        BY <1>3, <2>1, <3>4 DEF Scopes
      <4>2. QED BY <3>1, <3>2, <4>1
    <3>5. QED BY <3>3, <3>4
  <2>4. QED BY <2>2, <2>3
<1>4. \A s \in Nat : s \in T
  <2> HIDE DEF T
  <2>1. QED BY <1>3, StrongInduction
<1>5. QED BY <1>4 DEF Scopes

\* The lists of a function are its body and the blocks in its lists.
LEMMA ListsEquation ==
  ASSUME Tree, NEW function
  PROVE  \A s \in Scopes : s \in ListsOf(function) <=>
           s = function \/ (IsWalked(s) /\ tables[s].parent \in ListsOf(function))
<1> DEFINE n == Len(tables)
           p == [s \in 1..n |-> tables[s].parent]
           V == BOOLEAN
           Walks(s, v) == s = function \/ (IsWalked(s) /\ v)
           g == [s \in 1..n |-> [v \in V |-> Walks(s, v)]]
           Eq(f) == f = [s \in 0..n |->
                           s # NoScope /\ (s = function \/ (IsWalked(s) /\ f[tables[s].parent]))]
           W == CHOOSE h : Eq(h)
<1>1. n \in Nat /\ Scopes = 1..n
  BY DEF Tree, Scopes
<1>2. \A s \in 1..n : p[s] \in 0..(s - 1) /\ p[s] = tables[s].parent
  BY <1>1 DEF Tree
<1>3. FALSE \in V /\ g \in [1..n -> [V -> V]] /\ \A s \in 1..n : \A v \in V : g[s][v] = Walks(s, v)
  <2>1. \A s \in 1..n : \A v \in V : Walks(s, v) \in V
    BY Zenon
  <2> HIDE DEF Walks
  <2>2. QED BY <2>1
<1>4. \E f : FollowsParents(f, n, p, V, FALSE, g)
  <2> HIDE DEF V, g, p, n
  <2>1. QED BY <1>1, <1>2, <1>3, ParentRecursionExists
<1>5. PICK f : FollowsParents(f, n, p, V, FALSE, g)
  BY <1>4
<1>6. /\ f \in [0..n -> V] /\ f[0] = FALSE
      /\ \A s \in 1..n : f[s] = Walks(s, f[tables[s].parent])
  <2>1. f \in [0..n -> V] /\ f[0] = FALSE /\ \A s \in 1..n : f[s] = g[s][f[p[s]]]
    BY <1>5 DEF FollowsParents
  <2>2. \A s \in 1..n : p[s] \in 0..n
    BY <1>1, <1>2
  <2>3. \A s \in 1..n : p[s] \in 0..n /\ f[p[s]] \in V
    BY <2>1, <2>2
  <2> HIDE DEF V, g, p, Walks
  <2>4. QED BY <2>1, <2>3, <1>2, <1>3
<1>7. Eq(f)
  <2>1. DOMAIN f = 0..n /\ f = [s \in 0..n |-> f[s]]
    BY <1>6
  <2>2. \A s \in 0..n : s = NoScope \/ s \in 1..n
    BY <1>1 DEF NoScope
  <2>3. f[NoScope] = FALSE
    BY <1>6 DEF NoScope
  <2>4. \A s \in 0..n : f[s] = (s # NoScope /\ Walks(s, f[tables[s].parent]))
    <3>1. ASSUME NEW s \in 1..n
          PROVE  f[s] = (s # NoScope /\ Walks(s, f[tables[s].parent]))
      <4>1. s # NoScope
        BY DEF NoScope
      <4>2. f[s] = Walks(s, f[tables[s].parent])
        BY <1>6
      <4> HIDE DEF n
      <4>3. QED BY Zenon, <4>1, <4>2
    <3>2. f[NoScope] = (NoScope # NoScope /\ Walks(NoScope, f[tables[NoScope].parent]))
      BY Zenon, <2>3
    <3> HIDE DEF n, Walks
    <3>3. QED BY Zenon, <2>2, <3>1, <3>2
  <2> HIDE DEF n, V
  <2>5. QED BY Zenon, <2>1, <2>4
<1>8. ListsOf(function) = {s \in Scopes : W[s]}
  BY Zenon DEF ListsOf
<1>9. Eq(W)
  <2> HIDE DEF Eq
  <2>1. QED BY <1>7
<1> HIDE DEF W
<1>10. \A s \in 0..n :
         W[s] = (s # NoScope /\ (s = function \/ (IsWalked(s) /\ W[tables[s].parent])))
  <2>1. W = [s \in 0..n |->
               s # NoScope /\ (s = function \/ (IsWalked(s) /\ W[tables[s].parent]))]
    BY Zenon, <1>9
  <2> HIDE DEF n, Eq
  <2>2. QED BY Zenon, <2>1
<1>11. \A s \in Scopes : s \in 0..n /\ s # NoScope
  BY <1>1 DEF NoScope
<1>12. \A s \in Scopes : tables[s].parent \in Scopes \/ tables[s].parent = NoScope
  BY <1>1, <1>2 DEF NoScope
<1>13. ~W[NoScope] /\ NoScope \notin Scopes
  <2>1. NoScope \in 0..n
    BY <1>1 DEF NoScope
  <2>2. QED BY Zenon, <1>10, <1>11, <2>1
<1>14. \A s \in Scopes : s \in ListsOf(function) <=> W[s]
  BY <1>8
<1> HIDE DEF n, Eq
<1>15. \A s \in Scopes : tables[s].parent \in ListsOf(function) <=> W[tables[s].parent]
  BY Zenon, <1>8, <1>12, <1>13
<1>16. QED BY Zenon, <1>10, <1>11, <1>14, <1>15

\* They are the scopes whose context is the function.
LEMMA ListsAreOfContext ==
  ASSUME IInv, OwnersInv, NEW f \in Scopes, tables[f].owner = "function"
  PROVE  ListsOf(f) = {s \in Scopes : Context[s] = f}
<1> DEFINE T == {s \in Nat : s \in Scopes => (s \in ListsOf(f) <=> Context[s] = f)}
<1>1. /\ Tree /\ Context[0] = 0
      /\ \A s \in Scopes : Context[s] = IF tables[s].owner \in {"function", "class"} THEN s
                                        ELSE Context[tables[s].parent]
  BY TreeOfInv, ContextEquation
<1>2. \A s \in Scopes : s \in ListsOf(f) <=>
        s = f \/ (IsWalked(s) /\ tables[s].parent \in ListsOf(f))
  BY <1>1, ListsEquation
<1>3. ListsOf(f) \subseteq Scopes
  BY Zenon DEF ListsOf
<1>4. ASSUME NEW s \in Nat, \A m \in Nat : m < s => m \in T
      PROVE  s \in T
  <2> SUFFICES ASSUME s \in Scopes PROVE s \in ListsOf(f) <=> Context[s] = f
    OBVIOUS
  <2>1. /\ tables[s].owner \in Owners /\ (tables[s].owner = "program" <=> s = Root)
        /\ s # Root => tables[s].parent \in Scopes /\ tables[s].parent < s
    BY OwnerKinds
  <2>2. CASE tables[s].owner \in {"function", "class"}
    BY <1>1, <1>2, <2>2 DEF IsWalked, BlockOwners
  <2>3. CASE s = Root
    <3>1. Context[s] = 0 /\ f # 0 /\ tables[s].owner = "program"
      BY <1>1, <2>1, <2>3, ContextFacts DEF Scopes, NoScope
    <3>2. QED BY <1>2, <3>1 DEF IsWalked, BlockOwners
  <2>4. CASE tables[s].owner \in BlockOwners
    <3>1. tables[s].parent \in T /\ tables[s].parent \in Scopes
      BY <1>4, <2>1, <2>4 DEF Scopes, BlockOwners
    <3>2. s # f /\ Context[s] = Context[tables[s].parent]
      BY <1>1, <2>4 DEF BlockOwners
    <3>3. QED BY <1>2, <2>4, <3>1, <3>2 DEF IsWalked
  <2>5. QED BY <2>1, <2>2, <2>3, <2>4 DEF Owners
<1>5. \A s \in Nat : s \in T
  <2> HIDE DEF T
  <2>1. QED BY <1>4, StrongInduction
<1>6. QED BY <1>3, <1>5 DEF Scopes

-----------------------------------------------------------------------------
(* Storage *)

\* The parts of a definition.
LEMMA DefinitionParts ==
  ASSUME NEW n, NEW symbol
  PROVE  /\ Definition(n, symbol).name = n /\ Definition(n, symbol).kind = symbol.kind
         /\ Definition(n, symbol).scope = symbol.scope /\ Definition(n, symbol).id = symbol.id
  BY DEF Definition

\* A context is no scope, or a function or class.
IsContext(c) == c = NoScope \/ (c \in Scopes /\ tables[c].owner \in {"function", "class"})

\* A definition is in the frame of the function that is the context of its scope, or global.
LEMMA InStorage ==
  ASSUME IInv, OwnersInv, NEW context, IsContext(context),
         NEW s \in Scopes, NEW n \in Names, Declared(s, n), NEW d, d = DefinitionIn(n, s)
  PROVE  /\ d \in StorageOf(context) <=>
              /\ context # NoScope /\ ~IsClassScope(context)
              /\ Context[s] = context /\ d.kind \in {"Variable", "Parameter"}
         /\ d \in GlobalDeclarations <=> s = Root /\ d.kind = "Variable"
<1>1. /\ d.name = n /\ d.kind = tables[s].symbols[n].kind /\ d.scope = s
  BY DefinitionParts, SymbolParts DEF DefinitionIn
<1>2. ASSUME NEW t \in Scopes, NEW kinds, kinds \subseteq {"Variable", "Parameter"}
      PROVE  d \in DefinitionsIn(t, kinds) <=> s = t /\ d.kind \in kinds
  <2>1. CASE s = t
    <3>1. d.kind \in kinds => d \in DefinitionsIn(t, kinds)
      BY <1>1, <2>1 DEF DefinitionsIn
    <3>2. ASSUME d \in DefinitionsIn(t, kinds) PROVE d.kind \in kinds
      <4>1. PICK m \in Names : tables[t].symbols[m].kind \in kinds /\ d = DefinitionIn(m, t)
        BY <3>2 DEF DefinitionsIn
      <4>2. QED BY <4>1, DefinitionParts DEF DefinitionIn
    <3>3. QED BY <2>1, <3>1, <3>2
  <2>2. ASSUME d \in DefinitionsIn(t, kinds) PROVE s = t
    <3>1. PICK m \in Names : tables[t].symbols[m].kind \in kinds /\ d = DefinitionIn(m, t)
      BY <2>2 DEF DefinitionsIn
    <3>2. d.scope = tables[t].symbols[m].scope
      BY <3>1, DefinitionParts DEF DefinitionIn
    <3>3. tables[t].symbols[m].scope = t
      BY <1>2, <3>1, SymbolParts
    <3>4. QED BY <1>1, <3>2, <3>3
  <2>3. QED BY <2>1, <2>2
<1>3. d \in GlobalDeclarations <=> s = Root /\ d.kind = "Variable"
  <2>1. Root \in Scopes
    BY DEF IInv, TreeInv, TypeOK, TableTypeOK, Scopes, Root
  <2>2. QED BY <1>2, <2>1 DEF GlobalDeclarations
<1>4. CASE context = NoScope \/ IsClassScope(context)
  BY <1>3, <1>4 DEF StorageOf
<1>5. CASE ~(context = NoScope \/ IsClassScope(context))
  <2>1. context \in Scopes /\ tables[context].owner = "function"
    BY <1>5 DEF IsContext, IsClassScope
  <2>2. StorageOf(context) =
          UNION {DefinitionsIn(t, {"Variable", "Parameter"}) : t \in ListsOf(context)}
    BY <1>5 DEF StorageOf
  <2>3. ListsOf(context) = {t \in Scopes : Context[t] = context}
    BY <2>1, ListsAreOfContext
  <2>4. d \in StorageOf(context) <=>
          \E t \in Scopes :
            Context[t] = context /\ d \in DefinitionsIn(t, {"Variable", "Parameter"})
    BY <2>2, <2>3
  <2>5. QED BY <1>2, <1>3, <1>5, <2>4
<1>6. QED BY <1>4, <1>5

\* The context is a method or a class.
LEMMA HasThis ==
  ASSUME IInv, OwnersInv, NEW context, IsContext(context)
  PROVE  ThisClass(context) # NoScope <=>
           /\ context # NoScope
           /\ IsClassScope(context) \/ IsClassScope(tables[context].parent)
<1>1. CASE context = NoScope
  BY <1>1 DEF ThisClass
<1>2. CASE context # NoScope
  <2>1. context \in Scopes /\ context # Root
    BY <1>2, OwnerKinds DEF IsContext
  <2>2. tables[context].parent \in Scopes
    BY <2>1, OwnerKinds
  <2>3. \A s \in Scopes : s # NoScope
    BY DEF Scopes, NoScope
  <2>4. QED BY <1>2, <2>1, <2>2, <2>3 DEF ThisClass, OwnerClass
<1>3. QED BY <1>1, <1>2

\* What the resolver and the checks have let pass of a use.
LEMMA AcceptedUse ==
  ASSUME SInv, stage \notin {"build", "end"}, NEW i \in DOMAIN uses,
         NEW d, d = DefinitionOf(i), NEW n, n = uses[i].form.name
  PROVE  /\ n \in Names /\ i # 0
         /\ d.kind = "Function" =>
              ~IsValue(i) \/ (i \in ValueStatements /\ statementKind[i] # "return")
         /\ ~IsValue(i) => d.kind = "Function"
         /\ \/ /\ d.scope \in Enclosing[uses[i].scope] /\ d.scope \in Scopes
               /\ Declared(d.scope, n) /\ d = DefinitionIn(n, d.scope) /\ d.kind \in SymbolKinds
               /\ Counts(uses[i], d.scope)
            \/ /\ d.kind = "Function" /\ uses[i].form.kind = "call" /\ ~IsValue(i)
               /\ d.scope \in Scopes /\ IsClassScope(d.scope)
<1>1. /\ IsAccepted /\ resolved = [j \in DOMAIN uses |-> Meaning(uses[j])]
      /\ IInv /\ OwnersInv
  BY DEF SInv, StageInv, TextInv
<1>2. PICK symbol : symbol = resolved[i]
  OBVIOUS
<1>3. symbol # NoSymbol /\ symbol = Meaning(uses[i])
  BY <1>1, <1>2 DEF IsAccepted
<1>4. d.kind = symbol.kind /\ d.scope = symbol.scope /\ d = Definition(n, symbol)
  BY <1>2, DefinitionParts DEF DefinitionOf
<1>5. n \in Names /\ i # 0
  <2>1. uses[i].form.name \in Names
    BY <1>1, UseParts
  <2>2. i # 0
    BY <1>1 DEF IInv, TypeOK, BuilderTypeOK
  <2>3. QED BY <2>1, <2>2
<1>6. /\ d.kind = "Function" =>
           ~IsValue(i) \/ (i \in ValueStatements /\ statementKind[i] # "return")
      /\ ~IsValue(i) => d.kind = "Function"
  BY <1>1, <1>2, <1>4 DEF IsAccepted
<1>7. CASE \E s : MeansSymbolOf(uses[i], symbol, s)
  <2>1. PICK s : MeansSymbolOf(uses[i], symbol, s)
    BY <1>7
  <2>2. /\ s \in Enclosing[uses[i].scope] /\ s \in Scopes /\ Counts(uses[i], s)
        /\ symbol = tables[s].symbols[n] /\ symbol.scope = s /\ symbol.kind \in SymbolKinds
    BY <2>1 DEF MeansSymbolOf
  <2>3. Declared(s, n) /\ d = DefinitionIn(n, s)
    BY <1>3, <1>4, <2>2 DEF Declared, DefinitionIn
  <2>4. QED BY <1>4, <1>5, <1>6, <2>2, <2>3
<1>8. CASE MeansMethod(uses[i], symbol)
  BY <1>4, <1>5, <1>6, <1>8 DEF MeansMethod, IsValue
<1>9. QED BY <1>1, <1>3, <1>7, <1>8, MeaningFacts

\* The context of a use.
LEMMA UseContext ==
  ASSUME IInv, OwnersInv, NEW i \in DOMAIN uses
  PROVE  /\ IsContext(Context[uses[i].scope]) /\ Around(uses[i].scope) = Context[uses[i].scope]
<1>1. uses[i].scope \in Scopes
  BY UseParts
<1>2. QED BY <1>1, ContextFacts, AroundIsContext DEF IsContext, ContextAround

\* Whether a variable has an address where it is used.
LEMMA AddressOfVariable ==
  ASSUME IInv, OwnersInv, NEW context, IsContext(context),
         NEW s \in Scopes, NEW n \in Names, Declared(s, n), NEW d, d = DefinitionIn(n, s),
         d.kind \in SymbolKinds \ {"Function"}
  PROVE  /\ d.scope = s
         /\ IsClassScope(s) => (AddressIn(context, d) # "none" <=> ThisClass(context) # NoScope)
         /\ ~IsClassScope(s) /\ s = Root => AddressIn(context, d) = "global"
         /\ ~IsClassScope(s) /\ s # Root /\ Around(s) = context => AddressIn(context, d) = "frame"
         /\ ~IsClassScope(s) /\ s # Root /\ Around(s) # context => AddressIn(context, d) = "none"
<1>1. d.scope = s /\ d.kind = tables[s].symbols[n].kind /\ d.kind \in {"Variable", "Parameter"}
  BY DefinitionParts, SymbolParts DEF DefinitionIn, SymbolKinds
<1>2. /\ d \in StorageOf(context) <=>
              /\ context # NoScope /\ ~IsClassScope(context)
              /\ Context[s] = context /\ d.kind \in {"Variable", "Parameter"}
      /\ d \in GlobalDeclarations <=> s = Root /\ d.kind = "Variable"
  BY InStorage
<1>3. /\ Around(s) = Context[s] /\ tables[s].owner \in Owners
      /\ (tables[s].owner = "program" <=> s = Root)
  BY AroundIsContext, OwnerKinds
<1>4. CASE IsClassScope(s)
  <2>1. d \notin StorageOf(context)
    <3>1. Context[s] = s
      BY <1>4, TreeOfInv, ContextEquation DEF IsClassScope
    <3>2. QED BY <1>2, <1>4, <3>1
  <2>2. AddressIn(context, d) = IF ThisClass(context) = NoScope THEN "none" ELSE "field"
    BY <1>1, <1>4, <2>1 DEF AddressIn
  <2>3. QED BY <1>1, <1>4, <2>2
<1>5. CASE ~IsClassScope(s) /\ s = Root
  <2>1. d.kind = "Variable"
    BY <1>1, <1>3, <1>5 DEF OwnersInv
  <2>2. d \notin StorageOf(context) /\ d \in GlobalDeclarations
    BY <1>2, <1>5, <2>1, ContextFacts
  <2>3. AddressIn(context, d) = "global"
    BY <1>1, <1>5, <2>1, <2>2 DEF AddressIn
  <2>4. QED BY <1>1, <1>5, <2>3
<1>6. CASE ~IsClassScope(s) /\ s # Root
  <2>1. Context[s] # NoScope /\ Context[s] \in Scopes /\ ~IsClassScope(Context[s])
    <3>1. CASE tables[s].owner = "function"
      <4>1. Context[s] = s
        BY <3>1, TreeOfInv, ContextEquation
      <4>2. QED BY <1>6, <4>1 DEF Scopes, NoScope
    <3>2. CASE tables[s].owner \in BlockOwners
      <4>1. tables[Context[s]].owner = "function" /\ Context[s] \in Scopes
        BY <1>6, <3>2, ContextFacts DEF ContextAround
      <4>2. QED BY <4>1 DEF Scopes, NoScope, IsClassScope
    <3>3. QED BY <1>3, <1>6, <3>1, <3>2 DEF Owners, IsClassScope
  <2>2. d \notin GlobalDeclarations
    BY <1>2, <1>6
  <2>3. CASE Context[s] = context
    <3>1. d \in StorageOf(context)
      BY <1>1, <1>2, <2>1, <2>3
    <3>2. AddressIn(context, d) = "frame"
      BY <1>1, <1>6, <2>2, <3>1 DEF AddressIn
    <3>3. QED BY <1>1, <1>3, <1>6, <2>3, <3>2
  <2>4. CASE Context[s] # context
    <3>1. d \notin StorageOf(context)
      BY <1>2, <2>4
    <3>2. AddressIn(context, d) = "none"
      BY <1>1, <1>6, <2>2, <3>1 DEF AddressIn
    <3>3. QED BY <1>1, <1>3, <1>6, <2>4, <3>2
  <2>5. QED BY <2>3, <2>4
<1>7. QED BY <1>4, <1>5, <1>6

\* Functions have no address to read or write.
LEMMA AddressOfFunction ==
  ASSUME NEW context, NEW d, d.kind = "Function"
  PROVE  AddressIn(context, d) = "none"
<1>1. d \notin StorageOf(context)
  <2>1. ASSUME NEW s, d \in DefinitionsIn(s, {"Variable", "Parameter"}) PROVE FALSE
    <3>1. PICK m \in Names : /\ tables[s].symbols[m].kind \in {"Variable", "Parameter"}
                             /\ d = DefinitionIn(m, s)
      BY <2>1 DEF DefinitionsIn
    <3>2. QED BY <3>1, DefinitionParts DEF DefinitionIn
  <2>2. QED BY <2>1 DEF StorageOf
<1>2. QED BY <1>1 DEF AddressIn

\* A use has storage where it is lowered, but for three kinds of uses.
LEMMA StorageOfUse ==
  ASSUME SInv, stage \notin {"build", "end"}, NEW i \in DOMAIN uses,
         NEW d, d = DefinitionOf(i), NEW inside, inside = Around(uses[i].scope)
  PROVE  ~HasStorage(i) <=>
           \/ /\ ~IsClassScope(d.scope) /\ d.kind # "Function" /\ d.scope # Root
              /\ Around(d.scope) # inside
           \/ /\ IsClassScope(d.scope)
              /\ ~(/\ inside # NoScope
                   /\ IsClassScope(inside) \/ IsClassScope(tables[inside].parent))
              /\ d.kind = "Function" => IsCall(i)
           \/ d.kind = "Function" /\ OnlyWrites(i)
<1> DEFINE n == uses[i].form.name
<1>1. /\ n \in Names /\ i # 0
      /\ ~IsValue(i) => d.kind = "Function"
      /\ \/ /\ d.scope \in Scopes
            /\ Declared(d.scope, n) /\ d = DefinitionIn(n, d.scope) /\ d.kind \in SymbolKinds
         \/ d.kind = "Function" /\ ~IsValue(i)
  BY AcceptedUse
<1>2. IInv /\ OwnersInv
  BY DEF SInv, TextInv
<1>3. IsContext(inside) /\ inside = Context[uses[i].scope]
  BY <1>2, UseContext
<1>4. HasStorage(i) <=>
        IF IsValue(i) THEN (d.kind = "Function" /\ ~OnlyWrites(i)) \/ AddressIn(inside, d) # "none"
        ELSE CanCall(inside, d)
  BY <1>3 DEF HasStorage
<1>5. ThisClass(inside) # NoScope <=>
        /\ inside # NoScope
        /\ IsClassScope(inside) \/ IsClassScope(tables[inside].parent)
  BY <1>2, <1>3, HasThis
<1>6. OnlyWrites(i) => IsValue(i)
  BY DEF OnlyWrites, ValueStatements
<1>7. CASE ~IsValue(i)
  BY <1>1, <1>4, <1>5, <1>6, <1>7 DEF CanCall, IsCall
<1>8. CASE IsValue(i) /\ d.kind = "Function"
  <2>1. AddressIn(inside, d) = "none"
    BY <1>8, AddressOfFunction
  <2>2. QED BY <1>4, <1>8, <2>1 DEF IsCall
<1>9. CASE IsValue(i) /\ d.kind # "Function"
  <2>1. /\ d.scope \in Scopes /\ Declared(d.scope, n) /\ d = DefinitionIn(n, d.scope)
        /\ d.kind \in SymbolKinds \ {"Function"}
    BY <1>1, <1>9
  <2> HIDE DEF n
  <2>2. /\ IsClassScope(d.scope) => (AddressIn(inside, d) # "none" <=> ThisClass(inside) # NoScope)
        /\ ~IsClassScope(d.scope) /\ d.scope = Root => AddressIn(inside, d) = "global"
        /\ ~IsClassScope(d.scope) /\ d.scope # Root /\ Around(d.scope) = inside =>
             AddressIn(inside, d) = "frame"
        /\ ~IsClassScope(d.scope) /\ d.scope # Root /\ Around(d.scope) # inside =>
             AddressIn(inside, d) = "none"
    <3>1. n \in Names
      BY <1>1 DEF n
    <3>2. PICK s : s = d.scope
      OBVIOUS
    <3>3. s \in Scopes /\ Declared(s, n) /\ d = DefinitionIn(n, s)
      BY <2>1, <3>2
    <3>4. QED BY <1>2, <1>3, <2>1, <3>1, <3>2, <3>3, AddressOfVariable
  <2>3. QED BY <1>4, <1>5, <1>9, <2>2
<1>10. QED BY <1>7, <1>8, <1>9

\* SInv says what EveryUseHasStorage says of the program that is lowered.
LEMMA StorageFromInv == SInv => EveryUseHasStorage
<1> SUFFICES ASSUME SInv, stage = "assertion" \/ stage = "run", NEW i \in DOMAIN uses
             PROVE  LET d == DefinitionOf(i)
                        inside == Around(uses[i].scope)
                        member == IsClassScope(d.scope)
                        isMethod == /\ inside # NoScope
                                    /\ IsClassScope(inside) \/ IsClassScope(tables[inside].parent)
                    IN  ~HasStorage(i) <=>
                          \/ ~member /\ d.kind # "Function" /\ d.scope # Root
                             /\ Around(d.scope) # inside
                          \/ member /\ ~isMethod /\ (d.kind = "Function" => IsCall(i))
                          \/ d.kind = "Function" /\ OnlyWrites(i)
  BY DEF EveryUseHasStorage
<1>1. stage \notin {"build", "end"}
  OBVIOUS
<1>2. QED BY <1>1, StorageOfUse

\* Of programs that are executed, SInv is an invariant.
THEOREM ProgramInvariant == ExecutionSpec => []SInv
BY InitSInv, NextSInv, PTL DEF ExecutionSpec

\* Storage is missing for exactly the uses EveryUseHasStorage names.
THEOREM StorageFound == ExecutionSpec => []EveryUseHasStorage
BY ProgramInvariant, StorageFromInv, PTL

-----------------------------------------------------------------------------
(* Scopes in order *)

\* f lists T in increasing order.
InOrder(f, T) ==
  f \in [1..Cardinality(T) -> T] /\ \A j, k \in DOMAIN f : j < k => f[j] < f[k]

\* Numbers that are not too many can be put in order.
LEMMA OrderExists ==
  ASSUME NEW n \in Nat, NEW T0 \in SUBSET (0..n)
  PROVE  \E f : InOrder(f, T0)
<1> DEFINE S == {m \in Nat : \A T \in SUBSET (0..n) : Cardinality(T) = m => \E f : InOrder(f, T)}
<1>1. \A T \in SUBSET (0..n) : IsFiniteSet(T) /\ Cardinality(T) \in Nat
  <2>1. 0 \in Int /\ n \in Int
    OBVIOUS
  <2>2. IsFiniteSet(0..n)
    BY <2>1, FS_Interval
  <2>3. QED BY <2>2, FS_Subset, FS_CardinalityType
<1>2. 0 \in S
  <2>1. ASSUME NEW T \in SUBSET (0..n), Cardinality(T) = 0 PROVE \E f : InOrder(f, T)
    <3>1. T = {}
      BY <1>1, <2>1, FS_EmptySet
    <3>2. [i \in 1..0 |-> i] \in [1..Cardinality(T) -> T]
      BY <2>1
    <3>3. InOrder([i \in 1..0 |-> i], T)
      BY <3>2 DEF InOrder
    <3>4. QED BY <3>3
  <2>2. QED BY <2>1
<1>3. ASSUME NEW m \in Nat, m \in S PROVE m + 1 \in S
  <2>1. ASSUME NEW T \in SUBSET (0..n), Cardinality(T) = m + 1 PROVE \E f : InOrder(f, T)
    <3>1. T # {}
      BY <1>1, <2>1, FS_EmptySet
    <3>2. PICK x \in T : \A y \in T : y <= x
      BY <3>1, MaxIsLargest
    <3> DEFINE U == T \ {x}
    <3>3. U \in SUBSET (0..n) /\ Cardinality(U) = m
      <4>1. Cardinality(U) = Cardinality(T) - 1
        BY <1>1, FS_RemoveElement
      <4>2. QED BY <2>1, <4>1
    <3>4. PICK f : InOrder(f, U)
      BY <1>3, <3>3
    <3> DEFINE h == [i \in 1..(m + 1) |-> IF i = m + 1 THEN x ELSE f[i]]
    <3>5. f \in [1..m -> U] /\ \A j, k \in 1..m : j < k => f[j] < f[k]
      BY <3>3, <3>4 DEF InOrder
    <3>6. \A y \in U : y < x /\ y \in T
      BY <3>2
    <3> HIDE DEF U
    <3>7. h \in [1..(m + 1) -> T]
      BY <3>5, <3>6
    <3>8. ASSUME NEW j \in 1..(m + 1), NEW k \in 1..(m + 1), j < k PROVE h[j] < h[k]
      <4>1. j \in 1..m /\ f[j] \in U /\ h[j] = f[j]
        BY <3>5, <3>8
      <4>2. CASE k = m + 1
        BY <3>6, <4>1, <4>2
      <4>3. CASE k # m + 1
        BY <3>5, <3>8, <4>1, <4>3
      <4>4. QED BY <4>2, <4>3
    <3>9. InOrder(h, T)
      BY <2>1, <3>7, <3>8 DEF InOrder
    <3>10. QED BY <3>9
  <2>2. QED BY <2>1
<1>4. \A m \in Nat : m \in S
  <2> HIDE DEF S
  <2>1. QED BY <1>2, <1>3, Induction
<1>5. QED BY <1>1, <1>4

\* What is in order is all there.
LEMMA OrderIsOnto ==
  ASSUME NEW n \in Nat, NEW T \in SUBSET (0..n), NEW f, InOrder(f, T)
  PROVE  /\ Cardinality(T) \in Nat /\ f \in Seq(T) /\ Len(f) = Cardinality(T)
         /\ Range(f) = T
<1>1. IsFiniteSet(T) /\ Cardinality(T) \in Nat
  <2>1. 0 \in Int /\ n \in Int
    OBVIOUS
  <2>2. IsFiniteSet(0..n)
    BY <2>1, FS_Interval
  <2>3. QED BY <2>2, FS_Subset, FS_CardinalityType
<1>2. PICK m \in Nat : m = Cardinality(T)
  BY <1>1
<1>3. f \in [1..m -> T] /\ \A j, k \in 1..m : j < k => f[j] < f[k]
  BY <1>2 DEF InOrder
<1>4. IsFiniteSet(1..m) /\ Cardinality(1..m) = m
  BY <1>2, FS_Interval
<1>5. f \in Injection(1..m, T)
  <2>1. ASSUME NEW j \in 1..m, NEW k \in 1..m, f[j] = f[k] PROVE j = k
    <3>1. f[j] \in 0..n /\ f[k] \in 0..n
      BY <1>3
    <3>2. ~(j < k) /\ ~(k < j)
      BY <1>3, <2>1, <3>1
    <3>3. QED BY <3>2
  <2>2. QED BY <1>3, <2>1 DEF Injection, IsInjective
<1>6. f \in Surjection(1..m, T)
  BY <1>1, <1>2, <1>4, <1>5, FS_Injection
<1>7. Range(f) = T
  BY <1>6 DEF Surjection, Range
<1>8. f \in Seq(T) /\ Len(f) = m
  BY <1>3
<1>9. QED BY <1>1, <1>2, <1>7, <1>8

\* The scopes of a statement, in order, are all that are anchored there.
LEMMA ScopesAtFacts ==
  ASSUME IInv, NEW s, NEW id
  PROVE  /\ ScopesAt(s, id) \in Seq(Anchored(s, id))
         /\ Len(ScopesAt(s, id)) \in Nat /\ DOMAIN ScopesAt(s, id) = 1..Len(ScopesAt(s, id))
         /\ \A k \in 1..Len(ScopesAt(s, id)) : ScopesAt(s, id)[k] \in Anchored(s, id)
         /\ Range(ScopesAt(s, id)) = Anchored(s, id)
         /\ ScopesAt(s, id) = <<>> <=> Anchored(s, id) = {}
<1>1. Len(tables) \in Nat
  BY TreeOfInv DEF Tree
<1>2. PICK T : T = Anchored(s, id)
  OBVIOUS
<1>3. T \in SUBSET (0..Len(tables))
  BY <1>1, <1>2 DEF Anchored, Scopes
<1>4. \E f : InOrder(f, T)
  BY <1>1, <1>3, OrderExists
<1>5. ScopesAt(s, id) = CHOOSE f \in [1..Cardinality(T) -> T] :
                          \A j, k \in DOMAIN f : j < k => f[j] < f[k]
  BY <1>2 DEF ScopesAt
<1>6. InOrder(ScopesAt(s, id), T)
  BY <1>4, <1>5 DEF InOrder
<1>7. PICK f : f = ScopesAt(s, id)
  OBVIOUS
<1>8. Cardinality(T) \in Nat /\ f \in Seq(T) /\ Len(f) = Cardinality(T) /\ Range(f) = T
  BY <1>1, <1>3, <1>6, <1>7, OrderIsOnto
<1>9. /\ Len(f) \in Nat /\ DOMAIN f = 1..Len(f) /\ \A k \in 1..Len(f) : f[k] \in T
  BY <1>8
<1>10. f = <<>> <=> T = {}
  <2>1. f = <<>> => T = {}
    BY <1>8 DEF Range
  <2>2. T = {} => f = <<>>
    BY <1>8, <1>9
  <2>3. QED BY <2>1, <2>2
<1>11. QED BY <1>2, <1>7, <1>8, <1>9, <1>10

-----------------------------------------------------------------------------
(* The last statement *)

\* Finitely many numbers are bounded.
LEMMA FinitelyManyBounded ==
  ASSUME NEW n \in Nat, NEW f, \A i \in 1..n : f[i] \in Nat
  PROVE  \E m \in Nat : \A i \in 1..n : f[i] <= m
<1> DEFINE S == {k \in 0..n : \E m \in Nat : \A i \in 1..k : f[i] <= m}
<1>1. 0 \in S
  OBVIOUS
<1>2. ASSUME NEW k \in 0..(n - 1), k \in S PROVE k + 1 \in S
  <2>1. PICK m \in Nat : \A i \in 1..k : f[i] <= m
    BY <1>2
  <2>2. k + 1 \in 1..n /\ k + 1 \in 0..n /\ f[k + 1] \in Nat
    OBVIOUS
  <2>3. m + f[k + 1] \in Nat /\ \A i \in 1..(k + 1) : f[i] <= m + f[k + 1]
    <3>1. ASSUME NEW i \in 1..(k + 1) PROVE f[i] <= m + f[k + 1]
      <4>1. i \in 1..n /\ f[i] \in Nat
        BY <2>2
      <4>2. CASE i = k + 1
        BY <2>2, <4>2
      <4>3. CASE i # k + 1
        <5>1. f[i] <= m
          BY <2>1, <4>3
        <5>2. QED BY <2>2, <4>1, <5>1
      <4>4. QED BY <4>2, <4>3
    <3>2. QED BY <2>2, <3>1
  <2>4. QED BY <2>2, <2>3
<1>3. \A k \in 0..n : k \in S
  <2> HIDE DEF S
  <2>1. QED BY <1>1, <1>2, InductionUpTo
<1>4. n \in S
  <2> HIDE DEF S
  <2>1. n \in 0..n
    OBVIOUS
  <2>2. QED BY <1>3, <2>1
<1>5. QED BY <1>4

\* Every declaration is a statement of its list, and the last statement is a declaration, opens
\* scopes or has a use.
LEMMA LastStatementFacts ==
  ASSUME IInv, BoundedInv, NEW s \in Scopes
  PROVE  /\ LastStatement(s) \in Nat /\ \A n \in Names : NumberOf(s, n) <= LastStatement(s)
         /\ \/ LastStatement(s) = 0
            \/ \E n \in Names : NumberOf(s, n) = LastStatement(s)
            \/ \E t \in Scopes : anchors[t].scope = s /\ anchors[t].id = LastStatement(s)
            \/ \E i \in DOMAIN uses : uses[i].scope = s /\ uses[i].ref.id = LastStatement(s)
<1> DEFINE A == {tables[s].symbols[n].id : n \in Names}
           B == {anchors[t].id : t \in {u \in Scopes : anchors[u].scope = s}}
           C == {uses[i].ref.id : i \in {j \in DOMAIN uses : uses[j].scope = s}}
           T == {0} \cup A \cup B \cup C
<1>1. Len(tables) \in Nat /\ statements \in Nat /\ Len(uses) \in Nat /\ DOMAIN uses = 1..Len(uses)
  BY TreeOfInv DEF Tree, IInv, TypeOK, BuilderTypeOK
<1>2. \A n \in Names : tables[s].symbols[n].id \in Nat /\ tables[s].symbols[n].id <= statements
  BY SymbolParts DEF BoundedInv, NumberOf
<1>3. \A t \in Scopes : anchors[t].id \in Nat
  <2>1. Len(anchors) = Len(tables) /\ anchors \in Seq(ScopedStmtRef)
    BY DEF IInv, ScopesAgree, TypeOK, NumTypeOK
  <2>2. \A t \in Scopes : anchors[t] \in ScopedStmtRef
    BY <2>1, ElementOfSeq DEF Scopes
  <2>3. QED BY <2>2 DEF ScopedStmtRef
<1>4. \A i \in DOMAIN uses : uses[i].ref.id \in Nat
  BY UseParts
<1>5. PICK b \in Nat : \A t \in Scopes : anchors[t].id <= b
  <2> DEFINE f == [t \in 1..Len(tables) |-> anchors[t].id]
  <2>1. \A t \in 1..Len(tables) : f[t] \in Nat /\ f[t] = anchors[t].id
    BY <1>3 DEF Scopes
  <2> HIDE DEF f
  <2>2. \E m \in Nat : \A t \in 1..Len(tables) : f[t] <= m
    BY <1>1, <2>1, FinitelyManyBounded
  <2>3. QED BY <2>1, <2>2 DEF Scopes
<1>6. PICK c \in Nat : \A i \in DOMAIN uses : uses[i].ref.id <= c
  <2> DEFINE f == [i \in 1..Len(uses) |-> uses[i].ref.id]
  <2>1. \A i \in 1..Len(uses) : f[i] \in Nat /\ f[i] = uses[i].ref.id
    BY <1>1, <1>4
  <2> HIDE DEF f
  <2>2. \E m \in Nat : \A i \in 1..Len(uses) : f[i] <= m
    BY <1>1, <2>1, FinitelyManyBounded
  <2>3. QED BY <1>1, <2>1, <2>2
<1> DEFINE most == statements + b + c
<1>7. most \in Nat
  BY <1>1
<1>8. A \subseteq 0..most /\ B \subseteq 0..most /\ C \subseteq 0..most
  <2>1. \A x \in Nat : x <= statements \/ x <= b \/ x <= c => x \in 0..most
    BY <1>1
  <2> HIDE DEF most
  <2>2. A \subseteq 0..most
    BY <1>2, <2>1
  <2>3. B \subseteq 0..most
    BY <1>3, <1>5, <2>1
  <2>4. C \subseteq 0..most
    BY <1>4, <1>6, <2>1
  <2>5. QED BY <2>2, <2>3, <2>4
<1>9. LastStatement(s) = Max(T)
  BY DEF LastStatement
<1>10. \A n \in Names : NumberOf(s, n) \in T
  BY DEF NumberOf
<1>15. ASSUME NEW x \in T
       PROVE  \/ x = 0
              \/ \E n \in Names : NumberOf(s, n) = x
              \/ \E t \in Scopes : anchors[t].scope = s /\ anchors[t].id = x
              \/ \E i \in DOMAIN uses : uses[i].scope = s /\ uses[i].ref.id = x
  <2>1. x \in A => \E n \in Names : NumberOf(s, n) = x
    BY DEF NumberOf
  <2>2. x \in B => \E t \in Scopes : anchors[t].scope = s /\ anchors[t].id = x
    OBVIOUS
  <2>3. x \in C => \E i \in DOMAIN uses : uses[i].scope = s /\ uses[i].ref.id = x
    OBVIOUS
  <2> HIDE DEF A, B, C, most
  <2>4. x = 0 \/ x \in A \/ x \in B \/ x \in C
    OBVIOUS
  <2>5. QED BY <2>1, <2>2, <2>3, <2>4
<1> HIDE DEF A, B, C, most
<1>11. T \in SUBSET (0..most) /\ T # {}
  BY <1>7, <1>8
<1> HIDE DEF T
<1>12. Max(T) \in T /\ \A y \in T : y <= Max(T)
  BY <1>7, <1>11, MaxIsLargest
<1>13. LastStatement(s) \in Nat
  <2>1. Max(T) \in 0..most
    BY <1>11, <1>12
  <2>2. \A x \in 0..most : x \in Nat
    BY <1>7
  <2>3. QED BY <1>9, <2>1, <2>2
<1>14. \A n \in Names : NumberOf(s, n) <= LastStatement(s)
  BY <1>9, <1>10, <1>12
<1>16. QED BY <1>9, <1>12, <1>13, <1>14, <1>15

-----------------------------------------------------------------------------
(* Lists that end in a return *)

\* A statement of the list ends in a return.
ListEnds(s, terminated) == \E id \in 1..LastStatement(s) : EndsInReturn(s, id, terminated)

\* It depends on lists of inner scopes only.
LEMMA EndsInnerOnly ==
  ASSUME IInv, NEW s \in Scopes, NEW g, NEW h, \A t \in Scopes : s < t => g[t] = h[t]
  PROVE  ListEnds(s, g) = ListEnds(s, h)
<1>1. ASSUME NEW id PROVE EndsInReturn(s, id, g) <=> EndsInReturn(s, id, h)
  <2>1. Range(ScopesAt(s, id)) = Anchored(s, id)
    BY ScopesAtFacts
  <2>2. \A t \in Anchored(s, id) : t \in Scopes /\ s < t
    BY DEF Anchored, IInv, ScopesAgree
  <2>3. \A t \in Range(ScopesAt(s, id)) : g[t] = h[t]
    BY <2>1, <2>2
  <2>4. QED BY Zenon, <2>3 DEF EndsInReturn
<1>2. ListEnds(s, g) <=> ListEnds(s, h)
  BY Zenon, <1>1 DEF ListEnds
<1>3. CASE ListEnds(s, g)
  <2>1. ListEnds(s, g) = TRUE /\ ListEnds(s, h) = TRUE
    BY Zenon, <1>2, <1>3 DEF ListEnds
  <2>2. QED BY Zenon, <2>1
<1>4. CASE ~ListEnds(s, g)
  <2>1. ListEnds(s, g) = FALSE /\ ListEnds(s, h) = FALSE
    BY Zenon, <1>2, <1>4 DEF ListEnds
  <2>2. QED BY Zenon, <2>1
<1>5. QED BY <1>3, <1>4

\* Terminated is defined: the lists of inner scopes come first.
LEMMA TerminatedEquation ==
  ASSUME IInv
  PROVE  \A s \in Scopes : Terminated[s] = ListEnds(s, Terminated)
<1> DEFINE N == Len(tables)
           S == {m \in 0..N : \E h \in [Scopes -> BOOLEAN] :
                   \A s \in Scopes : N - m < s => h[s] = ListEnds(s, h)}
           Eq(f) == f = [s \in Scopes |-> \E id \in 1..LastStatement(s) : EndsInReturn(s, id, f)]
<1>1. N \in Nat /\ Scopes = 1..N
  BY TreeOfInv DEF Tree, Scopes
<1>2. \A s, h : ListEnds(s, h) \in BOOLEAN
  BY Zenon DEF ListEnds
<1> HIDE DEF N
<1>3. 0 \in S
  <2> DEFINE none == [s \in Scopes |-> FALSE]
  <2>1. none \in [Scopes -> BOOLEAN]
    OBVIOUS
  <2> HIDE DEF none
  <2>2. \A s \in Scopes : ~(N - 0 < s)
    BY <1>1
  <2>3. \A s \in Scopes : N - 0 < s => none[s] = ListEnds(s, none)
    BY <2>2
  <2>4. \E h \in [Scopes -> BOOLEAN] : \A s \in Scopes : N - 0 < s => h[s] = ListEnds(s, h)
    BY <2>1, <2>3
  <2>5. 0 \in 0..N
    BY <1>1
  <2>6. QED BY <2>4, <2>5
<1>4. ASSUME NEW m \in 0..(N - 1), m \in S PROVE m + 1 \in S
  <2>1. PICK h \in [Scopes -> BOOLEAN] : \A s \in Scopes : N - m < s => h[s] = ListEnds(s, h)
    BY <1>4
  <2>2. PICK k : k = N - m
    OBVIOUS
  <2>3. k \in Scopes /\ k \in Nat /\ N - (m + 1) = k - 1 /\ m + 1 \in 0..N
    BY <1>1, <2>2
  <2> DEFINE g == [s \in Scopes |-> IF s = k THEN ListEnds(k, h) ELSE h[s]]
  <2>4. /\ g \in [Scopes -> BOOLEAN] /\ g[k] = ListEnds(k, h)
        /\ \A s \in Scopes : s # k => g[s] = h[s]
    BY Zenon, <1>2, <2>3
  <2> HIDE DEF g
  <2>5. ASSUME NEW s \in Scopes, k - 1 < s PROVE g[s] = ListEnds(s, g)
    <3>1. \A t \in Scopes : s < t => g[t] = h[t]
      <4>1. \A t \in Scopes : s < t => t # k
        BY <1>1, <2>3, <2>5
      <4>2. QED BY Zenon, <2>4, <4>1
    <3>2. ListEnds(s, g) = ListEnds(s, h)
      BY <3>1, EndsInnerOnly
    <3>3. CASE s = k
      BY Zenon, <2>4, <3>2, <3>3
    <3>4. CASE s # k
      <4>1. N - m < s
        BY <1>1, <2>2, <2>3, <2>5, <3>4
      <4>2. QED BY Zenon, <2>1, <2>4, <3>2, <3>4, <4>1
    <3>5. QED BY <3>3, <3>4
  <2>6. \A s \in Scopes : N - (m + 1) < s => g[s] = ListEnds(s, g)
    BY <2>3, <2>5
  <2>7. QED BY <2>3, <2>4, <2>6
<1>5. N \in S
  <2> HIDE DEF S
  <2>1. \A m \in 0..N : m \in S
    BY <1>1, <1>3, <1>4, InductionUpTo
  <2>2. QED BY <1>1, <2>1
<1>6. PICK f \in [Scopes -> BOOLEAN] : \A s \in Scopes : N - N < s => f[s] = ListEnds(s, f)
  BY <1>5
<1>7. \A s \in Scopes : f[s] = ListEnds(s, f)
  <2>1. \A s \in Scopes : N - N < s
    BY <1>1
  <2>2. QED BY Zenon, <1>6, <2>1
<1>8. Eq(f)
  <2>1. f = [s \in Scopes |-> f[s]]
    OBVIOUS
  <2>2. \A s \in Scopes : f[s] = (\E id \in 1..LastStatement(s) : EndsInReturn(s, id, f))
    BY Zenon, <1>7 DEF ListEnds
  <2>3. QED BY Zenon, <2>1, <2>2
<1>9. Terminated = CHOOSE h : Eq(h)
  BY DEF Terminated
<1>10. Eq(Terminated)
  <2> HIDE DEF Eq
  <2>1. QED BY <1>8, <1>9
<1>11. Terminated = [s \in Scopes |-> ListEnds(s, Terminated)]
  BY Zenon, <1>10 DEF ListEnds
<1> HIDE DEF Eq
<1>12. QED BY Zenon, <1>11

-----------------------------------------------------------------------------
(* Lists that are lowered *)

\* A list is lowered where its statement is lowered.
LowersIn(s, around) ==
  tables[s].owner \in BlockOwners => ~AfterReturn(anchors[s]) /\ around

\* LoweredLists is defined: the lists of outer scopes come first.
LEMMA LoweredEquation ==
  ASSUME IInv, OwnersInv
  PROVE  \A s \in Scopes :
           s \in LoweredLists <=>
             (tables[s].owner \in BlockOwners =>
                ~AfterReturn(anchors[s]) /\ tables[s].parent \in LoweredLists)
<1> DEFINE n == Len(tables)
           p == [s \in 1..n |-> tables[s].parent]
           V == BOOLEAN
           g == [s \in 1..n |-> [v \in V |-> LowersIn(s, v)]]
           Eq(f) == f = [s \in Scopes |->
                           tables[s].owner \in BlockOwners =>
                             ~AfterReturn(anchors[s]) /\ f[anchors[s].scope]]
           W == CHOOSE h : Eq(h)
<1>1. n \in Nat /\ Scopes = 1..n /\ \A s \in Scopes : anchors[s].scope = tables[s].parent
  BY TreeOfInv DEF Tree, Scopes, IInv, ScopesAgree
<1>2. \A s \in 1..n : p[s] \in 0..(s - 1) /\ p[s] = tables[s].parent
  BY <1>1, TreeOfInv DEF Tree
<1>3. /\ FALSE \in V /\ g \in [1..n -> [V -> V]]
      /\ \A s \in 1..n : \A v \in V : g[s][v] = LowersIn(s, v)
  <2>1. \A s \in 1..n : \A v \in V : LowersIn(s, v) \in V
    BY Zenon DEF LowersIn
  <2>2. QED BY <2>1
<1>4. \E f : FollowsParents(f, n, p, V, FALSE, g)
  <2> HIDE DEF V, g, p, n
  <2>1. QED BY <1>1, <1>2, <1>3, ParentRecursionExists
<1>5. PICK f : FollowsParents(f, n, p, V, FALSE, g)
  BY <1>4
<1>6. f \in [0..n -> V] /\ \A s \in 1..n : f[s] = LowersIn(s, f[tables[s].parent])
  <2>1. f \in [0..n -> V] /\ \A s \in 1..n : f[s] = g[s][f[p[s]]]
    BY <1>5 DEF FollowsParents
  <2>2. \A s \in 1..n : p[s] \in 0..n
    BY <1>1, <1>2
  <2>3. \A s \in 1..n : p[s] \in 0..n /\ f[p[s]] \in V
    BY <2>1, <2>2
  <2> HIDE DEF V, g, p
  <2>4. QED BY <2>1, <2>3, <1>2, <1>3
<1>7. \A s \in Scopes : tables[s].owner \in BlockOwners => s # Root /\ tables[s].parent \in Scopes
  BY OwnerKinds DEF BlockOwners
<1> DEFINE h == [s \in Scopes |-> f[s]]
<1>8. Eq(h)
  <2>1. \A s \in Scopes :
          h[s] = (tables[s].owner \in BlockOwners =>
                    ~AfterReturn(anchors[s]) /\ h[anchors[s].scope])
    <3>1. ASSUME NEW s \in Scopes
          PROVE  h[s] = (tables[s].owner \in BlockOwners =>
                           ~AfterReturn(anchors[s]) /\ h[anchors[s].scope])
      <4>1. h[s] = LowersIn(s, f[tables[s].parent]) /\ anchors[s].scope = tables[s].parent
        BY <1>1, <1>6
      <4>2. tables[s].owner \in BlockOwners => h[tables[s].parent] = f[tables[s].parent]
        BY <1>7
      <4> HIDE DEF h, n
      <4>3. QED BY Zenon, <4>1, <4>2 DEF LowersIn
    <3>2. QED BY <3>1
  <2>2. h = [s \in Scopes |-> h[s]]
    OBVIOUS
  <2> HIDE DEF h, n
  <2>3. QED BY Zenon, <2>1, <2>2
<1>9. LoweredLists = {s \in Scopes : W[s]}
  BY Zenon DEF LoweredLists
<1>10. Eq(W)
  <2> HIDE DEF Eq, h
  <2>1. QED BY <1>8
<1> HIDE DEF W
<1>11. \A s \in Scopes :
         W[s] = (tables[s].owner \in BlockOwners =>
                   ~AfterReturn(anchors[s]) /\ W[anchors[s].scope])
  <2>1. W = [s \in Scopes |->
               tables[s].owner \in BlockOwners =>
                 ~AfterReturn(anchors[s]) /\ W[anchors[s].scope]]
    BY Zenon, <1>10
  <2> HIDE DEF n, Eq
  <2>2. QED BY Zenon, <2>1
<1>12. \A s \in Scopes : s \in LoweredLists <=> W[s]
  BY Zenon, <1>9
<1> HIDE DEF n, Eq, h
<1>13. \A s \in Scopes : tables[s].owner \in BlockOwners =>
         (anchors[s].scope \in Scopes /\ anchors[s].scope = tables[s].parent)
  BY <1>1, <1>7
<1>14. QED BY Zenon, <1>11, <1>12, <1>13

-----------------------------------------------------------------------------
(* Walks *)

\* Another element at the end.
LEMMA LastReplaced ==
  ASSUME NEW S, NEW seq \in Seq(S), seq # <<>>, NEW e \in S
  PROVE  /\ Len(seq) \in Nat \ {0}
         /\ Append(Front(seq), e) \in Seq(S) /\ Append(Front(seq), e) # <<>>
         /\ Len(Append(Front(seq), e)) = Len(seq)
         /\ Append(Front(seq), e)[Len(seq)] = e
         /\ \A k \in 1..(Len(seq) - 1) : Append(Front(seq), e)[k] = seq[k]
<1>1. Front(seq) \in Seq(S) /\ Len(Front(seq)) = Len(seq) - 1 /\ Len(seq) \in Nat \ {0}
  BY FrontProperties, LastProperties
<1>2. PICK new : new = Append(Front(seq), e)
  OBVIOUS
<1>3. /\ new \in Seq(S) /\ Len(new) = (Len(seq) - 1) + 1
      /\ \A k \in 1..(Len(seq) - 1) : new[k] = Front(seq)[k]
      /\ new[(Len(seq) - 1) + 1] = e
  BY <1>1, <1>2, AppendType
<1>4. \A k \in 1..(Len(seq) - 1) : Front(seq)[k] = seq[k]
  BY FrontProperties
<1>5. (Len(seq) - 1) + 1 = Len(seq)
  BY <1>1
<1>6. QED BY <1>1, <1>2, <1>3, <1>4, <1>5

\* What is after a return is after it from then on.
LEMMA AfterNext ==
  ASSUME NEW p, NEW q, p.id \in Nat \ {0}, q.scope = p.scope, q.id = p.id + 1
  PROVE  AfterReturn(q) <=> AfterReturn(p) \/ EndsInReturn(p.scope, p.id, Terminated)
<1>1. \A id : id \in 1..(q.id - 1) <=> id \in 1..(p.id - 1) \/ id = p.id
  OBVIOUS
<1>2. QED BY Zenon, <1>1 DEF AfterReturn

\* Two places of the same statement are both after a return, or neither is.
LEMMA AfterSame ==
  ASSUME NEW p, NEW q, q.scope = p.scope, q.id = p.id
  PROVE  AfterReturn(q) <=> AfterReturn(p)
BY DEF AfterReturn

\* The parts of a walk.
LEMMA PathParts ==
  ASSUME NEW body, NEW at, PathInv(body, at)
  PROVE  /\ at \in Seq(Place) /\ at # <<>> /\ Len(at) \in Nat \ {0}
         /\ \A k \in 1..Len(at) : /\ at[k] \in Place /\ at[k].scope \in Scopes
                                  /\ at[k].id \in Nat \ {0} /\ at[k].passed \in Nat
         /\ Here(at) = at[Len(at)] /\ Here(at) \in Place
         /\ Here(at).scope \in Scopes /\ Here(at).id \in Nat \ {0} /\ Here(at).passed \in Nat
<1>1. at \in Seq(Place) /\ at # <<>>
  BY DEF PathInv
<1>2. Len(at) \in Nat \ {0} /\ Last(at) = at[Len(at)] /\ Last(at) \in Place
  BY <1>1, LastProperties
<1>3. \A k \in 1..Len(at) : at[k] \in Place
  BY <1>1, ElementOfSeq
<1>4. \A p \in Place : p.scope \in Scopes /\ p.id \in Nat \ {0} /\ p.passed \in Nat
  BY DEF Place
<1>5. QED BY <1>1, <1>2, <1>3, <1>4 DEF Here

\* The next statement, and the next block of the same.
LEMMA NextPlace ==
  ASSUME NEW h \in Place
  PROVE  /\ [h EXCEPT !.id = @ + 1, !.passed = 0] =
              [scope |-> h.scope, id |-> h.id + 1, passed |-> 0]
         /\ [h EXCEPT !.passed = @ + 1] =
              [scope |-> h.scope, id |-> h.id, passed |-> h.passed + 1]
         /\ [scope |-> h.scope, id |-> h.id + 1, passed |-> 0] \in Place
         /\ [scope |-> h.scope, id |-> h.id, passed |-> h.passed + 1] \in Place
<1>1. h.scope \in Scopes /\ h.id \in Nat \ {0} /\ h.passed \in Nat /\ h.id + 1 \in Nat \ {0}
  BY DEF Place
<1>2. /\ [scope |-> h.scope, id |-> h.id + 1, passed |-> 0] \in Place
      /\ [scope |-> h.scope, id |-> h.id, passed |-> h.passed + 1] \in Place
  BY <1>1 DEF Place
<1>3. \A r \in Place : r = [scope |-> r.scope, id |-> r.id, passed |-> r.passed]
  BY DEF Place
<1>4. PICK r : r = [h EXCEPT !.id = @ + 1, !.passed = 0]
  OBVIOUS
<1>5. r \in Place /\ r.scope = h.scope /\ r.id = h.id + 1 /\ r.passed = 0
  BY <1>1, <1>4 DEF Place
<1>6. PICK q : q = [h EXCEPT !.passed = @ + 1]
  OBVIOUS
<1>7. q \in Place /\ q.scope = h.scope /\ q.id = h.id /\ q.passed = h.passed + 1
  BY <1>1, <1>6 DEF Place
<1>8. /\ r = [scope |-> h.scope, id |-> h.id + 1, passed |-> 0]
      /\ q = [scope |-> h.scope, id |-> h.id, passed |-> h.passed + 1]
  BY <1>3, <1>5, <1>7
<1>9. QED BY <1>2, <1>4, <1>6, <1>8

\* The walk with its innermost place replaced.
Moved(at, p) == Append(Front(at), p)

\* The walk goes on in its list.
LEMMA PathGoesOn ==
  ASSUME NEW body, NEW at, PathInv(body, at), NEW p \in Place, p.scope = Here(at).scope,
         ~AfterReturn(p), p.passed = 0 \/ p.passed < Len(ScopesAt(p.scope, p.id)),
         NEW new, new = Moved(at, p)
  PROVE  /\ PathInv(body, new) /\ Len(new) = Len(at) /\ new[Len(at)] = p
         /\ \A k \in 1..(Len(at) - 1) : new[k] = at[k]
<1>0. new = Append(Front(at), p)
  BY DEF Moved
<1>1. /\ at \in Seq(Place) /\ at # <<>> /\ Len(at) \in Nat \ {0}
      /\ Here(at) = at[Len(at)]
  BY PathParts
<1>2. /\ new \in Seq(Place) /\ new # <<>> /\ Len(new) = Len(at)
      /\ new[Len(at)] = p /\ \A k \in 1..(Len(at) - 1) : new[k] = at[k]
  BY <1>0, <1>1, LastReplaced
<1>3. Here(new) = p
  BY <1>2, LastProperties DEF Here
<1>4. \A k \in 1..Len(at) : new[k].scope = at[k].scope
  <2>1. \A k \in 1..Len(at) : k = Len(at) \/ k \in 1..(Len(at) - 1)
    BY <1>1
  <2>2. QED BY <1>1, <1>2, <2>1
<1>5. new[1].scope = body
  BY <1>1, <1>4 DEF PathInv
<1>6. ASSUME NEW k \in 1..(Len(new) - 1)
      PROVE  /\ new[k + 1].scope \in Anchored(new[k].scope, new[k].id - 1)
             /\ tables[new[k + 1].scope].owner \in BlockOwners
             /\ new[k].passed = 0
             /\ ~AfterReturn(anchors[new[k + 1].scope])
  <2>1. k \in 1..(Len(at) - 1) /\ k + 1 \in 1..Len(at) /\ k \in 1..Len(at)
    BY <1>1, <1>2
  <2>2. new[k] = at[k] /\ new[k + 1].scope = at[k + 1].scope
    BY <1>2, <1>4, <2>1
  <2>3. QED BY <2>1, <2>2 DEF PathInv
<1>7. QED BY <1>2, <1>3, <1>5, <1>6 DEF PathInv, BlocksHere

\* The walk enters a block of the statement it is at.
LEMMA PathEnters ==
  ASSUME NEW body, NEW at, PathInv(body, at),
         NEW b \in Anchored(Here(at).scope, Here(at).id), tables[b].owner \in BlockOwners,
         NEW new, new = EnterBlock(at, b)
  PROVE  /\ PathInv(body, new) /\ Len(new) = Len(at) + 1
         /\ \A k \in 1..(Len(at) - 1) : new[k] = at[k]
         /\ new[Len(at)] = [scope |-> Here(at).scope, id |-> Here(at).id + 1, passed |-> 0]
         /\ new[Len(at) + 1] = [scope |-> b, id |-> 1, passed |-> 0]
<1> DEFINE p == [scope |-> Here(at).scope, id |-> Here(at).id + 1, passed |-> 0]
           q == [scope |-> b, id |-> 1, passed |-> 0]
           next == Append(Front(at), p)
<1>1. /\ at \in Seq(Place) /\ at # <<>> /\ Len(at) \in Nat \ {0}
      /\ Here(at) = at[Len(at)] /\ Here(at) \in Place
      /\ Here(at).scope \in Scopes /\ Here(at).id \in Nat \ {0}
  BY PathParts
<1>2. /\ b \in Scopes \ {Root} /\ anchors[b] = [scope |-> Here(at).scope, id |-> Here(at).id]
      /\ p \in Place /\ q \in Place
  BY <1>1 DEF Anchored, Place
<1>3. [Here(at) EXCEPT !.id = @ + 1, !.passed = 0] = p
  BY <1>1, NextPlace
<1>4. new = next \o <<q>>
  BY <1>3 DEF EnterBlock, NextStatement, StartOf
<1>5. /\ next \in Seq(Place) /\ next # <<>> /\ Len(next) = Len(at)
      /\ next[Len(at)] = p /\ \A k \in 1..(Len(at) - 1) : next[k] = at[k]
  <2>1. PICK n : n = next
    OBVIOUS
  <2> HIDE DEF next
  <2>2. QED BY SMTT(20), <1>1, <1>2, <2>1, LastReplaced DEF next
<1> HIDE DEF next
<1>6. /\ new \in Seq(Place) /\ new # <<>> /\ Len(new) = Len(at) + 1
      /\ new[Len(at) + 1] = q /\ \A k \in 1..Len(at) : new[k] = next[k]
  <2>1. new = Append(next, q)
    BY <1>2, <1>4, <1>5
  <2> HIDE DEF q
  <2>2. QED BY <1>1, <1>2, <1>5, <2>1, AppendType
<1>7. new[Len(at)] = p /\ \A k \in 1..(Len(at) - 1) : new[k] = at[k]
  <2>1. Len(at) \in 1..Len(at) /\ \A k \in 1..(Len(at) - 1) : k \in 1..Len(at)
    BY <1>1
  <2> HIDE DEF p
  <2>2. QED BY <1>5, <1>6, <2>1
<1>8. Here(new) = q
  <2> HIDE DEF q
  <2>1. QED BY <1>6, LastProperties DEF Here
<1>9. new[1].scope = body
  <2>1. CASE Len(at) = 1
    BY <1>1, <1>7, <2>1 DEF PathInv
  <2>2. CASE Len(at) # 1
    <3>1. 1 \in 1..(Len(at) - 1)
      <4>1. Len(at) \in Nat \ {0}
        BY <1>1
      <4>2. PICK n : n = Len(at)
        OBVIOUS
      <4>3. n \in Nat \ {0} /\ n # 1
        BY <2>2, <4>1, <4>2
      <4>4. 1 \in 1..(n - 1)
        BY <4>3
      <4>5. QED BY <4>2, <4>4
    <3>2. QED BY <1>7, <3>1 DEF PathInv
  <2>3. QED BY <2>1, <2>2
<1>10. ~AfterReturn(Here(at)) /\ ~AfterReturn(anchors[b])
  <2>1. ~AfterReturn(Here(at))
    BY DEF PathInv
  <2>2. anchors[b].scope = Here(at).scope /\ anchors[b].id = Here(at).id
    BY <1>2
  <2>3. QED BY <2>1, <2>2, AfterSame
<1>11. ASSUME NEW k \in 1..(Len(new) - 1)
       PROVE  /\ new[k + 1].scope \in Anchored(new[k].scope, new[k].id - 1)
              /\ tables[new[k + 1].scope].owner \in BlockOwners
              /\ new[k].passed = 0
              /\ ~AfterReturn(anchors[new[k + 1].scope])
  <2>1. CASE k = Len(at)
    <3>1. /\ new[k].scope = Here(at).scope /\ new[k].id = Here(at).id + 1 /\ new[k].passed = 0
          /\ new[k + 1].scope = b
      BY <1>6, <1>7, <2>1
    <3>2. new[k].id - 1 = Here(at).id
      BY <1>1, <3>1
    <3>3. QED BY <1>10, <3>1, <3>2
  <2>2. CASE k # Len(at)
    <3>1. k \in 1..(Len(at) - 1) /\ new[k] = at[k]
      BY <1>1, <1>6, <1>7, <2>2
    <3>2. new[k + 1].scope = at[k + 1].scope
      <4>1. CASE k + 1 = Len(at)
        BY <1>1, <1>7, <4>1
      <4>2. CASE k + 1 # Len(at)
        <5>1. k + 1 \in 1..(Len(at) - 1)
          BY <1>1, <3>1, <4>2
        <5>2. QED BY <1>7, <5>1
      <4>3. QED BY <4>1, <4>2
    <3>3. QED BY <3>1, <3>2 DEF PathInv
  <2>3. QED BY <2>1, <2>2
<1>12. ~AfterReturn(q)
  <2>1. q.id = 1 /\ 1..(q.id - 1) = {}
    OBVIOUS
  <2> HIDE DEF q
  <2>2. QED BY <2>1 DEF AfterReturn
<1>13. Here(new).passed = 0 /\ ~AfterReturn(Here(new))
  <2>1. q.passed = 0
    OBVIOUS
  <2> HIDE DEF q
  <2>2. QED BY <1>8, <1>12, <2>1
<1>14. PathInv(body, new)
  <2> HIDE DEF p, q
  <2>1. QED BY <1>6, <1>9, <1>11, <1>13 DEF PathInv
<1>15. QED BY <1>6, <1>7, <1>14

\* The walk leaves a block, and the statement of the block does not end in a return.
LEMMA PathLeaves ==
  ASSUME NEW body, NEW at, PathInv(body, at), Len(at) # 1,
         NEW s, NEW id, s = at[Len(at) - 1].scope, id = at[Len(at) - 1].id - 1,
         ~EndsInReturn(s, id, Terminated)
  PROVE  /\ PathInv(body, Front(at)) /\ Len(Front(at)) = Len(at) - 1
         /\ \A k \in 1..(Len(at) - 1) : Front(at)[k] = at[k]
<1>1. /\ at \in Seq(Place) /\ at # <<>> /\ Len(at) \in Nat \ {0}
      /\ \A k \in 1..Len(at) : at[k] \in Place /\ at[k].id \in Nat \ {0}
  BY PathParts
<1>2. PICK new : new = Front(at)
  OBVIOUS
<1>3. /\ new \in Seq(Place) /\ Len(new) = Len(at) - 1
      /\ \A k \in 1..(Len(at) - 1) : new[k] = at[k]
  BY <1>1, <1>2, FrontProperties
<1>4. PICK m \in Nat \ {0} : m = Len(at) - 1
  <2>1. Len(at) \in Nat \ {0} /\ Len(at) # 1
    BY <1>1
  <2>2. Len(at) - 1 \in Nat \ {0}
    BY <2>1
  <2>3. QED BY <2>2
<1>5. Len(new) = m /\ Len(at) = m + 1 /\ new # <<>> /\ \A k \in 1..m : new[k] = at[k]
  BY <1>1, <1>3, <1>4
<1>6. Here(new) = at[m]
  <2>1. Here(new) = new[m]
    BY <1>3, <1>5, LastProperties DEF Here
  <2>2. m \in 1..m
    BY <1>4
  <2>3. QED BY <1>5, <2>1, <2>2
<1>7. /\ at[m].passed = 0 /\ ~AfterReturn(anchors[at[m + 1].scope])
      /\ at[m + 1].scope \in Anchored(at[m].scope, at[m].id - 1)
  <2>1. m \in 1..(Len(at) - 1)
    BY <1>4, <1>5
  <2>2. QED BY <2>1 DEF PathInv
<1>8. ~AfterReturn(at[m])
  <2>1. anchors[at[m + 1].scope] = [scope |-> s, id |-> id] /\ s = at[m].scope /\ id = at[m].id - 1
    BY <1>4, <1>7 DEF Anchored
  <2>2. /\ anchors[at[m + 1].scope].scope = s /\ anchors[at[m + 1].scope].id = id
    BY <2>1
  <2>3. at[m].id \in Nat \ {0}
    BY <1>1, <1>4, <1>5
  <2>4. CASE id = 0
    <3>1. 1..(at[m].id - 1) = {}
      BY <2>1, <2>3, <2>4
    <3>2. QED BY <3>1 DEF AfterReturn
  <2>5. CASE id # 0
    <3>1. id \in Nat \ {0} /\ at[m].id = id + 1
      BY <2>1, <2>3, <2>5
    <3>2. QED BY <1>7, <2>1, <2>2, <3>1, AfterNext
  <2>6. QED BY <2>4, <2>5
<1>9. ASSUME NEW k \in 1..(Len(new) - 1)
      PROVE  /\ new[k + 1].scope \in Anchored(new[k].scope, new[k].id - 1)
             /\ tables[new[k + 1].scope].owner \in BlockOwners
             /\ new[k].passed = 0
             /\ ~AfterReturn(anchors[new[k + 1].scope])
  <2>1. k \in 1..(Len(at) - 1) /\ k + 1 \in 1..m /\ k \in 1..m
    BY <1>4, <1>5
  <2>2. new[k] = at[k] /\ new[k + 1] = at[k + 1]
    BY <1>5, <2>1
  <2>3. QED BY <2>1, <2>2 DEF PathInv
<1>10. new[1].scope = body
  <2>1. 1 \in 1..m
    BY <1>4
  <2>2. QED BY <1>5, <2>1 DEF PathInv
<1>11. PathInv(body, new)
  BY <1>3, <1>5, <1>6, <1>7, <1>8, <1>9, <1>10 DEF PathInv
<1>12. QED BY <1>2, <1>3, <1>11

\* The walk goes on to the next statement.
LEMMA PathNext ==
  ASSUME NEW body, NEW at, PathInv(body, at),
         ~EndsInReturn(Here(at).scope, Here(at).id, Terminated)
  PROVE  /\ PathInv(body, NextStatement(at)) /\ Len(NextStatement(at)) = Len(at)
         /\ NextStatement(at)[Len(at)] =
              [scope |-> Here(at).scope, id |-> Here(at).id + 1, passed |-> 0]
         /\ \A k \in 1..(Len(at) - 1) : NextStatement(at)[k] = at[k]
<1> DEFINE p == [scope |-> Here(at).scope, id |-> Here(at).id + 1, passed |-> 0]
<1>1. Here(at) \in Place /\ Here(at).id \in Nat \ {0}
  BY PathParts
<1>2. NextStatement(at) = Moved(at, p) /\ p \in Place
  BY <1>1, NextPlace DEF NextStatement, Moved
<1>3. p.scope = Here(at).scope /\ p.id = Here(at).id + 1 /\ p.passed = 0
  OBVIOUS
<1> HIDE DEF p
<1>4. ~AfterReturn(p)
  <2>1. ~AfterReturn(Here(at))
    BY DEF PathInv
  <2>2. QED BY <1>1, <1>3, <2>1, AfterNext
<1>5. PICK new : new = NextStatement(at)
  OBVIOUS
<1>6. /\ PathInv(body, new) /\ Len(new) = Len(at) /\ new[Len(at)] = p
      /\ \A k \in 1..(Len(at) - 1) : new[k] = at[k]
  BY <1>2, <1>3, <1>4, <1>5, PathGoesOn
<1>7. QED BY <1>5, <1>6 DEF p

\* To the next block of the same statement.
LEMMA PathNextBlock ==
  ASSUME NEW body, NEW at, PathInv(body, at), Here(at).passed + 1 < Len(BlocksHere(at))
  PROVE  /\ PathInv(body, NextBlock(at)) /\ Len(NextBlock(at)) = Len(at)
         /\ NextBlock(at)[Len(at)] =
              [scope |-> Here(at).scope, id |-> Here(at).id, passed |-> Here(at).passed + 1]
         /\ \A k \in 1..(Len(at) - 1) : NextBlock(at)[k] = at[k]
<1> DEFINE p == [scope |-> Here(at).scope, id |-> Here(at).id, passed |-> Here(at).passed + 1]
<1>1. Here(at) \in Place
  BY PathParts
<1>2. NextBlock(at) = Moved(at, p) /\ p \in Place
  BY <1>1, NextPlace DEF NextBlock, Moved
<1>3. p.scope = Here(at).scope /\ p.id = Here(at).id /\ p.passed = Here(at).passed + 1
  OBVIOUS
<1> HIDE DEF p
<1>4. ~AfterReturn(p)
  <2>1. ~AfterReturn(Here(at))
    BY DEF PathInv
  <2>2. QED BY <1>3, <2>1, AfterSame
<1>5. p.passed < Len(ScopesAt(p.scope, p.id))
  BY <1>3 DEF BlocksHere
<1>6. PICK new : new = NextBlock(at)
  OBVIOUS
<1>7. /\ PathInv(body, new) /\ Len(new) = Len(at) /\ new[Len(at)] = p
      /\ \A k \in 1..(Len(at) - 1) : new[k] = at[k]
  BY <1>2, <1>3, <1>4, <1>5, <1>6, PathGoesOn
<1>8. QED BY <1>6, <1>7 DEF p

-----------------------------------------------------------------------------
(* Statements *)

\* What is declared by a statement is all there is in it.
LEMMA DeclarationParts ==
  ASSUME IInv, NumberedOnce, NEW s \in Scopes, NEW id, NEW n \in DeclaredAt(s, id)
  PROVE  /\ DeclaredAt(s, id) = {n} /\ Anchored(s, id) = {} /\ ScopesAt(s, id) = <<>>
         /\ n \in Names /\ tables[s].symbols[n].kind = "Variable" /\ NumberOf(s, n) = id
         /\ Declared(s, n)
<1>1. n \in Names /\ tables[s].symbols[n].kind = "Variable" /\ NumberOf(s, n) = id
  BY DEF DeclaredAt, NumberOf
<1>2. DeclaredAt(s, id) = {n} /\ Anchored(s, id) = {}
  BY <1>1 DEF NumberedOnce
<1>3. QED BY <1>1, <1>2, ScopesAtFacts, SymbolParts

\* A statement with scopes declares no variable.
LEMMA BlocksDeclareNothing ==
  ASSUME IInv, NumberedOnce, NEW s \in Scopes, NEW id, Anchored(s, id) # {}
  PROVE  DeclaredAt(s, id) = {}
BY DeclarationParts

\* A return is nothing else.
LEMMA ReturningParts ==
  ASSUME IInv, NEW s, NEW id, Returning(s, id)
  PROVE  /\ DeclaredAt(s, id) = {} /\ Anchored(s, id) = {}
         /\ \E i \in UsesAt(s, id) : IsValue(i) /\ statementKind[i] = "return"
<1>1. PICK i \in UsesAt(s, id) : i \in ValueStatements /\ statementKind[i] = "return"
  BY DEF Returning
<1>2. IsValue(i) /\ IsStatement(i) /\ uses[i].ref.scope = s /\ uses[i].ref.id = id
  BY <1>1 DEF ValueStatements, UsesAt
<1>3. QED BY <1>1, <1>2, ScopesAtFacts DEF IsStatement

\* What has blocks ends in a return if all of them do, and one of them is executed.
LEMMA BlocksEnd ==
  ASSUME IInv, NEW s, NEW id, NEW terminated, EndsInReturn(s, id, terminated)
  PROVE  \/ Returning(s, id)
         \/ /\ ScopesAt(s, id) # <<>>
            /\ tables[Last(ScopesAt(s, id))].owner \in {"block", "else"}
            /\ \A b \in Anchored(s, id) : terminated[b]
<1>1. Range(ScopesAt(s, id)) = Anchored(s, id)
  BY ScopesAtFacts
<1>2. QED BY <1>1 DEF EndsInReturn

\* A statement that is no condition has one use.
LEMMA OneUse ==
  ASSUME IInv, NumberedOnce, NEW s, NEW id, Anchored(s, id) = {}, NEW i \in UsesAt(s, id)
  PROVE  UsesAt(s, id) = {i} /\ UseAt(s, id) = i
<1>1. /\ i \in DOMAIN uses /\ uses[i].ref = [scope |-> s, id |-> id]
      /\ uses[i].ref.scope = s /\ uses[i].ref.id = id
  BY DEF UsesAt
<1>2. ASSUME NEW j \in UsesAt(s, id) PROVE j = i
  <2>1. j \in DOMAIN uses /\ uses[i].ref = uses[j].ref
    BY <1>1 DEF UsesAt
  <2>2. QED BY <1>1, <2>1 DEF NumberedOnce
<1>3. UsesAt(s, id) = {i}
  BY <1>2
<1>4. i \in Nat
  BY <1>1 DEF IInv, TypeOK, BuilderTypeOK
<1>5. Min({i}) = i
  <2>1. {i} \in SUBSET Nat /\ {i} # {}
    BY <1>4
  <2>2. Min({i}) \in {i}
    BY <2>1, MinIsLeast
  <2>3. QED BY <2>2
<1>6. QED BY <1>3, <1>5 DEF UseAt

\* The block the walk is at.
LEMMA BlockParts ==
  ASSUME IInv, OwnersInv, NEW body, NEW at, PathInv(body, at), BlocksHere(at) # <<>>
  PROVE  /\ BlockHere(at) \in Anchored(Here(at).scope, Here(at).id)
         /\ BlockHere(at) \in Scopes /\ BlockHere(at) # Root
         /\ anchors[BlockHere(at)] = [scope |-> Here(at).scope, id |-> Here(at).id]
         /\ tables[BlockHere(at)].parent = Here(at).scope
         /\ tables[BlockHere(at)].owner \in BlockOwners \cup {"function", "class"}
         /\ Here(at).passed + 1 \in 1..Len(BlocksHere(at))
<1>1. PICK s, id, blocks : s = Here(at).scope /\ id = Here(at).id /\ blocks = BlocksHere(at)
  OBVIOUS
<1>2. /\ Len(blocks) \in Nat /\ \A k \in 1..Len(blocks) : blocks[k] \in Anchored(s, id)
      /\ blocks \in Seq(Anchored(s, id))
  BY <1>1, ScopesAtFacts DEF BlocksHere
<1>3. Here(at).passed \in Nat /\ (Here(at).passed = 0 \/ Here(at).passed < Len(blocks))
  BY <1>1, PathParts DEF PathInv
<1>4. Len(blocks) # 0
  BY <1>1, <1>2, EmptySeq
<1>5. Here(at).passed + 1 \in 1..Len(blocks)
  BY <1>2, <1>3, <1>4
<1>6. BlockHere(at) \in Anchored(s, id)
  BY <1>1, <1>2, <1>5 DEF BlockHere
<1>7. /\ BlockHere(at) \in Scopes /\ BlockHere(at) # Root
      /\ anchors[BlockHere(at)] = [scope |-> s, id |-> id]
  BY <1>6 DEF Anchored
<1>8. anchors[BlockHere(at)].scope = tables[BlockHere(at)].parent
  BY <1>7 DEF IInv, ScopesAgree
<1>9. tables[BlockHere(at)].owner \in Owners /\ tables[BlockHere(at)].owner # "program"
  BY <1>7, OwnerKinds
<1>10. tables[BlockHere(at)].owner \in BlockOwners \cup {"function", "class"}
  BY <1>9 DEF Owners
<1>11. QED BY <1>1, <1>5, <1>6, <1>7, <1>8, <1>10

\* The use that is evaluated is one of the statement the walk is at.
LEMMA UseOfParts ==
  ASSUME IInv, OwnersInv, ConditionsInv, NEW body, NEW at, PathInv(body, at), UseOf(at) # 0
  PROVE  /\ UseOf(at) \in DOMAIN uses /\ uses[UseOf(at)].scope = Here(at).scope
         /\ uses[UseOf(at)].ref = [scope |-> Here(at).scope, id |-> Here(at).id]
         /\ uses[UseOf(at)].ref.scope = Here(at).scope /\ uses[UseOf(at)].ref.id = Here(at).id
<1> DEFINE s == Here(at).scope
           id == Here(at).id
<1>1. UseOf(at) \in DOMAIN uses /\ uses[UseOf(at)].ref = [scope |-> s, id |-> id]
  <2>1. CASE BlocksHere(at) = <<>>
    <3>1. UseOf(at) = UseAt(s, id)
      BY <2>1 DEF UseOf, UseHere
    <3>2. UsesAt(s, id) # {} /\ UseOf(at) = Min(UsesAt(s, id))
      BY <3>1 DEF UseAt
    <3>3. UsesAt(s, id) \in SUBSET Nat
      <4>1. DOMAIN uses \subseteq Nat
        BY DEF IInv, TypeOK, BuilderTypeOK
      <4>2. QED BY <4>1 DEF UsesAt
    <3> HIDE DEF s, id
    <3>4. UseOf(at) \in UsesAt(s, id)
      BY <3>2, <3>3, MinIsLeast
    <3>5. QED BY <3>4 DEF UsesAt
  <2>2. CASE BlocksHere(at) # <<>>
    <3>1. UseOf(at) = conditionOf[BlockHere(at)]
      BY <2>2 DEF UseOf
    <3>2. BlockHere(at) \in Scopes /\ anchors[BlockHere(at)] = [scope |-> s, id |-> id]
      BY <2>2, BlockParts
    <3>3. QED BY <3>1, <3>2 DEF ConditionsInv
  <2>3. QED BY <2>1, <2>2
<1>2. uses[UseOf(at)].ref.scope = s /\ uses[UseOf(at)].ref.id = id
  BY <1>1
<1>3. uses[UseOf(at)].ref.scope = uses[UseOf(at)].scope
  <2>1. PICK i \in DOMAIN uses : i = UseOf(at)
    BY <1>1
  <2>2. uses[i].ref = [scope |-> uses[i].scope, id |-> uses[i].ref.id]
    BY UseParts
  <2>3. uses[i].ref.scope = uses[i].scope
    BY <2>2
  <2>4. QED BY <2>1, <2>3
<1>4. QED BY <1>1, <1>2, <1>3

-----------------------------------------------------------------------------
(* The lists around a walk *)

\* The lists a walk is in are lowered, of one function, and all that is around the innermost.
LEMMA OuterLists ==
  ASSUME IInv, OwnersInv, NEW body \in Scopes, tables[body].owner \notin BlockOwners,
         NEW at, PathInv(body, at)
  PROVE  \A k \in 1..Len(at) :
           /\ at[k].scope \in LoweredLists /\ Context[at[k].scope] = Context[body]
           /\ \A s \in Enclosing[at[k].scope] :
                s \in Enclosing[tables[body].parent] \/ \E j \in 1..k : s = at[j].scope
           /\ \A j \in 1..k : at[j].scope \in Enclosing[at[k].scope]
<1> DEFINE P(k) ==
             /\ at[k].scope \in LoweredLists /\ Context[at[k].scope] = Context[body]
             /\ \A s \in Enclosing[at[k].scope] :
                  s \in Enclosing[tables[body].parent] \/ \E j \in 1..k : s = at[j].scope
             /\ \A j \in 1..k : at[j].scope \in Enclosing[at[k].scope]
           T == {m \in Nat : m \in 1..Len(at) => P(m)}
<1>1. /\ Len(at) \in Nat \ {0} /\ at[1].scope = body
      /\ \A k \in 1..Len(at) : at[k].scope \in Scopes
  BY PathParts DEF PathInv
<1>2. /\ Tree
      /\ \A s \in Scopes : Context[s] = IF tables[s].owner \in {"function", "class"} THEN s
                                        ELSE Context[tables[s].parent]
      /\ \A s \in Scopes : Enclosing[s] = {s} \cup Enclosing[tables[s].parent]
  BY TreeOfInv, ContextEquation, EnclosingEquation
<1>3. P(1)
  <2>1. body \in LoweredLists
    BY LoweredEquation
  <2>2. \A j : j \in 1..1 <=> j = 1
    OBVIOUS
  <2>3. Enclosing[body] = {body} \cup Enclosing[tables[body].parent]
    BY <1>2
  <2>4. QED BY <1>1, <2>1, <2>2, <2>3
<1>4. ASSUME NEW k \in 1..(Len(at) - 1), P(k) PROVE P(k + 1)
  <2>1. PICK s, b : s = at[k].scope /\ b = at[k + 1].scope
    OBVIOUS
  <2>2. /\ b \in Anchored(s, at[k].id - 1) /\ tables[b].owner \in BlockOwners
        /\ ~AfterReturn(anchors[b])
    BY <2>1 DEF PathInv
  <2>3. b \in Scopes /\ tables[b].parent = s /\ anchors[b].scope = s
    BY <2>2 DEF Anchored, IInv, ScopesAgree
  <2>4. b \in LoweredLists
    BY <1>4, <2>1, <2>2, <2>3, LoweredEquation
  <2>5. Context[b] = Context[body]
    BY <1>2, <1>4, <2>1, <2>2, <2>3 DEF BlockOwners
  <2>6. Enclosing[b] = {b} \cup Enclosing[s]
    BY <1>2, <2>3
  <2>7. \A j : j \in 1..(k + 1) <=> j \in 1..k \/ j = k + 1
    OBVIOUS
  <2>8. \A t \in Enclosing[b] :
          t \in Enclosing[tables[body].parent] \/ \E j \in 1..(k + 1) : t = at[j].scope
    BY <1>4, <2>1, <2>6, <2>7
  <2>9. \A j \in 1..(k + 1) : at[j].scope \in Enclosing[b]
    BY <1>4, <2>1, <2>6, <2>7
  <2>10. QED BY <2>1, <2>4, <2>5, <2>8, <2>9
<1>5. ASSUME NEW m \in Nat, m \in T PROVE m + 1 \in T
  <2> SUFFICES ASSUME m + 1 \in 1..Len(at) PROVE P(m + 1)
    OBVIOUS
  <2>1. CASE m = 0
    <3>1. m + 1 = 1
      BY <2>1
    <3> HIDE DEF P
    <3>2. QED BY <1>3, <3>1
  <2>2. CASE m # 0
    <3>1. m \in 1..(Len(at) - 1) /\ m \in 1..Len(at)
      BY <1>1, <2>2
    <3> HIDE DEF P
    <3>2. QED BY <1>4, <1>5, <3>1
  <2>3. QED BY <2>1, <2>2
<1>6. 0 \in T
  OBVIOUS
<1>7. \A m \in Nat : m \in T
  <2> HIDE DEF T
  <2>1. QED BY <1>5, <1>6, Induction
<1>8. ASSUME NEW k \in 1..Len(at) PROVE P(k)
  <2>1. k \in T
    BY <1>7
  <2> HIDE DEF P
  <2>2. QED BY <2>1
<1>9. QED BY <1>8

\* A walk over the program is in no block.
LEMMA RootPath ==
  ASSUME IInv, OwnersInv, NEW at, PathInv(Root, at)
  PROVE  Len(at) = 1 /\ Here(at).scope = Root /\ Here(at) = at[1]
<1>1. /\ Len(at) \in Nat \ {0} /\ at[1].scope = Root /\ Here(at) = at[Len(at)]
  BY PathParts DEF PathInv
<1>2. CASE Len(at) # 1
  <2>1. 1 \in 1..(Len(at) - 1) /\ 1 + 1 = 2
    BY SMTT(20), <1>1, <1>2
  <2>2. at[2].scope \in Anchored(Root, at[1].id - 1) /\ tables[at[2].scope].owner \in BlockOwners
    BY <1>1, <2>1 DEF PathInv
  <2>3. at[2].scope \in Scopes /\ tables[at[2].scope].parent = Root
    BY <2>2 DEF Anchored, IInv, ScopesAgree
  <2>4. tables[Root].owner # "program"
    BY <2>2, <2>3 DEF OwnersInv
  <2>5. Root \in Scopes
    BY TreeOfInv DEF Tree, IInv, TreeInv, TypeOK, TableTypeOK, Scopes, Root
  <2>6. QED BY <2>4, <2>5 DEF OwnersInv
<1>3. QED BY <1>1, <1>2

\* What a walk evaluates is lowered.
LEMMA UseIsLowered ==
  ASSUME IInv, OwnersInv, NEW body \in Scopes, tables[body].owner \notin BlockOwners,
         NEW at, PathInv(body, at), NEW i,
         uses[i].ref.scope = Here(at).scope, uses[i].ref.id = Here(at).id
  PROVE  IsLowered(i)
<1>1. Len(at) \in 1..Len(at) /\ Here(at) = at[Len(at)] /\ ~AfterReturn(Here(at))
  BY PathParts DEF PathInv
<1>2. Here(at).scope \in LoweredLists
  BY <1>1, OuterLists
<1>3. ~AfterReturn(uses[i].ref)
  BY <1>1, AfterSame
<1>4. QED BY <1>2, <1>3 DEF IsLowered

-----------------------------------------------------------------------------
(* What a walk has passed *)

\* Behind new is what is behind at, and at most the statement at is at.
GoesOnFrom(at, new) ==
  \A k \in 1..Len(new) :
    \/ k \in 1..(Len(at) - 1) /\ new[k] = at[k]
    \/ /\ k = Len(at) /\ new[k].scope = Here(at).scope
       /\ new[k].id \in {Here(at).id, Here(at).id + 1}
    \/ new[k].id = 1 /\ new[k].scope \in Scopes

\* A walk goes on when what the statement declares is stored.
LEMMA PassedGoesOn ==
  ASSUME IInv, NumberedOnce, NEW body, NEW at, PathInv(body, at),
         NEW stored, PassedIn(at, stored), NEW more, DOMAIN stored \subseteq DOMAIN more,
         NEW new, GoesOnFrom(at, new),
         \A n \in DeclaredHere(at) : DefinitionIn(n, Here(at).scope) \in DOMAIN more
  PROVE  PassedIn(new, more)
<1> SUFFICES ASSUME NEW k \in 1..Len(new), NEW n \in Names,
                    tables[new[k].scope].symbols[n].kind = "Variable",
                    NumberOf(new[k].scope, n) < new[k].id
             PROVE  DefinitionIn(n, new[k].scope) \in DOMAIN more
  BY DEF PassedIn
<1>1. /\ Len(at) \in Nat \ {0} /\ Here(at) = at[Len(at)]
      /\ Here(at).scope \in Scopes /\ Here(at).id \in Nat \ {0}
  BY PathParts
<1>2. CASE k \in 1..(Len(at) - 1) /\ new[k] = at[k]
  <2>1. k \in 1..Len(at)
    BY <1>1, <1>2
  <2>2. QED BY <1>2, <2>1 DEF PassedIn
<1>3. CASE /\ k = Len(at) /\ new[k].scope = Here(at).scope
           /\ new[k].id \in {Here(at).id, Here(at).id + 1}
  <2>1. NumberOf(Here(at).scope, n) \in Nat
    BY <1>1, SymbolParts DEF NumberOf
  <2>2. NumberOf(Here(at).scope, n) < Here(at).id \/ NumberOf(Here(at).scope, n) = Here(at).id
    BY <1>1, <1>3, <2>1
  <2>3. CASE NumberOf(Here(at).scope, n) < Here(at).id
    <3>1. Len(at) \in 1..Len(at)
      BY <1>1
    <3>2. DefinitionIn(n, Here(at).scope) \in DOMAIN stored
      BY <1>1, <1>3, <2>3, <3>1 DEF PassedIn
    <3>3. QED BY <1>3, <3>2
  <2>4. CASE NumberOf(Here(at).scope, n) = Here(at).id
    <3>1. n \in DeclaredHere(at)
      BY <1>3, <2>4 DEF DeclaredHere, DeclaredAt, NumberOf
    <3>2. QED BY <1>3, <3>1
  <2>5. QED BY <2>2, <2>3, <2>4
<1>4. CASE new[k].id = 1 /\ new[k].scope \in Scopes
  <2>1. NumberOf(new[k].scope, n) >= 1 /\ NumberOf(new[k].scope, n) \in Nat
    BY <1>4, SymbolParts DEF NumberedOnce, NumberOf
  <2>2. QED BY <1>4, <2>1
<1>5. QED BY <1>2, <1>3, <1>4 DEF GoesOnFrom

\* A walk that starts has passed nothing.
LEMMA StartParts ==
  ASSUME IInv, NumberedOnce, NEW body \in Scopes
  PROVE  PathInv(body, StartOf(body)) /\ \A stored : PassedIn(StartOf(body), stored)
<1> DEFINE p == [scope |-> body, id |-> 1, passed |-> 0]
<1>1. p \in Place /\ p.scope = body /\ p.id = 1 /\ p.passed = 0
  BY DEF Place
<1>2. PICK at : at = StartOf(body)
  OBVIOUS
<1>3. at = <<p>>
  BY <1>2 DEF StartOf
<1> HIDE DEF p
<1>4. /\ at \in Seq(Place) /\ at # <<>> /\ Len(at) = 1 /\ at[1] = p
  BY <1>1, <1>3
<1>5. Here(at) = p
  BY <1>4, LastProperties DEF Here
<1>6. ~AfterReturn(p)
  <2>1. 1..(p.id - 1) = {}
    BY <1>1
  <2>2. QED BY <2>1 DEF AfterReturn
<1>7. PathInv(body, at)
  BY <1>1, <1>4, <1>5, <1>6 DEF PathInv
<1>8. ASSUME NEW stored PROVE PassedIn(at, stored)
  <2> SUFFICES ASSUME NEW n \in Names, tables[body].symbols[n].kind = "Variable",
                      NumberOf(body, n) < 1
               PROVE  DefinitionIn(n, body) \in DOMAIN stored
    <3>1. \A k \in 1..Len(at) : at[k].scope = body /\ at[k].id = 1
      BY <1>1, <1>4
    <3>2. QED BY <3>1 DEF PassedIn
  <2>1. NumberOf(body, n) >= 1 /\ NumberOf(body, n) \in Nat
    BY SymbolParts DEF NumberedOnce, NumberOf
  <2>2. QED BY <2>1
<1>9. QED BY <1>2, <1>7, <1>8

-----------------------------------------------------------------------------
(* Activations *)

\* The parts of an activation, and others of the same function.
LEMMA ActivationParts ==
  ASSUME NEW a, ActivationInv(a)
  PROVE  \A at, frame :
           /\ [a EXCEPT !.at = at] = [function |-> a.function, at |-> at, frame |-> a.frame]
           /\ [a EXCEPT !.frame = frame, !.at = at] =
                [function |-> a.function, at |-> at, frame |-> frame]
<1>1. a = [function |-> a.function, at |-> a.at, frame |-> a.frame]
  BY DEF ActivationInv
<1>2. ASSUME NEW at, NEW frame
      PROVE  /\ [a EXCEPT !.at = at] = [function |-> a.function, at |-> at, frame |-> a.frame]
             /\ [a EXCEPT !.frame = frame, !.at = at] =
                  [function |-> a.function, at |-> at, frame |-> frame]
  <2>1. PICK f, t, r : f = a.function /\ t = a.at /\ r = a.frame
    OBVIOUS
  <2>2. a = [function |-> f, at |-> t, frame |-> r]
    BY <1>1, <2>1
  <2>3. [a EXCEPT !.at = at] = [function |-> f, at |-> at, frame |-> r]
    BY <2>2
  <2>4. [a EXCEPT !.frame = frame] = [function |-> f, at |-> t, frame |-> frame]
    BY <2>2
  <2>5. PICK b : b = [a EXCEPT !.frame = frame]
    OBVIOUS
  <2>6. [a EXCEPT !.frame = frame, !.at = at] = [b EXCEPT !.at = at]
    BY <2>5
  <2>7. [b EXCEPT !.at = at] = [function |-> f, at |-> at, frame |-> frame]
    <3>1. b = [function |-> f, at |-> t, frame |-> frame]
      BY <2>4, <2>5
    <3>2. QED BY <3>1
  <2>8. QED BY <2>1, <2>3, <2>6, <2>7
<1>3. QED BY <1>2

\* The same activation somewhere else, with more in its frame.
LEMMA ActivationGoesOn ==
  ASSUME NEW a, ActivationInv(a), NEW at, NEW frame, DOMAIN a.frame \subseteq DOMAIN frame,
         PathInv(IF a.function = NoScope THEN Root ELSE a.function, at),
         a.function # NoScope => PassedIn(at, frame),
         NEW b, b = [function |-> a.function, at |-> at, frame |-> frame]
  PROVE  ActivationInv(b) /\ b.function = a.function /\ b.at = at
<1>1. b.function = a.function /\ b.at = at /\ b.frame = frame
  OBVIOUS
<1>2. b = [function |-> b.function, at |-> b.at, frame |-> b.frame]
  BY <1>1
<1>3. b.function # NoScope =>
           /\ b.function \in Scopes /\ tables[b.function].owner = "function"
           /\ ~IsClassScope(tables[b.function].parent)
           /\ {d \in StorageOf(b.function) : d.kind = "Parameter"} \subseteq DOMAIN b.frame
           /\ PassedIn(b.at, b.frame)
  BY <1>1 DEF ActivationInv
<1>4. PathInv(IF b.function = NoScope THEN Root ELSE b.function, b.at)
  BY <1>1
<1>5. QED BY <1>1, <1>2, <1>3, <1>4 DEF ActivationInv

\* The call of a function that is no method.
LEMMA Activated ==
  ASSUME IInv, NumberedOnce, NEW function \in Scopes, tables[function].owner = "function",
         ~IsClassScope(tables[function].parent)
  PROVE  ActivationInv(Activate(function)) /\ Activate(function).function = function
<1> DEFINE frame == [d \in {e \in StorageOf(function) : e.kind = "Parameter"} |-> Argument]
<1>1. PICK b : b = Activate(function)
  OBVIOUS
<1>2. b = [function |-> function, at |-> StartOf(function), frame |-> frame]
  BY <1>1 DEF Activate
<1>3. DOMAIN frame = {e \in StorageOf(function) : e.kind = "Parameter"}
  OBVIOUS
<1> HIDE DEF frame
<1>4. b.function = function /\ b.at = StartOf(function) /\ b.frame = frame
  BY <1>2
<1>5. function # NoScope
  BY DEF Scopes, NoScope
<1>6. PathInv(function, StartOf(function)) /\ PassedIn(StartOf(function), frame)
  BY StartParts
<1>7. QED BY <1>1, <1>2, <1>3, <1>4, <1>5, <1>6 DEF ActivationInv

-----------------------------------------------------------------------------
(* The stack *)

\* The running activation.
LEMMA StackTop ==
  ASSUME NEW st, NEW stored, StackOK(st, stored)
  PROVE  /\ st \in Seq(Range(st)) /\ st # <<>> /\ Len(st) \in Nat \ {0} /\ Last(st) = st[Len(st)]
         /\ ActivationInv(Last(st)) /\ (Last(st).function = NoScope => Len(st) = 1)
<1>1. st \in Seq(Range(st)) /\ st # <<>>
  BY DEF StackOK
<1>2. Len(st) \in Nat \ {0} /\ Last(st) = st[Len(st)]
  BY <1>1, LastProperties
<1>3. Len(st) \in 1..Len(st)
  BY <1>2
<1>4. QED BY <1>1, <1>2, <1>3 DEF StackOK

\* The stack with its running activation replaced.
OnTop(st, a) == Append(Front(st), a)

\* The running activation goes on, and globals are stored.
LEMMA StackGoesOn ==
  ASSUME NEW st, NEW stored, StackOK(st, stored), NEW a, ActivationInv(a),
         a.function = Last(st).function, NEW more, DOMAIN stored \subseteq DOMAIN more,
         a.function = NoScope => PassedIn(a.at, more),
         NEW new, new = OnTop(st, a)
  PROVE  StackOK(new, more)
<1>1. /\ st \in Seq(Range(st)) /\ st # <<>> /\ Len(st) \in Nat \ {0} /\ Last(st) = st[Len(st)]
      /\ Last(st).function = NoScope => Len(st) = 1
  BY StackTop
<1>2. PICK S : S = Range(st) \cup {a}
  OBVIOUS
<1>3. st \in Seq(S) /\ a \in S
  BY <1>1, <1>2
<1>4. new = Append(Front(st), a)
  BY DEF OnTop
<1>5. /\ new \in Seq(S) /\ new # <<>> /\ Len(new) = Len(st) /\ new[Len(st)] = a
      /\ \A k \in 1..(Len(st) - 1) : new[k] = st[k]
  BY <1>1, <1>3, <1>4, LastReplaced
<1>6. new \in Seq(Range(new))
  BY <1>5, SeqOfRange
<1>7. ASSUME NEW k \in 1..Len(new)
      PROVE  ActivationInv(new[k]) /\ (new[k].function = NoScope => k = 1)
  <2>1. CASE k = Len(st)
    BY <1>1, <1>5, <2>1
  <2>2. CASE k # Len(st)
    <3>1. k \in 1..(Len(st) - 1) /\ k \in 1..Len(st)
      BY <1>1, <1>5, <2>2
    <3>2. QED BY <1>5, <3>1 DEF StackOK
  <2>3. QED BY <2>1, <2>2
<1>8. IF new[1].function = NoScope THEN PassedIn(new[1].at, more)
      ELSE GlobalDeclarations \subseteq DOMAIN more
  <2>1. IF st[1].function = NoScope THEN PassedIn(st[1].at, stored)
        ELSE GlobalDeclarations \subseteq DOMAIN stored
    BY DEF StackOK
  <2>2. CASE Len(st) = 1
    <3>1. new[1] = a /\ Last(st) = st[1]
      BY <1>1, <1>5, <2>2
    <3>2. QED BY <2>1, <3>1
  <2>3. CASE Len(st) # 1
    <3>1. 1 \in 1..(Len(st) - 1)
      <4>1. PICK n : n = Len(st)
        OBVIOUS
      <4>2. n \in Nat \ {0} /\ n # 1
        BY <1>1, <2>3, <4>1
      <4>3. 1 \in 1..(n - 1)
        BY <4>2
      <4>4. QED BY <4>1, <4>3
    <3>2. new[1] = st[1]
      BY <1>5, <3>1
    <3>3. PassedIn(st[1].at, stored) => PassedIn(st[1].at, more)
      BY DEF PassedIn
    <3>4. QED BY <2>1, <3>2, <3>3
  <2>4. QED BY <2>2, <2>3
<1>9. DOMAIN GlobalConstants \subseteq DOMAIN more
  BY DEF StackOK
<1>10. QED BY <1>5, <1>6, <1>7, <1>8, <1>9 DEF StackOK

\* A function is called.
LEMMA StackPushed ==
  ASSUME NEW st, NEW stored, StackOK(st, stored), NEW a, ActivationInv(a), a.function # NoScope
  PROVE  StackOK(Append(st, a), stored)
<1>1. st \in Seq(Range(st)) /\ st # <<>> /\ Len(st) \in Nat \ {0}
  BY StackTop
<1>2. PICK S : S = Range(st) \cup {a}
  OBVIOUS
<1>3. st \in Seq(S) /\ a \in S
  BY <1>1, <1>2
<1>4. PICK new : new = Append(st, a)
  OBVIOUS
<1>5. /\ new \in Seq(S) /\ Len(new) = Len(st) + 1 /\ new[Len(st) + 1] = a
      /\ \A k \in 1..Len(st) : new[k] = st[k]
  BY <1>3, <1>4, AppendType
<1>6. new \in Seq(Range(new)) /\ new # <<>>
  <2>1. new \in Seq(Range(new))
    BY <1>5, SeqOfRange
  <2>2. Len(new) # 0
    BY <1>1, <1>5
  <2>3. QED BY <2>1, <2>2
<1>7. ASSUME NEW k \in 1..Len(new)
      PROVE  ActivationInv(new[k]) /\ (new[k].function = NoScope => k = 1)
  <2>1. CASE k = Len(st) + 1
    BY <1>5, <2>1
  <2>2. CASE k # Len(st) + 1
    <3>1. k \in 1..Len(st)
      BY <1>1, <1>5, <2>2
    <3>2. QED BY <1>5, <3>1 DEF StackOK
  <2>3. QED BY <2>1, <2>2
<1>8. new[1] = st[1]
  <2>1. 1 \in 1..Len(st)
    BY <1>1
  <2>2. QED BY <1>5, <2>1
<1>9. StackOK(new, stored)
  BY <1>6, <1>7, <1>8 DEF StackOK
<1>10. QED BY <1>4, <1>9

\* A function returns.
LEMMA StackPopped ==
  ASSUME NEW st, NEW stored, StackOK(st, stored)
  PROVE  Front(st) = <<>> \/ StackOK(Front(st), stored)
<1>1. st \in Seq(Range(st)) /\ st # <<>> /\ Len(st) \in Nat \ {0}
  BY StackTop
<1>2. PICK new : new = Front(st)
  OBVIOUS
<1>3. /\ new \in Seq(Range(st)) /\ Len(new) = Len(st) - 1
      /\ \A k \in 1..(Len(st) - 1) : new[k] = st[k]
  BY <1>1, <1>2, FrontProperties
<1>4. ASSUME new # <<>> PROVE StackOK(new, stored)
  <2>1. Len(new) # 0
    BY <1>3, <1>4, EmptySeq
  <2>2. PICK m : m = Len(new)
    OBVIOUS
  <2>3. m \in Nat \ {0} /\ Len(st) = m + 1 /\ \A k \in 1..m : new[k] = st[k]
    BY <1>1, <1>3, <2>1, <2>2
  <2>4. new \in Seq(Range(new))
    BY <1>3, SeqOfRange
  <2>5. ASSUME NEW k \in 1..m PROVE ActivationInv(new[k]) /\ (new[k].function = NoScope => k = 1)
    <3>1. k \in 1..Len(st) /\ new[k] = st[k]
      BY <2>3
    <3>2. QED BY <3>1 DEF StackOK
  <2>6. new[1] = st[1]
    <3>1. 1 \in 1..m
      BY <2>3
    <3>2. QED BY <2>3, <3>1
  <2>7. QED BY <1>4, <2>2, <2>4, <2>5, <2>6 DEF StackOK
<1>5. QED BY <1>2, <1>4

-----------------------------------------------------------------------------
(* What is behind a walk *)

\* The statement of list a around s is that of the scope of the list around s.
LEMMA AroundOf ==
  ASSUME IInv, OwnersInv, NEW s \in Scopes, NEW b \in Enclosing[s], b # Root
  PROVE  /\ StatementAround(s, tables[b].parent) = anchors[b].id
         /\ tables[b].parent \in Enclosing[s] /\ tables[b].parent # s
<1> DEFINE a == tables[b].parent
           T == {t \in Nat : t \in Scopes /\ b \in Enclosing[t] =>
                               /\ StatementAround(t, a) = anchors[b].id
                               /\ a \in Enclosing[t] /\ a # t}
<1>1. /\ Tree /\ Enclosing[0] = {} /\ Len(tables) \in Nat /\ Scopes = 1..Len(tables)
      /\ \A t \in Scopes : Enclosing[t] = {t} \cup Enclosing[tables[t].parent]
      /\ \A t \in Scopes : /\ t \in Enclosing[t] /\ Enclosing[t] \subseteq Scopes
                           /\ \A u \in Enclosing[t] : u <= t /\ Enclosing[u] \subseteq Enclosing[t]
  BY TreeOfInv, EnclosingEquation, EnclosingFacts DEF Tree, Scopes
<1>2. b \in Scopes /\ a \in Scopes /\ a < b /\ a \in Nat /\ b \in Nat
  BY <1>1, OwnerKinds DEF Scopes
<1>3. \A t \in Scopes :
        /\ tables[t].parent = a => StatementAround(t, a) = anchors[t].id
        /\ tables[t].parent # a /\ t # Root =>
             StatementAround(t, a) = StatementAround(tables[t].parent, a)
  <2>1. \A t \in Scopes : anchors[t].id \in Nat
    BY TreeOfInv DEF AnchorsTyped
  <2>2. QED BY <1>1, <2>1, AroundEquation
<1>4. a \in Enclosing[b]
  BY <1>1, <1>2
<1> HIDE DEF a
<1>5. ASSUME NEW t \in Nat, \A u \in Nat : u < t => u \in T PROVE t \in T
  <2> SUFFICES ASSUME t \in Scopes, b \in Enclosing[t]
               PROVE  StatementAround(t, a) = anchors[b].id /\ a \in Enclosing[t] /\ a # t
    OBVIOUS
  <2>1. a # t
    BY <1>1, <1>2
  <2>2. CASE t = b
    BY <1>2, <1>3, <1>4, <2>1, <2>2 DEF a
  <2>3. CASE t # b
    <3>1. b \in Enclosing[tables[t].parent] /\ b < t
      BY <1>1, <1>2, <2>3
    <3>2. t # Root
      BY <1>2, <3>1 DEF Root
    <3>3. tables[t].parent \in Scopes /\ tables[t].parent < t
      BY <3>2, OwnerKinds
    <3>4. tables[t].parent \in T
      <4>1. tables[t].parent \in Nat
        BY <1>1, <3>3
      <4> HIDE DEF T
      <4>2. QED BY <1>5, <3>3, <4>1
    <3>5. StatementAround(tables[t].parent, a) = anchors[b].id /\ a \in Enclosing[tables[t].parent]
      BY <3>1, <3>3, <3>4
    <3>6. tables[t].parent # a
      BY <1>1, <1>2, <3>1, <3>3
    <3>7. a \in Enclosing[t]
      BY <1>1, <3>5
    <3>8. QED BY <1>3, <2>1, <3>2, <3>5, <3>6, <3>7
  <2>4. QED BY <2>2, <2>3
<1>6. \A t \in Nat : t \in T
  <2> HIDE DEF T
  <2>1. QED BY <1>5, StrongInduction
<1>7. s \in Nat /\ s \in T
  BY <1>1, <1>6
<1>8. QED BY <1>7 DEF a

\* Nothing behind at is before new any more.
StaysBehind(at, new) ==
  \A s \in Scopes, id \in Nat : Behind(at, s, id) => Behind(new, s, id)

\* The walk stays in its lists.
LEMMA BehindOn ==
  ASSUME NEW body, NEW at, PathInv(body, at), NEW new, Len(new) = Len(at),
         \A k \in 1..(Len(at) - 1) : new[k] = at[k],
         new[Len(at)].scope = Here(at).scope,
         new[Len(at)].id \in {Here(at).id, Here(at).id + 1}
  PROVE  StaysBehind(at, new)
<1> SUFFICES ASSUME NEW s \in Scopes, NEW id \in Nat, Behind(at, s, id)
             PROVE  Behind(new, s, id)
  BY DEF StaysBehind
<1>1. /\ Len(at) \in Nat \ {0} /\ Here(at) = at[Len(at)] /\ Here(at).id \in Nat \ {0}
  BY PathParts
<1>2. \A k \in 1..Len(at) :
        /\ new[k].scope = at[k].scope
        /\ at[k].id \in Nat => 0..(at[k].id - 1) \subseteq 0..(new[k].id - 1)
  <2>1. \A k \in 1..Len(at) : k = Len(at) \/ k \in 1..(Len(at) - 1)
    BY <1>1
  <2>2. 0..(Here(at).id - 1) \subseteq 0..(new[Len(at)].id - 1)
    BY <1>1
  <2>3. QED BY <1>1, <2>1, <2>2
<1>3. PICK k \in 1..Len(at) :
        /\ at[k].scope \in Enclosing[s]
        /\ k = Len(at) \/ at[k + 1].scope \notin Enclosing[s]
        /\ (IF s = at[k].scope THEN id ELSE StatementAround(s, at[k].scope)) \in 0..(at[k].id - 1)
  BY DEF Behind
<1>4. /\ (IF s = new[k].scope THEN id ELSE StatementAround(s, new[k].scope)) \in 0..(new[k].id - 1)
      /\ new[k].scope \in Enclosing[s] /\ k \in 1..Len(new)
  <2>1. at[k].id \in Nat
    BY PathParts
  <2>2. QED BY <1>2, <1>3, <2>1
<1>5. k = Len(new) \/ new[k + 1].scope \notin Enclosing[s]
  <2>1. k = Len(at) \/ k + 1 \in 1..Len(at)
    BY <1>1
  <2>2. QED BY <1>2, <1>3, <2>1
<1>6. QED BY <1>4, <1>5 DEF Behind

\* The walk enters a block of the statement it is at: nothing in the block is behind it.
LEMMA BehindEnters ==
  ASSUME IInv, OwnersInv, NEW body, NEW at, PathInv(body, at),
         NEW b \in Anchored(Here(at).scope, Here(at).id),
         NEW new, Len(new) = Len(at) + 1, \A k \in 1..(Len(at) - 1) : new[k] = at[k],
         new[Len(at)].scope = Here(at).scope, new[Len(at)].id = Here(at).id + 1,
         new[Len(at) + 1].scope = b
  PROVE  StaysBehind(at, new)
<1> SUFFICES ASSUME NEW s \in Scopes, NEW id \in Nat, Behind(at, s, id)
             PROVE  Behind(new, s, id)
  BY DEF StaysBehind
<1>1. /\ Len(at) \in Nat \ {0} /\ Here(at) = at[Len(at)] /\ Here(at).id \in Nat \ {0}
  BY PathParts
<1>2. \A k \in 1..Len(at) :
        /\ new[k].scope = at[k].scope
        /\ at[k].id \in Nat => 0..(at[k].id - 1) \subseteq 0..(new[k].id - 1)
  <2>1. \A k \in 1..Len(at) : k = Len(at) \/ k \in 1..(Len(at) - 1)
    BY <1>1
  <2>2. 0..(Here(at).id - 1) \subseteq 0..(new[Len(at)].id - 1)
    BY <1>1
  <2>3. QED BY <1>1, <2>1, <2>2
<1>3. PICK k \in 1..Len(at) :
        /\ at[k].scope \in Enclosing[s]
        /\ k = Len(at) \/ at[k + 1].scope \notin Enclosing[s]
        /\ (IF s = at[k].scope THEN id ELSE StatementAround(s, at[k].scope)) \in 0..(at[k].id - 1)
  BY DEF Behind
<1>4. at[k].id \in Nat /\ k \in 1..Len(new)
  BY <1>1, PathParts
<1>5. /\ (IF s = new[k].scope THEN id ELSE StatementAround(s, new[k].scope)) \in 0..(new[k].id - 1)
      /\ new[k].scope \in Enclosing[s]
  BY <1>2, <1>3, <1>4
<1>6. CASE k # Len(at)
  <2>1. k + 1 \in 1..Len(at)
    BY <1>1, <1>6
  <2>2. QED BY <1>2, <1>3, <1>4, <1>5, <1>6, <2>1 DEF Behind
<1>7. CASE k = Len(at)
  <2>1. b \notin Enclosing[s]
    <3>1. SUFFICES ASSUME b \in Enclosing[s] PROVE FALSE
      OBVIOUS
    <3>2. b \in Scopes \ {Root} /\ anchors[b] = [scope |-> Here(at).scope, id |-> Here(at).id]
      BY DEF Anchored
    <3>3. anchors[b].scope = Here(at).scope /\ anchors[b].id = Here(at).id
      BY <3>2
    <3>4. tables[b].parent = Here(at).scope
      BY <3>2, <3>3 DEF IInv, ScopesAgree
    <3>5. StatementAround(s, Here(at).scope) = Here(at).id /\ Here(at).scope # s
      BY <3>1, <3>2, <3>3, <3>4, AroundOf
    <3>6. Here(at).id \in 0..(Here(at).id - 1)
      BY <1>1, <1>3, <1>7, <3>5
    <3>7. QED BY <1>1, <3>6
  <2>2. new[k + 1].scope \notin Enclosing[s]
    BY <1>7, <2>1
  <2>3. QED BY <1>4, <1>5, <2>2 DEF Behind
<1>8. QED BY <1>6, <1>7

\* The walk leaves a block: what is in the block is in a statement behind it.
LEMMA BehindLeaves ==
  ASSUME IInv, OwnersInv, NEW body, NEW at, PathInv(body, at), Len(at) # 1,
         NEW new, Len(new) = Len(at) - 1, \A k \in 1..(Len(at) - 1) : new[k] = at[k]
  PROVE  StaysBehind(at, new)
<1> SUFFICES ASSUME NEW s \in Scopes, NEW id \in Nat, Behind(at, s, id)
             PROVE  Behind(new, s, id)
  BY DEF StaysBehind
<1>1. Len(at) \in Nat \ {0} /\ \A k \in 1..Len(at) : at[k].id \in Nat \ {0}
  BY PathParts
<1>2. PICK m \in Nat \ {0} : Len(at) = m + 1
  <2>1. PICK l \in Nat \ {0} : l = Len(at)
    BY <1>1
  <2>2. l # 1 /\ l - 1 \in Nat \ {0} /\ l = (l - 1) + 1
    BY <2>1
  <2>3. QED BY <2>1, <2>2
<1>3. Len(new) = m /\ \A k \in 1..m : new[k] = at[k]
  BY <1>2
<1>4. PICK k \in 1..(m + 1) :
        /\ at[k].scope \in Enclosing[s]
        /\ k = m + 1 \/ at[k + 1].scope \notin Enclosing[s]
        /\ (IF s = at[k].scope THEN id ELSE StatementAround(s, at[k].scope)) \in 0..(at[k].id - 1)
  BY <1>2 DEF Behind
<1>5. CASE k # m + 1
  <2>1. k \in 1..m
    BY <1>5
  <2>2. k = m \/ k + 1 \in 1..m
    BY <2>1
  <2>3. k = m \/ new[k + 1].scope \notin Enclosing[s]
    BY <1>3, <1>4, <1>5, <2>2
  <2>4. QED BY <1>3, <1>4, <2>1, <2>3 DEF Behind
<1>6. CASE k = m + 1
  <2>1. PICK b : b = at[m + 1].scope
    OBVIOUS
  <2>2. b \in Anchored(at[m].scope, at[m].id - 1) /\ b \in Enclosing[s]
    <3>1. m \in 1..(Len(at) - 1)
      BY <1>2
    <3>2. QED BY <1>4, <1>6, <2>1, <3>1 DEF PathInv
  <2>3. b \in Scopes \ {Root} /\ anchors[b] = [scope |-> at[m].scope, id |-> at[m].id - 1]
    BY <2>2 DEF Anchored
  <2>4. anchors[b].scope = at[m].scope /\ anchors[b].id = at[m].id - 1
    BY <2>3
  <2>5. tables[b].parent = at[m].scope
    BY <2>3, <2>4 DEF IInv, ScopesAgree
  <2>6. /\ StatementAround(s, at[m].scope) = at[m].id - 1
        /\ at[m].scope \in Enclosing[s] /\ at[m].scope # s
    BY <2>2, <2>3, <2>4, <2>5, AroundOf
  <2>7. at[m].id - 1 \in 0..(at[m].id - 1)
    BY <1>1, <1>2
  <2>8. m \in 1..m
    BY <1>2
  <2>9. QED BY <1>3, <2>6, <2>7, <2>8 DEF Behind
<1>7. QED BY <1>5, <1>6

\* What the statement the walk is at declares is not behind it, and what it is in has been.
LEMMA HereIsNotBehind ==
  ASSUME IInv, OwnersInv, NEW body \in Scopes, tables[body].owner \notin BlockOwners,
         NEW at, PathInv(body, at)
  PROVE  ~Behind(at, Here(at).scope, Here(at).id)
<1> SUFFICES ASSUME Behind(at, Here(at).scope, Here(at).id) PROVE FALSE
  OBVIOUS
<1>1. /\ Len(at) \in Nat \ {0} /\ Here(at) = at[Len(at)] /\ Here(at).id \in Nat \ {0}
  BY PathParts
<1>2. \A j \in 1..Len(at) : at[j].scope \in Enclosing[Here(at).scope]
  <2>1. Len(at) \in 1..Len(at)
    BY <1>1
  <2>2. QED BY <1>1, <2>1, OuterLists
<1>3. PICK k \in 1..Len(at) :
        /\ k = Len(at) \/ at[k + 1].scope \notin Enclosing[Here(at).scope]
        /\ (IF Here(at).scope = at[k].scope THEN Here(at).id
            ELSE StatementAround(Here(at).scope, at[k].scope)) \in 0..(at[k].id - 1)
  BY DEF Behind
<1>4. k = Len(at)
  <2>1. SUFFICES ASSUME k # Len(at) PROVE FALSE
    OBVIOUS
  <2>2. k + 1 \in 1..Len(at)
    BY <1>1, <2>1
  <2>3. QED BY <1>2, <1>3, <2>1, <2>2
<1>5. Here(at).id \in 0..(Here(at).id - 1)
  BY <1>1, <1>3, <1>4
<1>6. QED BY <1>1, <1>5

\* What it declares is behind it when it is at the next statement.
LEMMA DeclaredIsBehind ==
  ASSUME IInv, NEW at, NEW body, PathInv(body, at), NEW new, Len(new) = Len(at),
         new[Len(at)].scope = Here(at).scope, new[Len(at)].id = Here(at).id + 1
  PROVE  Behind(new, Here(at).scope, Here(at).id)
<1>1. /\ Len(at) \in Nat \ {0} /\ Here(at).id \in Nat \ {0} /\ Here(at).scope \in Scopes
  BY PathParts
<1>2. Here(at).scope \in Enclosing[Here(at).scope]
  BY <1>1, TreeOfInv, EnclosingFacts
<1>3. Here(at).id \in 0..(new[Len(at)].id - 1) /\ Len(at) \in 1..Len(new)
  BY <1>1
<1>4. QED BY <1>2, <1>3 DEF Behind

-----------------------------------------------------------------------------
(* The running activation *)

\* Compiled code is run.
IsRun == SInv /\ stage = "run" /\ StackOK(stack, globals)
\* The scope whose statements the activation executes.
Body == IF Activation.function = NoScope THEN Root ELSE Activation.function

\* The parts of SInv a step of compiled code needs.
LEMMA RunParts ==
  IsRun => /\ IInv /\ OwnersInv /\ NumberedOnce /\ BoundedInv /\ ConditionsInv
           /\ \A i \in DOMAIN uses : IsLowered(i) => HasStorage(i)
BY DEF IsRun, SInv, TextInv, StageInv

\* What it executes is in its body, and what it has passed is stored.
LEMMA RunningParts ==
  ASSUME IsRun
  PROVE  /\ ActivationInv(Activation) /\ Body \in Scopes
         /\ tables[Body].owner \notin BlockOwners /\ tables[Body].owner # "class"
         /\ PathInv(Body, At) /\ IsContext(Activation.function)
         /\ Context[Here(At).scope] = Activation.function /\ ~IsClassScope(Here(At).scope)
         /\ ThisClass(Activation.function) = NoScope
         /\ Activation.function # NoScope => PassedIn(At, Activation.frame)
         /\ Activation.function = NoScope =>
              Len(stack) = 1 /\ PassedIn(At, globals) /\ Here(At).scope = Root /\ Len(At) = 1
<1>1. /\ IInv /\ OwnersInv /\ ActivationInv(Activation)
      /\ Len(stack) \in Nat \ {0} /\ Activation = stack[Len(stack)]
      /\ Activation.function = NoScope => Len(stack) = 1
  BY RunParts, StackTop DEF IsRun, Activation
<1>2. Root \in Scopes /\ tables[Root].owner = "program"
  <2>1. Root \in Scopes
    BY <1>1, TreeOfInv DEF Tree, IInv, TreeInv, TypeOK, TableTypeOK, Scopes, Root
  <2>2. QED BY <1>1, <2>1 DEF OwnersInv
<1>3. Activation.function # NoScope =>
        /\ Activation.function \in Scopes /\ tables[Activation.function].owner = "function"
        /\ ~IsClassScope(tables[Activation.function].parent)
        /\ PassedIn(At, Activation.frame)
  BY <1>1 DEF ActivationInv, At
<1>4. Body \in Scopes /\ tables[Body].owner \in {"program", "function"}
  BY <1>2, <1>3 DEF Body
<1>5. PathInv(Body, At)
  BY <1>1 DEF ActivationInv, Body, At
<1>6. IsContext(Activation.function)
  BY <1>3 DEF IsContext
<1>7. /\ \A s \in Scopes : Context[s] = IF tables[s].owner \in {"function", "class"} THEN s
                                        ELSE Context[tables[s].parent]
      /\ Context[Root] = NoScope
  BY <1>1, <1>2, TreeOfInv, ContextEquation, ContextFacts
<1>8. Context[Body] = Activation.function
  BY <1>2, <1>3, <1>7 DEF Body
<1>9. tables[Body].owner \notin BlockOwners /\ tables[Body].owner # "class"
  BY <1>4 DEF BlockOwners
<1>10. /\ Here(At).scope \in Scopes /\ Here(At) = At[Len(At)] /\ Len(At) \in 1..Len(At)
  BY <1>5, PathParts
<1>11. Context[Here(At).scope] = Activation.function
  BY <1>1, <1>4, <1>5, <1>8, <1>9, <1>10, OuterLists
<1>12. ~IsClassScope(Here(At).scope)
  BY <1>3, <1>7, <1>10, <1>11 DEF IsClassScope, Scopes, NoScope
<1>13. ThisClass(Activation.function) = NoScope
  BY <1>3 DEF ThisClass, OwnerClass, IsClassScope
<1>14. ASSUME Activation.function = NoScope
       PROVE  Len(stack) = 1 /\ PassedIn(At, globals) /\ Here(At).scope = Root /\ Len(At) = 1
  <2>1. Len(stack) = 1 /\ Activation = stack[1]
    BY <1>1, <1>14
  <2>2. PassedIn(At, globals)
    BY <1>14, <2>1 DEF IsRun, StackOK, At
  <2>3. PathInv(Root, At)
    BY <1>5, <1>14 DEF Body
  <2>4. QED BY <1>1, <2>1, <2>2, <2>3, RootPath
<1>15. QED BY <1>1, <1>3, <1>4, <1>5, <1>6, <1>9, <1>11, <1>12, <1>13, <1>14

\* What the statement at is at declares is in the map.
HoldsDeclared(at, map) == \A n \in DeclaredHere(at) : DefinitionIn(n, Here(at).scope) \in DOMAIN map

\* The activation moves on, and what the statement declares is a stored global.
LEMMA MovePast ==
  ASSUME IsRun, NEW new, PathInv(Body, new), GoesOnFrom(At, new),
         Move(new), UNCHANGED globals,
         Activation.function # NoScope => DeclaredHere(At) = {},
         HoldsDeclared(At, globals)
  PROVE  StackOK(stack', globals')
<1>1. /\ IInv /\ NumberedOnce /\ ActivationInv(Activation) /\ PathInv(Body, At)
      /\ Activation.function # NoScope => PassedIn(At, Activation.frame)
      /\ Activation.function = NoScope => PassedIn(At, globals)
      /\ Activation = Last(stack) /\ StackOK(stack, globals)
  BY RunParts, RunningParts DEF IsRun, Activation
<1>2. PICK b : b = [function |-> Activation.function, at |-> new, frame |-> Activation.frame]
  OBVIOUS
<1>3. stack' = OnTop(stack, b)
  BY <1>1, <1>2, ActivationParts DEF Move, OnTop
<1>4. /\ Activation.function # NoScope => PassedIn(new, Activation.frame)
      /\ Activation.function = NoScope => PassedIn(new, globals)
  BY <1>1, PassedGoesOn DEF HoldsDeclared
<1>5. ActivationInv(b) /\ b.function = Activation.function /\ b.at = new
  <2>1. PathInv(IF Activation.function = NoScope THEN Root ELSE Activation.function, new)
    BY DEF Body
  <2>2. DOMAIN Activation.frame \subseteq DOMAIN Activation.frame
    OBVIOUS
  <2>3. QED BY <1>1, <1>2, <1>4, <2>1, <2>2, ActivationGoesOn
<1>6. PICK s1 : s1 = stack'
  OBVIOUS
<1>7. s1 = OnTop(stack, b) /\ b.function = Last(stack).function
  BY <1>1, <1>3, <1>5, <1>6
<1>8. b.function = NoScope => PassedIn(b.at, globals)
  BY <1>4, <1>5
<1>9. StackOK(s1, globals)
  <2>1. DOMAIN globals \subseteq DOMAIN globals
    OBVIOUS
  <2>2. QED BY <1>1, <1>5, <1>7, <1>8, <2>1, StackGoesOn
<1>10. QED BY <1>6, <1>9

\* It moves on, and the statement declares nothing.
LEMMA MoveKeeps ==
  ASSUME IsRun, NEW new, PathInv(Body, new), GoesOnFrom(At, new), DeclaredHere(At) = {},
         Move(new), UNCHANGED globals
  PROVE  StackOK(stack', globals')
BY MovePast DEF HoldsDeclared

\* The activation stores a value in its frame or in a global, and moves on.
LEMMA StoreKeeps ==
  ASSUME IsRun, NEW d, NEW value, StoreAndGoOn(d, value),
         PathInv(Body, NextStatement(At)), GoesOnFrom(At, NextStatement(At)),
         \A n \in DeclaredHere(At) : /\ d = DefinitionIn(n, Here(At).scope)
                                     /\ AddressIn(Activation.function, d) = "frame" <=>
                                          Activation.function # NoScope
  PROVE  StackOK(stack', globals')
<1>1. /\ IInv /\ NumberedOnce /\ ActivationInv(Activation) /\ PathInv(Body, At)
      /\ Activation.function # NoScope => PassedIn(At, Activation.frame)
      /\ Activation.function = NoScope => PassedIn(At, globals)
      /\ Activation = Last(stack) /\ StackOK(stack, globals)
  BY RunParts, RunningParts DEF IsRun, Activation
<1>2. PICK frame, g1, s1 :
        /\ g1 = globals' /\ s1 = stack'
        /\ frame = IF AddressIn(Activation.function, d) = "frame"
                   THEN Put(Activation.frame, d, value) ELSE Activation.frame
  OBVIOUS
<1>3. PICK new : new = NextStatement(At)
  OBVIOUS
<1>4. PICK b : b = [function |-> Activation.function, at |-> new, frame |-> frame]
  OBVIOUS
<1>5. \A map : d \in DOMAIN Put(map, d, value) /\ DOMAIN map \subseteq DOMAIN Put(map, d, value)
  BY DEF Put
<1>6. /\ DOMAIN Activation.frame \subseteq DOMAIN frame /\ DOMAIN globals \subseteq DOMAIN g1
      /\ AddressIn(Activation.function, d) = "frame" => d \in DOMAIN frame
      /\ AddressIn(Activation.function, d) # "frame" => d \in DOMAIN g1
  BY <1>2, <1>5 DEF StoreAndGoOn
<1>7. s1 = OnTop(stack, b)
  <2>1. CASE AddressIn(Activation.function, d) = "frame"
    <3>1. s1 = Append(Front(stack), [Activation EXCEPT !.frame = Put(Activation.frame, d, value),
                                                       !.at = NextStatement(At)])
      BY <1>2, <2>1 DEF StoreAndGoOn, At
    <3>2. frame = Put(Activation.frame, d, value)
      BY <1>2, <2>1
    <3>3. [Activation EXCEPT !.frame = frame, !.at = new] = b
      BY <1>1, <1>4, ActivationParts
    <3>4. s1 = Append(Front(stack), b)
      BY <1>3, <3>1, <3>2, <3>3
    <3>5. QED BY <3>4 DEF OnTop
  <2>2. CASE AddressIn(Activation.function, d) # "frame"
    <3>1. s1 = Append(Front(stack), [Activation EXCEPT !.at = NextStatement(At)])
      BY <1>2, <2>2 DEF StoreAndGoOn, At
    <3>2. QED BY <1>1, <1>2, <1>3, <1>4, <2>2, <3>1, ActivationParts DEF OnTop
  <2>3. QED BY <2>1, <2>2
<1>8. /\ Activation.function # NoScope => PassedIn(new, frame)
      /\ Activation.function = NoScope => PassedIn(new, g1)
  <2>1. GoesOnFrom(At, new)
    BY <1>3
  <2>2. CASE Activation.function # NoScope
    <3>1. \A n \in DeclaredHere(At) : DefinitionIn(n, Here(At).scope) \in DOMAIN frame
      BY <1>6, <2>2
    <3>2. QED BY <1>1, <1>6, <2>1, <2>2, <3>1, PassedGoesOn
  <2>3. CASE Activation.function = NoScope
    <3>1. \A n \in DeclaredHere(At) : DefinitionIn(n, Here(At).scope) \in DOMAIN g1
      BY <1>6, <2>3
    <3>2. QED BY <1>1, <1>6, <2>1, <2>3, <3>1, PassedGoesOn
  <2>4. QED BY <2>2, <2>3
<1>9. ActivationInv(b) /\ b.function = Activation.function /\ b.at = new
  <2>1. PathInv(IF Activation.function = NoScope THEN Root ELSE Activation.function, new)
    BY <1>3 DEF Body
  <2>2. QED BY <1>1, <1>4, <1>6, <1>8, <2>1, ActivationGoesOn
<1>10. StackOK(s1, g1)
  <2>1. b.function = NoScope => PassedIn(b.at, g1)
    BY <1>8, <1>9
  <2>2. b.function = Last(stack).function
    BY <1>1, <1>9
  <2>3. QED BY <1>1, <1>6, <1>7, <1>9, <2>1, <2>2, StackGoesOn
<1>11. QED BY <1>2, <1>10

\* A stack of one activation.
LEMMA StackOfOne ==
  ASSUME NEW a, ActivationInv(a), NEW stored, DOMAIN GlobalConstants \subseteq DOMAIN stored,
         IF a.function = NoScope THEN PassedIn(a.at, stored)
         ELSE GlobalDeclarations \subseteq DOMAIN stored,
         NEW st, st = <<a>>
  PROVE  StackOK(st, stored)
<1>1. st \in Seq({a}) /\ Len(st) = 1 /\ st[1] = a /\ st # <<>>
  OBVIOUS
<1>2. st \in Seq(Range(st))
  BY <1>1, SeqOfRange
<1>3. \A k \in 1..Len(st) : k = 1
  BY <1>1
<1>4. QED BY <1>1, <1>2, <1>3 DEF StackOK

-----------------------------------------------------------------------------
(* Statements a walk goes on from *)

\* The walk goes on in the body: behind new is what is behind at, and at most the statement at
\* is at.
GoesOn(body, at, new) ==
  PathInv(body, new) /\ GoesOnFrom(at, new) /\ StaysBehind(at, new)

\* The next statement goes on.
LEMMA NextGoesOn ==
  ASSUME NEW body, NEW at, PathInv(body, at),
         ~EndsInReturn(Here(at).scope, Here(at).id, Terminated)
  PROVE  GoesOn(body, at, NextStatement(at))
<1>1. Len(at) \in Nat \ {0}
  BY PathParts
<1>2. PICK new : new = NextStatement(at)
  OBVIOUS
<1>3. /\ PathInv(body, new) /\ Len(new) = Len(at) /\ \A k \in 1..(Len(at) - 1) : new[k] = at[k]
      /\ new[Len(at)] = [scope |-> Here(at).scope, id |-> Here(at).id + 1, passed |-> 0]
  BY ZenonT(30), <1>2, PathNext
<1>4. new[Len(at)].scope = Here(at).scope /\ new[Len(at)].id = Here(at).id + 1
  BY <1>3
<1>5. \A k \in 1..Len(new) : k = Len(at) \/ k \in 1..(Len(at) - 1)
  BY <1>1, <1>3
<1>6. GoesOnFrom(at, new)
  BY <1>3, <1>4, <1>5 DEF GoesOnFrom
<1>7. StaysBehind(at, new)
  BY <1>3, <1>4, BehindOn
<1>8. QED BY <1>2, <1>3, <1>6, <1>7 DEF GoesOn

\* The next block of the same statement goes on.
LEMMA NextBlockGoesOn ==
  ASSUME NEW body, NEW at, PathInv(body, at), Here(at).passed + 1 < Len(BlocksHere(at))
  PROVE  GoesOn(body, at, NextBlock(at))
<1>1. Len(at) \in Nat \ {0}
  BY PathParts
<1>2. PICK new : new = NextBlock(at)
  OBVIOUS
<1>3. /\ PathInv(body, new) /\ Len(new) = Len(at) /\ \A k \in 1..(Len(at) - 1) : new[k] = at[k]
      /\ new[Len(at)] =
           [scope |-> Here(at).scope, id |-> Here(at).id, passed |-> Here(at).passed + 1]
  BY ZenonT(30), <1>2, PathNextBlock
<1>4. new[Len(at)].scope = Here(at).scope /\ new[Len(at)].id = Here(at).id
  BY <1>3
<1>5. \A k \in 1..Len(new) : k = Len(at) \/ k \in 1..(Len(at) - 1)
  BY <1>1, <1>3
<1>6. GoesOnFrom(at, new)
  BY <1>3, <1>4, <1>5 DEF GoesOnFrom
<1>7. StaysBehind(at, new)
  BY <1>3, <1>4, BehindOn
<1>8. QED BY <1>2, <1>3, <1>6, <1>7 DEF GoesOn

\* A block of the statement goes on.
LEMMA EnterGoesOn ==
  ASSUME IInv, OwnersInv, NEW body, NEW at, PathInv(body, at),
         NEW b \in Anchored(Here(at).scope, Here(at).id), tables[b].owner \in BlockOwners
  PROVE  GoesOn(body, at, EnterBlock(at, b))
<1>1. Len(at) \in Nat \ {0}
  BY PathParts
<1>2. PICK new : new = EnterBlock(at, b)
  OBVIOUS
<1>3. /\ PathInv(body, new) /\ Len(new) = Len(at) + 1
      /\ \A k \in 1..(Len(at) - 1) : new[k] = at[k]
      /\ new[Len(at)] = [scope |-> Here(at).scope, id |-> Here(at).id + 1, passed |-> 0]
      /\ new[Len(at) + 1] = [scope |-> b, id |-> 1, passed |-> 0]
  BY <1>2, PathEnters
<1>4. /\ new[Len(at)].scope = Here(at).scope /\ new[Len(at)].id = Here(at).id + 1
      /\ new[Len(at) + 1].scope = b /\ new[Len(at) + 1].id = 1 /\ b \in Scopes
  BY <1>3 DEF Anchored
<1>5. \A k \in 1..Len(new) : k = Len(at) \/ k = Len(at) + 1 \/ k \in 1..(Len(at) - 1)
  BY <1>1, <1>3
<1>6. GoesOnFrom(at, new)
  BY <1>3, <1>4, <1>5 DEF GoesOnFrom
<1>7. StaysBehind(at, new)
  BY <1>3, <1>4, BehindEnters
<1>8. QED BY <1>2, <1>3, <1>6, <1>7 DEF GoesOn

\* The end of a block goes on behind the block: the block does not end in a return.
LEMMA LeaveGoesOn ==
  ASSUME IInv, BoundedInv, OwnersInv, NEW body, NEW at, PathInv(body, at), Len(at) # 1, AtEnd(at)
  PROVE  GoesOn(body, at, Front(at))
<1>1. /\ Len(at) \in Nat \ {0} /\ Here(at) = at[Len(at)]
      /\ Here(at).scope \in Scopes /\ Here(at).id \in Nat \ {0}
  BY PathParts
<1>2. PICK k, s, id, b : k = Len(at) - 1 /\ s = at[k].scope /\ id = at[k].id - 1
                         /\ b = Here(at).scope
  OBVIOUS
<1>3. k \in 1..(Len(at) - 1) /\ k + 1 = Len(at)
  <2>1. PICK n \in Nat \ {0} : n = Len(at)
    BY <1>1
  <2>2. n # 1 /\ k = n - 1
    BY <1>2, <2>1
  <2>3. k \in 1..(n - 1) /\ k + 1 = n
    BY <2>2
  <2>4. QED BY <2>1, <2>3
<1>4. b \in Anchored(s, id)
  <2>1. at[k + 1].scope \in Anchored(at[k].scope, at[k].id - 1)
    BY <1>3 DEF PathInv
  <2>2. at[k + 1].scope = b
    BY <1>1, <1>2, <1>3
  <2>3. QED BY <1>2, <2>1, <2>2
<1>5. ~Terminated[b]
  <2>1. Terminated[b] = ListEnds(b, Terminated) /\ LastStatement(b) \in Nat
    BY <1>1, <1>2, TerminatedEquation, LastStatementFacts
  <2>2. LastStatement(b) < Here(at).id /\ ~AfterReturn(Here(at))
    BY <1>1, <1>2, <2>1 DEF AtEnd, PathInv
  <2>3. \A j \in 1..LastStatement(b) : j \in 1..(Here(at).id - 1)
    BY <1>1, <2>1, <2>2
  <2>4. \A j \in 1..LastStatement(b) : ~EndsInReturn(b, j, Terminated)
    BY <1>2, <2>2, <2>3 DEF AfterReturn
  <2>5. ~ListEnds(b, Terminated)
    BY <2>4 DEF ListEnds
  <2>6. QED BY Zenon, <2>1, <2>5
<1>6. ~EndsInReturn(s, id, Terminated)
  <2>1. SUFFICES ASSUME EndsInReturn(s, id, Terminated) PROVE FALSE
    OBVIOUS
  <2>2. CASE Returning(s, id)
    BY <1>4, <2>2, ReturningParts
  <2>3. CASE \A t \in Anchored(s, id) : Terminated[t]
    BY <1>4, <1>5, <2>3
  <2>4. QED BY <2>1, <2>2, <2>3, BlocksEnd
<1>7. PICK new : new = Front(at)
  OBVIOUS
<1>8. PathInv(body, new) /\ Len(new) = Len(at) - 1 /\ \A j \in 1..(Len(at) - 1) : new[j] = at[j]
  BY <1>2, <1>6, <1>7, PathLeaves
<1>9. GoesOnFrom(at, new)
  BY <1>8 DEF GoesOnFrom
<1>10. StaysBehind(at, new)
  BY <1>8, BehindLeaves
<1>11. QED BY <1>7, <1>8, <1>9, <1>10 DEF GoesOn

\* A declaration is no return.
LEMMA DeclarationGoesOn ==
  ASSUME IInv, NumberedOnce, NEW body, NEW at, PathInv(body, at), NEW n \in DeclaredHere(at)
  PROVE  /\ GoesOn(body, at, NextStatement(at)) /\ DeclaredHere(at) = {n}
         /\ n \in Names /\ tables[Here(at).scope].symbols[n].kind = "Variable"
         /\ Declared(Here(at).scope, n) /\ NumberOf(Here(at).scope, n) = Here(at).id
         /\ Behind(NextStatement(at), Here(at).scope, Here(at).id)
<1>1. PICK s, id : s = Here(at).scope /\ id = Here(at).id
  OBVIOUS
<1>2. s \in Scopes
  BY <1>1, PathParts
<1>3. /\ DeclaredAt(s, id) = {n} /\ Anchored(s, id) = {} /\ ScopesAt(s, id) = <<>>
      /\ n \in Names /\ tables[s].symbols[n].kind = "Variable" /\ NumberOf(s, n) = id
      /\ Declared(s, n)
  BY <1>1, <1>2, DeclarationParts DEF DeclaredHere
<1>4. ~EndsInReturn(s, id, Terminated)
  <2>1. SUFFICES ASSUME EndsInReturn(s, id, Terminated) PROVE FALSE
    OBVIOUS
  <2>2. Returning(s, id)
    BY <1>3, <2>1, BlocksEnd
  <2>3. QED BY <1>3, <2>2, ReturningParts
<1>5. Behind(NextStatement(at), s, id)
  <2>1. PICK new : new = NextStatement(at)
    OBVIOUS
  <2>2. /\ Len(new) = Len(at)
        /\ new[Len(at)] = [scope |-> s, id |-> id + 1, passed |-> 0]
    BY <1>1, <1>4, <2>1, PathNext
  <2>3. new[Len(at)].scope = s /\ new[Len(at)].id = id + 1
    BY <2>2
  <2>4. QED BY <1>1, <2>1, <2>2, <2>3, DeclaredIsBehind
<1>6. QED BY <1>1, <1>3, <1>4, <1>5, NextGoesOn DEF DeclaredHere

\* A statement that is made of a use is a return if its use is one of a return.
LEMMA UseGoesOn ==
  ASSUME IInv, NumberedOnce, NEW body, NEW at, PathInv(body, at), IsOfUse(at),
         NEW i, i = UseHere(at), ~(i # 0 /\ IsValue(i) /\ statementKind[i] = "return")
  PROVE  GoesOn(body, at, NextStatement(at)) /\ DeclaredHere(at) = {}
<1>1. PICK s, id : s = Here(at).scope /\ id = Here(at).id
  OBVIOUS
<1>2. /\ DeclaredHere(at) = {} /\ ScopesAt(s, id) = <<>>
  BY <1>1 DEF IsOfUse, BlocksHere
<1>3. Anchored(s, id) = {}
  BY <1>2, ScopesAtFacts
<1>4. ~EndsInReturn(s, id, Terminated)
  <2>1. SUFFICES ASSUME EndsInReturn(s, id, Terminated) PROVE FALSE
    OBVIOUS
  <2>2. Returning(s, id)
    BY <1>2, <2>1, BlocksEnd
  <2>3. PICK j \in UsesAt(s, id) : IsValue(j) /\ statementKind[j] = "return"
    BY <2>2, ReturningParts
  <2>4. i = j
    BY <1>1, <1>3, <2>3, OneUse DEF UseHere
  <2>5. j # 0
    <3>1. j \in DOMAIN uses /\ uses \in Seq(UseType)
      BY <2>3 DEF UsesAt, IInv, TypeOK, BuilderTypeOK
    <3>2. QED BY <3>1
  <2>6. QED BY <2>3, <2>4, <2>5
<1>5. QED BY <1>1, <1>2, <1>4, NextGoesOn

\* The last of the blocks of a statement is one of them.
LEMMA LastBlock ==
  ASSUME IInv, NEW s, NEW id, ScopesAt(s, id) # <<>>
  PROVE  /\ Last(ScopesAt(s, id)) \in Anchored(s, id)
         /\ Last(ScopesAt(s, id)) = ScopesAt(s, id)[Len(ScopesAt(s, id))]
<1>1. PICK blocks : blocks = ScopesAt(s, id)
  OBVIOUS
<1>2. blocks \in Seq(Anchored(s, id)) /\ blocks # <<>>
  BY <1>1, ScopesAtFacts
<1>3. QED BY <1>1, <1>2, LastProperties

\* A statement that opens scopes: a block is entered, a function or class is passed, and after
\* a condition the next one follows, or the next statement if there is no else.
LEMMA BlockGoesOn ==
  ASSUME IInv, OwnersInv, NumberedOnce, NEW body, NEW at, PathInv(body, at),
         BlocksHere(at) # <<>>, NEW b, b = BlockHere(at)
  PROVE  /\ DeclaredHere(at) = {}
         /\ tables[b].owner \in {"function", "class"} \cup BlockOwners
         /\ tables[b].owner \in {"function", "class"} => GoesOn(body, at, NextStatement(at))
         /\ tables[b].owner \in BlockOwners => GoesOn(body, at, EnterBlock(at, b))
         /\ tables[b].owner = "then" =>
              GoesOn(body, at, IF Here(at).passed + 1 < Len(BlocksHere(at)) THEN NextBlock(at)
                               ELSE NextStatement(at))
<1>1. PICK s, id : s = Here(at).scope /\ id = Here(at).id
  OBVIOUS
<1>2. ScopesAt(s, id) # <<>>
  BY <1>1 DEF BlocksHere
<1>3. /\ b \in Anchored(s, id) /\ b \in Scopes \ {Root} /\ anchors[b] = [scope |-> s, id |-> id]
      /\ tables[b].owner \in BlockOwners \cup {"function", "class"}
      /\ Here(at).passed + 1 \in 1..Len(BlocksHere(at))
  BY <1>1, <1>2, BlockParts
<1>4. DeclaredHere(at) = {}
  <2>1. s \in Scopes /\ Anchored(s, id) # {}
    BY <1>1, <1>3, PathParts
  <2>2. DeclaredAt(s, id) = {}
    BY <2>1, BlocksDeclareNothing
  <2>3. QED BY <1>1, <2>2 DEF DeclaredHere
<1>5. ASSUME Last(ScopesAt(s, id)) = b, tables[b].owner \notin {"block", "else"}
      PROVE  GoesOn(body, at, NextStatement(at))
  <2>1. ~EndsInReturn(s, id, Terminated)
    <3>1. SUFFICES ASSUME EndsInReturn(s, id, Terminated) PROVE FALSE
      OBVIOUS
    <3>2. CASE Returning(s, id)
      BY <1>3, <3>2, ReturningParts
    <3>3. CASE tables[Last(ScopesAt(s, id))].owner \in {"block", "else"}
      BY <1>5, <3>3
    <3>4. QED BY <3>1, <3>2, <3>3, BlocksEnd
  <2>2. QED BY <1>1, <2>1, NextGoesOn
<1>6. ASSUME tables[b].owner \in {"function", "class"}
      PROVE  GoesOn(body, at, NextStatement(at))
  <2>1. tables[b].owner \notin BlockOwners
    BY <1>6 DEF BlockOwners
  <2>2. \A t \in Anchored(s, id) : t = b
    <3>1. \A t \in Anchored(s, id) : t \in Scopes \ {Root} /\ anchors[b] = anchors[t]
      BY <1>3 DEF Anchored
    <3>2. QED BY <1>3, <2>1, <3>1 DEF NumberedOnce
  <2>3. Last(ScopesAt(s, id)) = b
    BY <1>2, <2>2, LastBlock
  <2>4. QED BY <1>5, <1>6, <2>3
<1>7. ASSUME tables[b].owner \in BlockOwners
      PROVE  GoesOn(body, at, EnterBlock(at, b))
  BY <1>1, <1>3, <1>7, EnterGoesOn
<1>8. ASSUME tables[b].owner = "then", ~(Here(at).passed + 1 < Len(BlocksHere(at)))
      PROVE  GoesOn(body, at, NextStatement(at))
  <2>1. Here(at).passed + 1 = Len(BlocksHere(at))
    <3>1. Len(BlocksHere(at)) \in Nat
      BY ScopesAtFacts DEF BlocksHere
    <3>2. PICK m, p : m = Len(BlocksHere(at)) /\ p = Here(at).passed + 1
      OBVIOUS
    <3>3. m \in Nat /\ p \in 1..m /\ ~(p < m)
      BY <1>3, <1>8, <3>1, <3>2
    <3>4. p = m
      BY <3>3
    <3>5. QED BY <3>2, <3>4
  <2>2. Last(ScopesAt(s, id)) = b
    BY <1>1, <1>2, <2>1, LastBlock DEF BlockHere, BlocksHere
  <2>3. QED BY <1>5, <1>8, <2>2
<1>9. ASSUME Here(at).passed + 1 < Len(BlocksHere(at))
      PROVE  GoesOn(body, at, NextBlock(at))
  BY <1>9, NextBlockGoesOn
<1>10. QED BY <1>3, <1>4, <1>6, <1>7, <1>8, <1>9

\* At the end of a list all it declares is behind the walk.
LEMMA EndParts ==
  ASSUME IInv, BoundedInv, NEW body, NEW at, PathInv(body, at), AtEnd(at)
  PROVE  /\ \A n \in Names : NumberOf(Here(at).scope, n) < Here(at).id
         /\ DeclaredHere(at) = {}
<1>1. Here(at).scope \in Scopes /\ Here(at).id \in Nat
  BY PathParts
<1>2. PICK s, m : s = Here(at).scope /\ m = LastStatement(s)
  OBVIOUS
<1>3. m \in Nat /\ m < Here(at).id /\ \A n \in Names : NumberOf(s, n) <= m
  BY <1>1, <1>2, LastStatementFacts DEF AtEnd
<1>4. \A n \in Names : NumberOf(s, n) \in Nat
  BY <1>1, <1>2, SymbolParts DEF NumberOf
<1>5. \A n \in Names : NumberOf(s, n) < Here(at).id /\ NumberOf(s, n) # Here(at).id
  BY <1>1, <1>3, <1>4
<1>6. QED BY <1>2, <1>5 DEF DeclaredHere, DeclaredAt, NumberOf

-----------------------------------------------------------------------------
(* The steps of compiled code *)

\* A global variable is one of the program's scope.
LEMMA GlobalIsOfRoot ==
  ASSUME IInv, NEW s \in Scopes, NEW n \in Names, Declared(s, n), NEW d, d = DefinitionIn(n, s),
         d \in GlobalDeclarations
  PROVE  s = Root /\ d.scope = Root
<1>1. \A r \in Scopes, m \in Names : Declared(r, m) => DefinitionIn(m, r).scope = r
  BY SymbolParts, DefinitionParts DEF DefinitionIn
<1>2. PICK m \in Names : d = DefinitionIn(m, Root) /\ tables[Root].symbols[m].kind = "Variable"
  BY DEF GlobalDeclarations, DefinitionsIn
<1>3. Root \in Scopes
  BY TreeOfInv DEF Tree, IInv, TreeInv, TypeOK, TableTypeOK, Scopes, Root
<1>4. Declared(Root, m)
  BY <1>2 DEF Declared, NoSymbol
<1>5. QED BY <1>1, <1>2, <1>3, <1>4

\* A declaration stores its variable: a global in __global_init, unless it is a constant, else
\* one of the frame.
LEMMA DeclarationStep ==
  ASSUME IsRun, RunDeclaration
  PROVE  StackOK(stack', globals')
<1>1. /\ IInv /\ OwnersInv /\ NumberedOnce /\ PathInv(Body, At) /\ IsContext(Activation.function)
      /\ Context[Here(At).scope] = Activation.function /\ ~IsClassScope(Here(At).scope)
      /\ Activation.function = NoScope => Here(At).scope = Root
  BY RunParts, RunningParts
<1>2. PICK s : s = Here(At).scope
  OBVIOUS
<1>3. s \in Scopes
  BY <1>1, <1>2, PathParts
<1>4. PICK n \in DeclaredHere(At) :
        LET d == DefinitionIn(n, s)
        IN  IF IsLeftAlone(d) THEN Move(NextStatement(At)) /\ UNCHANGED globals
            ELSE StoreAndGoOn(d, IF HasDefault(d) THEN Zero ELSE ValueOf(UseNow))
  BY <1>2 DEF RunDeclaration
<1>5. PICK d, value :
        d = DefinitionIn(n, s) /\ value = IF HasDefault(d) THEN Zero ELSE ValueOf(UseNow)
  OBVIOUS
<1>6. /\ n \in Names /\ tables[s].symbols[n].kind = "Variable" /\ Declared(s, n)
      /\ DeclaredHere(At) = {n} /\ GoesOn(Body, At, NextStatement(At))
  BY <1>1, <1>2, DeclarationGoesOn
<1>8. PathInv(Body, NextStatement(At)) /\ GoesOnFrom(At, NextStatement(At))
  BY <1>6 DEF GoesOn
<1>9. AddressIn(Activation.function, d) = "frame" <=> Activation.function # NoScope
  <2>1. d.kind = "Variable" /\ d.kind \in SymbolKinds \ {"Function"}
    BY <1>5, <1>6, DefinitionParts DEF DefinitionIn, SymbolKinds
  <2>2. CASE s = Root
    <3>1. AddressIn(Activation.function, d) = "global"
      BY <1>1, <1>2, <1>3, <1>5, <1>6, <2>1, <2>2, AddressOfVariable
    <3>2. Activation.function = NoScope
      BY <1>1, <1>2, <1>3, <2>2, ContextFacts
    <3>3. QED BY <3>1, <3>2
  <2>3. CASE s # Root
    <3>1. Around(s) = Activation.function
      BY <1>1, <1>2, <1>3, AroundIsContext
    <3>2. AddressIn(Activation.function, d) = "frame"
      BY <1>1, <1>2, <1>3, <1>5, <1>6, <2>1, <2>3, <3>1, AddressOfVariable
    <3>3. QED BY <1>1, <1>2, <2>3, <3>2
  <2>4. QED BY <2>2, <2>3
<1>10. \A m \in DeclaredHere(At) : m = n
  BY <1>6
<1>11. CASE ~IsLeftAlone(d)
  <2>1. StoreAndGoOn(d, value)
    BY <1>4, <1>5, <1>11
  <2>2. QED BY <1>2, <1>5, <1>8, <1>9, <1>10, <2>1, StoreKeeps
<1>12. CASE IsLeftAlone(d)
  <2>1. Move(NextStatement(At)) /\ UNCHANGED globals
    BY <1>4, <1>5, <1>12
  <2>2. d \in DOMAIN GlobalConstants /\ d \in DOMAIN globals
    BY <1>12 DEF IsLeftAlone, IsRun, StackOK
  <2>3. d \in GlobalDeclarations
    BY <2>2 DEF GlobalConstants
  <2>4. Activation.function = NoScope
    <3>1. s = Root
      BY <1>1, <1>3, <1>5, <1>6, <2>3, GlobalIsOfRoot
    <3>2. QED BY <1>1, <1>2, <1>3, <3>1, ContextFacts
  <2>5. HoldsDeclared(At, globals)
    BY <1>2, <1>5, <1>10, <2>2 DEF HoldsDeclared
  <2>6. QED BY <1>8, <2>1, <2>4, <2>5, MovePast
<1>13. QED BY <1>11, <1>12

\* An assignment declares nothing.
LEMMA AssignmentStep ==
  ASSUME IsRun, RunAssignment
  PROVE  StackOK(stack', globals')
<1>1. /\ IInv /\ NumberedOnce /\ PathInv(Body, At)
      /\ IsOfUse(At) /\ OnlyWrites(UseNow) /\ UseNow = UseHere(At)
  BY RunParts, RunningParts DEF RunAssignment, IsOfUse, UseNow, UseOf
<1>2. statementKind[UseNow] # "return"
  BY <1>1 DEF OnlyWrites
<1>3. GoesOn(Body, At, NextStatement(At)) /\ DeclaredHere(At) = {}
  BY <1>1, <1>2, UseGoesOn
<1>4. PICK d, value : d = DefinitionOf(UseNow) /\ value = Written(Here(At))
  OBVIOUS
<1>5. StoreAndGoOn(d, value)
  BY <1>4 DEF RunAssignment
<1>6. QED BY <1>3, <1>5, StoreKeeps DEF GoesOn

\* Nor does a print or a call.
LEMMA UseStep ==
  ASSUME IsRun, RunUse
  PROVE  StackOK(stack', globals')
<1>1. /\ IInv /\ NumberedOnce /\ PathInv(Body, At)
      /\ IsOfUse(At) /\ (IsValue(UseNow) => statementKind[UseNow] = "print")
      /\ Move(NextStatement(At)) /\ UNCHANGED globals /\ UseNow = UseHere(At)
  BY RunParts, RunningParts DEF RunUse, IsOfUse, UseNow, UseOf
<1>2. GoesOn(Body, At, NextStatement(At)) /\ DeclaredHere(At) = {}
  BY <1>1, UseGoesOn
<1>3. QED BY <1>1, <1>2, MoveKeeps DEF GoesOn

\* A block is entered; a function or class is passed.
LEMMA BlockStep ==
  ASSUME IsRun, RunBlock
  PROVE  StackOK(stack', globals')
<1>1. /\ IInv /\ OwnersInv /\ NumberedOnce /\ PathInv(Body, At)
      /\ BlocksHere(At) # <<>> /\ UNCHANGED globals
  BY RunParts, RunningParts DEF RunBlock, IsOfBlocks
<1>2. PICK b : b = BlockHere(At)
  OBVIOUS
<1>3. /\ DeclaredHere(At) = {}
      /\ tables[b].owner \in {"function", "class"} \cup BlockOwners
      /\ tables[b].owner \in {"function", "class"} => GoesOn(Body, At, NextStatement(At))
      /\ tables[b].owner \in BlockOwners => GoesOn(Body, At, EnterBlock(At, b))
  BY <1>1, <1>2, BlockGoesOn
<1>4. \/ tables[b].owner \in {"function", "class"} /\ Move(NextStatement(At))
      \/ tables[b].owner \notin {"function", "class"} /\ Move(EnterBlock(At, b))
  BY <1>2 DEF RunBlock
<1>5. QED BY <1>1, <1>3, <1>4, MoveKeeps DEF GoesOn

\* After a condition: into its block, to the next condition, or past an if that has no else.
LEMMA ConditionStep ==
  ASSUME IsRun, RunCondition
  PROVE  StackOK(stack', globals')
<1>1. /\ IInv /\ OwnersInv /\ NumberedOnce /\ PathInv(Body, At)
      /\ BlocksHere(At) # <<>> /\ UNCHANGED globals
  BY RunParts, RunningParts DEF RunCondition, IsOfBlocks
<1>2. PICK b, next : /\ b = BlockHere(At)
                     /\ next = IF Here(At).passed + 1 < Len(BlocksHere(At)) THEN NextBlock(At)
                               ELSE NextStatement(At)
  OBVIOUS
<1>3. tables[b].owner = "then" /\ "then" \in BlockOwners
  BY <1>2 DEF RunCondition, BlockOwners
<1>4. DeclaredHere(At) = {} /\ GoesOn(Body, At, EnterBlock(At, b)) /\ GoesOn(Body, At, next)
  BY <1>1, <1>2, <1>3, BlockGoesOn
<1>5. Move(EnterBlock(At, b)) \/ Move(next)
  BY <1>2 DEF RunCondition
<1>6. QED BY <1>1, <1>4, <1>5, MoveKeeps DEF GoesOn

\* A return, or the end of a function.
LEMMA ReturnStep ==
  ASSUME IsRun, NEW value, Returns(value)
  PROVE  stack' = <<>> \/ StackOK(stack', globals')
<1>1. PICK s1, g1 : s1 = stack' /\ g1 = globals'
  OBVIOUS
<1>2. s1 = Front(stack) /\ g1 = globals
  BY <1>1 DEF Returns
<1>3. s1 = <<>> \/ StackOK(s1, g1)
  BY <1>2, StackPopped DEF IsRun
<1>4. QED BY <1>1, <1>3

\* The end of a block, of a function, or of __global_init, which is followed by main.
LEMMA ListEndStep ==
  ASSUME IsRun, RunEnd
  PROVE  stack' = <<>> \/ StackOK(stack', globals')
<1>1. /\ IInv /\ OwnersInv /\ NumberedOnce /\ BoundedInv /\ PathInv(Body, At) /\ AtEnd(At)
      /\ Len(At) \in Nat \ {0}
      /\ Activation.function = NoScope =>
           PassedIn(At, globals) /\ Here(At).scope = Root /\ Len(At) = 1
  BY RunParts, RunningParts, PathParts DEF RunEnd
<1>2. /\ Here(At) = At[Len(At)] /\ Here(At).scope \in Scopes /\ Here(At).id \in Nat
      /\ Root \in Scopes /\ tables[Root].owner = "program"
  <2>1. Root \in Scopes
    BY <1>1, TreeOfInv DEF Tree, IInv, TreeInv, TypeOK, TableTypeOK, Scopes, Root
  <2>2. QED BY <1>1, <2>1, PathParts DEF OwnersInv
<1>3. \A n \in Names : NumberOf(Here(At).scope, n) < Here(At).id
  BY <1>1, EndParts
<1>4. CASE Len(At) > 1
  <2>1. DeclaredHere(At) = {}
    BY <1>1, EndParts
  <2>2. Move(Front(At)) /\ UNCHANGED globals
    BY <1>4 DEF RunEnd
  <2>3. PathInv(Body, Front(At)) /\ GoesOnFrom(At, Front(At))
    <3>1. Len(At) # 1
      <4>1. PICK m : m = Len(At)
        OBVIOUS
      <4>2. m > 1
        BY <1>4, <4>1
      <4>3. m # 1
        BY <4>2
      <4>4. QED BY <4>1, <4>3
    <3>2. QED BY <1>1, <3>1, LeaveGoesOn DEF GoesOn
  <2>4. QED BY <2>1, <2>2, <2>3, MoveKeeps
<1>5. CASE ~(Len(At) > 1) /\ Activation.function # NoScope
  <2>1. Returns(DefaultReturn)
    BY <1>5 DEF RunEnd
  <2>2. QED BY <2>1, ReturnStep
<1>6. CASE ~(Len(At) > 1) /\ Activation.function = NoScope
  <2>1. PICK main \in Mains : stack' = <<Activate(main)>>
    BY <1>6 DEF RunEnd
  <2>2. PICK s1, g1 : s1 = stack' /\ g1 = globals'
    OBVIOUS
  <2>3. g1 = globals /\ s1 = <<Activate(main)>>
    BY <1>6, <2>1, <2>2 DEF RunEnd
  <2>4. main \in Scopes /\ tables[main].owner = "function" /\ tables[main].parent = Root
    BY DEF Mains
  <2>5. PICK a : a = Activate(main)
    OBVIOUS
  <2>6. ActivationInv(a) /\ a.function = main /\ main # NoScope
    BY <1>1, <1>2, <2>4, <2>5, Activated DEF IsClassScope, Scopes, NoScope
  <2>7. GlobalDeclarations \subseteq DOMAIN g1
    <3>1. ASSUME NEW n \in Names, tables[Root].symbols[n].kind \in {"Variable"}
          PROVE  DefinitionIn(n, Root) \in DOMAIN globals
      <4>1. /\ 1 \in 1..Len(At) /\ At[1].scope = Root /\ At[1] = Here(At)
        BY <1>1, <1>2, <1>6
      <4>2. NumberOf(At[1].scope, n) < At[1].id
        BY <1>3, <4>1
      <4>3. QED BY <1>1, <1>6, <3>1, <4>1, <4>2 DEF PassedIn
    <3>2. QED BY <2>3, <3>1 DEF GlobalDeclarations, DefinitionsIn
  <2>8. DOMAIN GlobalConstants \subseteq DOMAIN g1
    BY <2>3 DEF IsRun, StackOK
  <2>9. StackOK(s1, g1)
    BY <2>3, <2>5, <2>6, <2>7, <2>8, StackOfOne
  <2>10. QED BY <2>2, <2>9
<1>7. QED BY Zenon, <1>4, <1>5, <1>6

-----------------------------------------------------------------------------
(* Calls *)

\* The use that is evaluated is one of the statement, and lowered.
LEMMA UseNowIsLowered ==
  ASSUME IsRun, UseNow # 0
  PROVE  /\ UseNow \in DOMAIN uses /\ uses[UseNow].scope = Here(At).scope
         /\ uses[UseNow].ref.scope = Here(At).scope /\ uses[UseNow].ref.id = Here(At).id
         /\ HasStorage(UseNow) /\ Context[uses[UseNow].scope] = Activation.function
<1>1. /\ IInv /\ OwnersInv /\ ConditionsInv /\ PathInv(Body, At) /\ Body \in Scopes
      /\ tables[Body].owner \notin BlockOwners
      /\ Context[Here(At).scope] = Activation.function
      /\ \A i \in DOMAIN uses : IsLowered(i) => HasStorage(i)
  BY RunParts, RunningParts
<1>2. UseNow = UseOf(At)
  BY DEF UseNow
<1>3. /\ UseNow \in DOMAIN uses /\ uses[UseNow].scope = Here(At).scope
      /\ uses[UseNow].ref.scope = Here(At).scope /\ uses[UseNow].ref.id = Here(At).id
  BY <1>1, <1>2, UseOfParts
<1>4. PICK i \in DOMAIN uses : i = UseNow
  BY <1>3
<1>5. IsLowered(i)
  BY <1>1, <1>3, <1>4, UseIsLowered
<1>6. QED BY <1>1, <1>3, <1>4, <1>5

\* A call activates the function its use resolves to, which is no method.
LEMMA CallStep ==
  ASSUME IsRun, Call
  PROVE  StackOK(stack', globals')
<1>1. /\ SInv /\ IInv /\ OwnersInv /\ NumberedOnce /\ stage = "run"
      /\ ThisClass(Activation.function) = NoScope /\ StackOK(stack, globals)
  BY RunParts, RunningParts DEF IsRun
<1>2. UseNow # 0 /\ ~IsValue(UseNow)
  BY DEF Call, IsCall
<1>3. PICK i, d, n : i = UseNow /\ d = DefinitionOf(i) /\ n = uses[i].form.name
  OBVIOUS
<1>4. i \in DOMAIN uses /\ HasStorage(i) /\ Context[uses[i].scope] = Activation.function
  BY <1>2, <1>3, UseNowIsLowered
<1>5. ~IsClassScope(d.scope)
  BY <1>1, <1>2, <1>3, <1>4 DEF HasStorage, CanCall
<1>6. /\ n \in Names /\ d.kind = "Function" /\ d.scope \in Scopes /\ Declared(d.scope, n)
      /\ d = DefinitionIn(n, d.scope)
  <2>1. stage \notin {"build", "end"}
    BY <1>1
  <2>2. QED BY <1>1, <1>2, <1>3, <1>4, <1>5, <2>1, AcceptedUse
<1>7. /\ tables[d.scope].symbols[n].kind = "Function" /\ d.id = NumberOf(d.scope, n)
  <2>1. PICK c : c = d.scope
    OBVIOUS
  <2>2. d.kind = tables[c].symbols[n].kind /\ d.id = tables[c].symbols[n].id
    BY <1>6, <2>1, DefinitionParts DEF DefinitionIn
  <2>3. QED BY <1>6, <2>1, <2>2 DEF NumberOf
<1>8. PICK t \in Anchored(d.scope, d.id) : tables[t].owner = "function"
  BY <1>1, <1>6, <1>7 DEF NumberedOnce
<1>9. t \in Scopes \ {Root} /\ anchors[t] = [scope |-> d.scope, id |-> d.id]
  BY DEF Anchored
<1>10. PICK u : u = BodyOf(d)
  OBVIOUS
<1>11. u \in Scopes /\ anchors[u] = [scope |-> d.scope, id |-> d.id]
  BY <1>9, <1>10 DEF BodyOf
<1>12. u # Root
  <2>1. SUFFICES ASSUME u = Root PROVE FALSE
    OBVIOUS
  <2>2. /\ anchors[Root].scope = d.scope /\ anchors[Root].scope = tables[Root].parent
        /\ Root \in Scopes
    BY <1>1, <1>11, <2>1 DEF IInv, ScopesAgree
  <2>3. tables[Root].parent = NoScope
    BY <1>1, <2>2 DEF IInv, TreeInv
  <2>4. QED BY <1>6, <2>2, <2>3 DEF Scopes, NoScope
<1>13. t = u
  <2>1. tables[t].owner \notin BlockOwners
    BY <1>8 DEF BlockOwners
  <2>2. QED BY <1>1, <1>9, <1>11, <1>12, <2>1 DEF NumberedOnce
<1>14. tables[u].owner = "function" /\ ~IsClassScope(tables[u].parent)
  <2>1. anchors[u].scope = tables[u].parent /\ anchors[u].scope = d.scope
    BY <1>1, <1>11, <1>12 DEF IInv, ScopesAgree
  <2>2. QED BY <1>5, <1>8, <1>13, <2>1
<1>15. PICK a : a = Activate(u)
  OBVIOUS
<1>16. ActivationInv(a) /\ a.function # NoScope
  BY <1>1, <1>11, <1>14, <1>15, Activated DEF Scopes, NoScope
<1>17. PICK s1, g1 : s1 = stack' /\ g1 = globals'
  OBVIOUS
<1>18. s1 = Append(stack, a) /\ g1 = globals
  BY <1>3, <1>10, <1>15, <1>17 DEF Call
<1>19. StackOK(s1, g1)
  BY <1>1, <1>16, <1>18, StackPushed
<1>20. QED BY <1>17, <1>19

\* No step of compiled code breaks it.
LEMMA RunKeeps ==
  ASSUME IsRun, Run
  PROVE  stack' = <<>> \/ StackOK(stack', globals')
<1>1. CASE RunReturn
  BY <1>1, ReturnStep DEF RunReturn
<1>2. QED BY <1>1, CallStep, DeclarationStep, AssignmentStep, UseStep, BlockStep, ConditionStep,
             ListEndStep DEF Run

-----------------------------------------------------------------------------
(* The stack from stage to stage *)

\* Whether a walk fits the program depends on the program only.
LEMMA SameWalks ==
  ASSUME UNCHANGED <<vars, statementKind>>
  PROVE  /\ \A body, at : PathInv(body, at)' <=> PathInv(body, at)
         /\ \A at, stored : PassedIn(at, stored)' <=> PassedIn(at, stored)
         /\ GlobalDeclarations' = GlobalDeclarations
<1>1. /\ UNCHANGED <<tables, anchors, classType, members, uses, resolved, statementKind>>
      /\ Scopes' = Scopes /\ Terminated' = Terminated
  BY SameProgram DEF vars, numVars, classVars, tableVars, builderVars, resolverVars, Scopes
<1>2. ValueStatements' = ValueStatements
  BY <1>1 DEF ValueStatements, IsValue, IsStatement, DeclaredAt, ScopesAt, Anchored, Scopes
<1>3. /\ \A s, id : Anchored(s, id)' = Anchored(s, id)
      /\ \A s, id : ScopesAt(s, id)' = ScopesAt(s, id)
  BY <1>1 DEF ScopesAt, Anchored, Scopes
<1>4. \A s, id : EndsInReturn(s, id, Terminated)' <=> EndsInReturn(s, id, Terminated)
  <2>1. \A s, id : Returning(s, id)' <=> Returning(s, id)
    BY <1>1, <1>2 DEF Returning, UsesAt
  <2>2. QED BY <1>1, <1>3, <2>1 DEF EndsInReturn
<1>5. /\ \A p : AfterReturn(p)' <=> AfterReturn(p)
      /\ \A t : AfterReturn(anchors[t])' <=> AfterReturn(anchors[t])
  <2>1. \A p : AfterReturn(p)' <=> AfterReturn(p)
    BY <1>1, <1>4 DEF AfterReturn
  <2>2. \A t : AfterReturn(anchors[t])' <=> AfterReturn(anchors[t])
    BY <1>1, <1>2, <1>3 DEF AfterReturn, EndsInReturn, Returning, UsesAt
  <2>3. QED BY <2>1, <2>2
<1>6. \A at, stored : PassedIn(at, stored)' <=> PassedIn(at, stored)
  BY <1>1 DEF PassedIn, NumberOf, DefinitionIn, Definition
<1>7. \A body, at : PathInv(body, at)' <=> PathInv(body, at)
  BY <1>1, <1>3, <1>5 DEF PathInv, Place, Here, BlocksHere
<1>8. GlobalDeclarations' = GlobalDeclarations
  BY <1>1 DEF GlobalDeclarations, DefinitionsIn, DefinitionIn, Definition
<1>9. QED BY <1>6, <1>7, <1>8

\* So does whether a stack fits it.
LEMMA SameStack ==
  ASSUME UNCHANGED <<vars, statementKind, defaulted>>
  PROVE  \A st, stored : StackOK(st, stored)' <=> StackOK(st, stored)
<1>1. UNCHANGED <<tables, anchors>> /\ Scopes' = Scopes
  BY DEF vars, numVars, tableVars, Scopes
<1>2. /\ \A body, at : PathInv(body, at)' <=> PathInv(body, at)
      /\ \A at, stored : PassedIn(at, stored)' <=> PassedIn(at, stored)
      /\ GlobalDeclarations' = GlobalDeclarations
  BY SameWalks
<1>3. \A c : StorageOf(c)' = StorageOf(c)
  <2>1. \A s : IsClassScope(s)' <=> IsClassScope(s)
    BY <1>1 DEF IsClassScope
  <2>2. \A s, kinds : DefinitionsIn(s, kinds)' = DefinitionsIn(s, kinds)
    BY <1>1 DEF DefinitionsIn, DefinitionIn, Definition
  <2>3. \A c : ListsOf(c)' = ListsOf(c)
    BY <1>1 DEF ListsOf, IsWalked, Scopes
  <2>4. QED BY <2>1, <2>2, <2>3 DEF StorageOf
<1>4. \A a : ActivationInv(a)' <=> ActivationInv(a)
  <2>1. \A s : tables'[s] = tables[s]
    BY <1>1
  <2>2. \A f : IsClassScope(tables[f].parent)' <=> IsClassScope(tables[f].parent)
    BY <1>1 DEF IsClassScope
  <2>3. QED BY <1>1, <1>2, <1>3, <2>1, <2>2 DEF ActivationInv
<1>5. DOMAIN GlobalConstants' = DOMAIN GlobalConstants
  <2>1. \A d : HasDefault(d)' <=> HasDefault(d)
    BY <1>1 DEF HasDefault, IsOfClass
  <2>2. QED BY <1>2, <2>1 DEF GlobalConstants
<1>6. QED BY <1>2, <1>4, <1>5 DEF StackOK

\* Nothing runs at first.
LEMMA InitStack == ExecutionInit => StackInv
BY DEF ExecutionInit, StackInv

\* Every step keeps StackInv.
LEMMA NextStack == SInv /\ StackInv /\ [ExecutionNext]_allVars => StackInv'
<1> SUFFICES ASSUME SInv, StackInv, [ExecutionNext]_allVars, stage' = "run"
             PROVE  \E st \in {stack'}, stored \in {globals'} : StackOK(st, stored)'
  BY DEF StackInv
<1>1. SUFFICES UNCHANGED <<vars, statementKind, defaulted>> /\ StackOK(stack', globals')
  <2>1. PICK st, stored : st = stack' /\ stored = globals'
    OBVIOUS
  <2>2. StackOK(st, stored)
    BY <1>1, <2>1
  <2>3. StackOK(st, stored)'
    BY <1>1, <2>2, SameStack
  <2>4. QED BY <2>1, <2>3
<1>2. CASE Lower
  <2>1. /\ UNCHANGED <<vars, statementKind, defaulted>>
        /\ stack' = <<GlobalInit>> /\ globals' = GlobalConstants
    BY <1>2 DEF Lower, textVars
  <2>2. PICK a, st, stored : a = GlobalInit /\ st = stack' /\ stored = globals'
    OBVIOUS
  <2>3. IInv /\ OwnersInv /\ NumberedOnce /\ Root \in Scopes
    <3>1. IInv /\ OwnersInv /\ NumberedOnce
      BY DEF SInv, TextInv
    <3>2. QED BY <3>1, TreeOfInv DEF Tree, IInv, TreeInv, TypeOK, TableTypeOK, Scopes, Root
  <2>4. a.function = NoScope /\ a.at = StartOf(Root) /\ a.frame = <<>>
        /\ a = [function |-> NoScope, at |-> StartOf(Root), frame |-> <<>>]
    BY <2>2 DEF GlobalInit
  <2>5. PathInv(Root, StartOf(Root)) /\ PassedIn(StartOf(Root), stored)
    BY <2>3, StartParts
  <2>6. ActivationInv(a)
    BY <2>4, <2>5 DEF ActivationInv
  <2>7. StackOK(st, stored)
    <3>1. stored = GlobalConstants /\ DOMAIN GlobalConstants \subseteq DOMAIN stored
      BY <2>1, <2>2
    <3>2. QED BY <2>1, <2>2, <2>4, <2>5, <2>6, <3>1, StackOfOne
  <2>8. QED BY <2>1, <2>2, <2>7
<1>3. CASE RunStep
  <2>1. IsRun /\ Run /\ stack' # <<>> /\ UNCHANGED <<vars, statementKind, defaulted>>
    BY <1>3 DEF RunStep, StackInv, IsRun
  <2>2. QED BY <2>1, RunKeeps
<1>4. CASE UNCHANGED allVars
  <2>1. UNCHANGED <<vars, statementKind, defaulted, stack, globals, stage>>
    BY <1>4 DEF allVars, textVars, compiledVars
  <2>2. PICK st, stored : st = stack' /\ stored = globals'
    OBVIOUS
  <2>3. st = stack /\ stored = globals /\ StackOK(stack, globals)
    BY <2>1, <2>2 DEF StackInv
  <2>4. QED BY <2>1, <2>2, <2>3
<1>5. stage' # "run" \/ Lower \/ RunStep \/ UNCHANGED allVars
  <2>1. CASE Build
    BY <2>1 DEF Build
  <2>2. CASE ResolveProgram
    BY <2>2 DEF ResolveProgram
  <2>3. CASE InterpretStep
    BY <2>3 DEF InterpretStep
  <2>4. QED BY <2>1, <2>2, <2>3 DEF ExecutionNext, ExecutionEnds
<1>6. QED BY <1>2, <1>3, <1>4, <1>5

-----------------------------------------------------------------------------
\* The invariant of the text and of the stack holds in every program.
THEOREM StackInvariant == ExecutionSpec => [](SInv /\ StackInv)
<1>1. ExecutionInit => SInv /\ StackInv
  BY InitSInv, InitStack
<1>2. (SInv /\ StackInv) /\ [ExecutionNext]_allVars => (SInv /\ StackInv)'
  BY NextSInv, NextStack
<1>3. QED BY <1>1, <1>2, PTL DEF ExecutionSpec

-----------------------------------------------------------------------------
(* Reads *)

\* What BeforeInv says of a variable that counts for a use: its number is less than that of the
\* use, or of the scope that leads to the use.
LEMMA CountsBefore ==
  ASSUME IInv, LexicalInv, NEW i \in DOMAIN uses, NEW n, n = uses[i].form.name,
         NEW s \in Scopes, Declared(s, n), tables[s].symbols[n].kind = "Variable",
         ~IsClassScope(s), Counts(uses[i], s)
  PROVE  /\ s = uses[i].scope => NumberOf(s, n) < uses[i].ref.id
         /\ \A t \in Enclosing[uses[i].scope] \ {Root} :
              tables[t].parent = s => NumberOf(s, n) < anchors[t].id
<1>1. s \in uses[i].before
  BY DEF Counts
<1>2. i \in 1..Len(uses)
  BY DEF IInv, TypeOK, BuilderTypeOK
<1>3. /\ Declared(uses[i].scope, n) =>
           (uses[i].scope \in uses[i].before <=> NumberOf(uses[i].scope, n) < uses[i].ref.id)
      /\ \A t \in Enclosing[uses[i].scope] \ {Root} :
           Declared(tables[t].parent, n) =>
             (tables[t].parent \in uses[i].before
                <=> NumberOf(tables[t].parent, n) < anchors[t].id)
  BY <1>2 DEF LexicalInv, BeforeInv
<1>4. s = uses[i].scope => NumberOf(s, n) < uses[i].ref.id
  BY <1>1, <1>3
<1>5. ASSUME NEW t \in Enclosing[uses[i].scope] \ {Root}, tables[t].parent = s
      PROVE  NumberOf(s, n) < anchors[t].id
  BY <1>1, <1>3, <1>5
<1>6. QED BY <1>4, <1>5

\* A variable that counts for a use is declared behind a walk that is at the use.
LEMMA CountsBehind ==
  ASSUME IInv, LexicalInv, OwnersInv,
         NEW body \in Scopes, tables[body].owner \notin BlockOwners, NEW at, PathInv(body, at),
         NEW i \in DOMAIN uses, uses[i].scope = Here(at).scope, uses[i].ref.id = Here(at).id,
         NEW k \in 1..Len(at), NEW s \in Scopes, s = at[k].scope,
         NEW n \in Names, n = uses[i].form.name, Declared(s, n),
         tables[s].symbols[n].kind = "Variable", ~IsClassScope(s), Counts(uses[i], s)
  PROVE  NumberOf(s, n) < at[k].id
<1>1. /\ Len(at) \in Nat \ {0} /\ Here(at) = at[Len(at)]
      /\ \A j \in 1..Len(at) : at[j].id \in Nat \ {0}
  BY PathParts
<1>2. \A j \in 1..Len(at) : at[j].scope \in Enclosing[Here(at).scope]
  <2>1. Len(at) \in 1..Len(at)
    BY <1>1
  <2>2. QED BY <1>1, <2>1, OuterLists
<1>3. /\ s = uses[i].scope => NumberOf(s, n) < uses[i].ref.id
      /\ \A t \in Enclosing[uses[i].scope] \ {Root} :
           tables[t].parent = s => NumberOf(s, n) < anchors[t].id
  BY CountsBefore
<1>4. CASE k = Len(at)
  BY <1>1, <1>3, <1>4
<1>5. CASE k # Len(at)
  <2>1. k \in 1..(Len(at) - 1) /\ k + 1 \in 1..Len(at)
    BY <1>1, <1>5
  <2>2. PICK b : b = at[k + 1].scope
    OBVIOUS
  <2>3. b \in Anchored(s, at[k].id - 1) /\ b \in Enclosing[Here(at).scope]
    BY <1>2, <2>1, <2>2 DEF PathInv
  <2>4. b \in Scopes \ {Root} /\ anchors[b] = [scope |-> s, id |-> at[k].id - 1]
    BY <2>3 DEF Anchored
  <2>5. anchors[b].scope = s /\ anchors[b].id = at[k].id - 1
    BY <2>4
  <2>6. tables[b].parent = s
    BY <2>4, <2>5 DEF IInv, ScopesAgree
  <2>7. NumberOf(s, n) < at[k].id - 1
    BY <1>3, <2>3, <2>4, <2>5, <2>6
  <2>8. PICK x, y : x = NumberOf(s, n) /\ y = at[k].id
    OBVIOUS
  <2>9. x \in Nat
    BY <2>8, SymbolParts DEF NumberOf
  <2>10. y \in Nat /\ x < y - 1
    BY <1>1, <2>7, <2>8
  <2>11. x < y
    BY <2>9, <2>10
  <2>12. QED BY <2>8, <2>11
<1>6. QED BY <1>4, <1>5

\* What is read now.
LEMMA ReadParts ==
  ASSUME IsRun, ReadNow, NEW i, i = UseNow, NEW d, d = DefinitionOf(i), d.kind # "Function",
         NEW n, n = uses[i].form.name, NEW s, s = d.scope
  PROVE  /\ i \in DOMAIN uses /\ uses[i].scope = Here(At).scope /\ uses[i].ref.id = Here(At).id
         /\ s \in Enclosing[Here(At).scope] /\ s \in Scopes /\ n \in Names /\ Declared(s, n)
         /\ d = DefinitionIn(n, s) /\ d.kind \in SymbolKinds \ {"Function"}
         /\ tables[s].symbols[n].kind = d.kind /\ d.id = NumberOf(s, n) /\ d.id \in Nat
         /\ Counts(uses[i], s) /\ ~IsClassScope(s)
         /\ s # Root => Context[s] = Activation.function
<1>1. /\ SInv /\ IInv /\ OwnersInv /\ stage \notin {"build", "end"}
      /\ IsContext(Activation.function) /\ ThisClass(Activation.function) = NoScope
  BY RunParts, RunningParts DEF IsRun
<1>2. i # 0 /\ IsValue(i)
  BY DEF ReadNow
<1>3. /\ i \in DOMAIN uses /\ uses[i].scope = Here(At).scope /\ uses[i].ref.id = Here(At).id
      /\ HasStorage(i) /\ Context[uses[i].scope] = Activation.function
  BY <1>2, UseNowIsLowered
<1>4. /\ s \in Enclosing[Here(At).scope] /\ s \in Scopes /\ n \in Names /\ Declared(s, n)
      /\ d = DefinitionIn(n, s) /\ d.kind \in SymbolKinds /\ Counts(uses[i], s)
  BY <1>1, <1>3, AcceptedUse
<1>5. AddressIn(Activation.function, d) # "none"
  BY <1>2, <1>3 DEF HasStorage
<1>6. d.kind \in SymbolKinds \ {"Function"}
  BY <1>4
<1>7. /\ IsClassScope(s) => ThisClass(Activation.function) # NoScope
      /\ ~IsClassScope(s) /\ s # Root => Around(s) = Activation.function
  BY <1>1, <1>4, <1>5, <1>6, AddressOfVariable
<1>8. Around(s) = Context[s]
  BY <1>1, <1>4, AroundIsContext
<1>9. tables[s].symbols[n].kind = d.kind /\ d.id = NumberOf(s, n)
  <2>1. PICK symbol : symbol = tables[s].symbols[n]
    OBVIOUS
  <2>2. d = Definition(n, symbol)
    BY <1>4, <2>1 DEF DefinitionIn
  <2>3. d.kind = symbol.kind /\ d.id = symbol.id
    BY <2>2, DefinitionParts
  <2>4. QED BY <2>1, <2>3 DEF NumberOf
<1>10. d.id \in Nat
  BY <1>1, <1>4, <1>9, SymbolParts DEF NumberOf
<1>11. QED BY <1>1, <1>3, <1>4, <1>6, <1>7, <1>8, <1>9, <1>10

\* A local variable has been declared in the running activation.
LEMMA LocalIsStored ==
  ASSUME IsRun, ReadNow, NEW i, i = UseNow, NEW d, d = DefinitionOf(i), d.kind # "Function",
         d.scope # Root
  PROVE  d \in DOMAIN Activation.frame
<1>1. PICK n, s, f : n = uses[i].form.name /\ s = d.scope /\ f = Activation.function
  OBVIOUS
<1>2. /\ i \in DOMAIN uses /\ uses[i].scope = Here(At).scope /\ uses[i].ref.id = Here(At).id
      /\ s \in Enclosing[Here(At).scope] /\ s \in Scopes /\ n \in Names /\ Declared(s, n)
      /\ d = DefinitionIn(n, s) /\ d.kind \in SymbolKinds \ {"Function"}
      /\ tables[s].symbols[n].kind = d.kind /\ d.id = NumberOf(s, n) /\ d.id \in Nat
      /\ Counts(uses[i], s) /\ ~IsClassScope(s) /\ s # Root /\ Context[s] = f
  BY <1>1, ReadParts
<1>3. /\ IInv /\ LexicalInv /\ OwnersInv
      /\ ActivationInv(Activation) /\ IsContext(f) /\ Body \in Scopes
      /\ tables[Body].owner \notin BlockOwners /\ PathInv(Body, At)
      /\ f # NoScope => PassedIn(At, Activation.frame)
  BY <1>1, RunParts, RunningParts DEF IsRun, SInv
<1>4. f \in Scopes /\ f \in Enclosing[s] /\ f # NoScope
  BY <1>2, <1>3, ContextFacts DEF ContextAround, Scopes, NoScope
<1>5. tables[f].owner = "function" /\ Body = f /\ f # Root
  <2>1. tables[f].owner = "function"
    BY <1>1, <1>3, <1>4 DEF ActivationInv
  <2>2. QED BY <1>1, <1>3, <1>4, <2>1 DEF Body, OwnersInv
<1>6. CASE d.kind = "Parameter"
  <2>1. d \in StorageOf(f)
    <3>1. ~IsClassScope(f)
      BY <1>5 DEF IsClassScope
    <3>2. QED BY <1>2, <1>3, <1>4, <1>6, <3>1, InStorage
  <2>2. QED BY <1>1, <1>3, <1>4, <1>6, <2>1 DEF ActivationInv
<1>7. CASE d.kind = "Variable"
  <2>1. /\ Len(At) \in Nat \ {0} /\ Here(At) = At[Len(At)]
        /\ \A k \in 1..Len(At) : At[k].id \in Nat \ {0}
    BY <1>3, PathParts
  <2>2. /\ s \in Enclosing[tables[f].parent] \/ \E j \in 1..Len(At) : s = At[j].scope
        /\ \A j \in 1..Len(At) : At[j].scope \in Enclosing[Here(At).scope]
    <3>1. Len(At) \in 1..Len(At)
      BY <2>1
    <3>2. QED BY <1>2, <1>3, <1>5, <2>1, <3>1, OuterLists
  <2>3. s \notin Enclosing[tables[f].parent]
    <3>1. SUFFICES ASSUME s \in Enclosing[tables[f].parent] PROVE FALSE
      OBVIOUS
    <3>2. tables[f].parent \in Scopes /\ tables[f].parent < f
      BY <1>3, <1>4, <1>5, OwnerKinds
    <3>3. s <= tables[f].parent /\ f <= s
      BY <1>2, <1>3, <1>4, <3>1, <3>2, TreeOfInv, EnclosingFacts
    <3>4. PICK p : p = tables[f].parent
      OBVIOUS
    <3>5. p \in Nat /\ s \in Nat /\ f \in Nat
      BY <1>2, <1>4, <3>2, <3>4 DEF Scopes
    <3>6. QED BY <3>2, <3>3, <3>4, <3>5
  <2>4. PICK k \in 1..Len(At) : s = At[k].scope
    BY <2>2, <2>3
  <2>5. NumberOf(s, n) < At[k].id
    BY <1>1, <1>2, <1>3, <1>7, <2>4, CountsBehind
  <2>6. DefinitionIn(n, At[k].scope) \in DOMAIN Activation.frame
    BY <1>2, <1>3, <1>4, <1>7, <2>4, <2>5 DEF PassedIn
  <2>7. QED BY <1>2, <2>4, <2>6
<1>8. QED BY <1>2, <1>6, <1>7 DEF SymbolKinds

\* A global is read before its initializer only in a call that an initializer makes, and if it
\* has one.
LEMMA GlobalIsStored ==
  ASSUME IsRun, ReadNow, NEW i, i = UseNow, NEW d, d = DefinitionOf(i), d.kind # "Function",
         d.scope = Root, d \notin DOMAIN globals
  PROVE  /\ Len(stack) > 1 /\ stack[1].function = NoScope
         /\ d.id >= Here(stack[1].at).id /\ ~HasDefault(d)
<1>1. PICK n, s : n = uses[i].form.name /\ s = Root
  OBVIOUS
<1>2. /\ i \in DOMAIN uses /\ uses[i].scope = Here(At).scope /\ uses[i].ref.id = Here(At).id
      /\ s \in Scopes /\ n \in Names /\ Declared(s, n)
      /\ d = DefinitionIn(n, s) /\ d.kind \in SymbolKinds \ {"Function"}
      /\ tables[s].symbols[n].kind = d.kind /\ d.id = NumberOf(s, n) /\ d.id \in Nat
      /\ Counts(uses[i], s) /\ ~IsClassScope(s)
  BY <1>1, ReadParts
<1>3. /\ IInv /\ LexicalInv /\ OwnersInv /\ StackOK(stack, globals)
  BY RunParts DEF IsRun, SInv
<1>4. d.kind = "Variable"
  <2>1. tables[s].owner = "program"
    BY <1>1, <1>2, <1>3 DEF OwnersInv
  <2>2. d.kind # "Parameter"
    BY <1>2, <1>3, <2>1 DEF OwnersInv
  <2>3. QED BY <1>2, <2>2 DEF SymbolKinds
<1>5. d \in GlobalDeclarations
  BY <1>1, <1>2, <1>4 DEF GlobalDeclarations, DefinitionsIn
<1>6. PICK a : a = stack[1]
  OBVIOUS
<1>7. a.function = NoScope /\ PassedIn(a.at, globals) /\ ActivationInv(a)
  <2>1. 1 \in 1..Len(stack)
    BY <1>3, StackTop
  <2>2. QED BY <1>3, <1>5, <1>6, <2>1 DEF StackOK
<1>8. PICK at : at = a.at
  OBVIOUS
<1>9. Len(at) = 1 /\ Here(at) = at[1] /\ Here(at).scope = Root /\ Here(at).id \in Nat
  <2>1. PathInv(Root, at)
    BY <1>7, <1>8 DEF ActivationInv
  <2>2. QED BY <1>3, <2>1, RootPath, PathParts
<1>10. ~(NumberOf(Root, n) < Here(at).id)
  <2>1. SUFFICES ASSUME NumberOf(Root, n) < Here(at).id PROVE FALSE
    OBVIOUS
  <2>2. DefinitionIn(n, at[1].scope) \in DOMAIN globals
    <3>1. 1 \in 1..Len(at) /\ at[1].scope = Root /\ NumberOf(at[1].scope, n) < at[1].id
      BY <1>9, <2>1
    <3>2. tables[at[1].scope].symbols[n].kind = "Variable"
      BY <1>1, <1>2, <1>4, <3>1
    <3>3. QED BY <1>2, <1>7, <1>8, <3>1, <3>2 DEF PassedIn
  <2>3. QED BY <1>1, <1>2, <1>9, <2>2
<1>11. d.id >= Here(at).id
  BY <1>1, <1>2, <1>9, <1>10
<1>12. Len(stack) # 1
  <2>1. SUFFICES ASSUME Len(stack) = 1 PROVE FALSE
    OBVIOUS
  <2>2. Activation = a /\ At = at
    BY <1>3, <1>6, <1>8, <2>1, StackTop DEF Activation, At
  <2>3. NumberOf(Root, n) < uses[i].ref.id
    BY <1>1, <1>2, <1>3, <1>4, <1>9, <2>2, CountsBefore
  <2>4. QED BY <1>2, <1>10, <2>2, <2>3
<1>13. Len(stack) > 1
  <2>1. PICK m : m = Len(stack)
    OBVIOUS
  <2>2. m \in Nat \ {0} /\ m # 1
    BY <1>3, <1>12, <2>1, StackTop
  <2>3. m > 1
    BY <2>2
  <2>4. QED BY <2>1, <2>3
<1>14. ~HasDefault(d)
  BY <1>3, <1>5 DEF StackOK, GlobalConstants
<1>15. QED BY <1>6, <1>7, <1>8, <1>11, <1>13, <1>14

\* What the invariant says of the value that is read now.
LEMMA ReadsFromInv == SInv /\ StackInv => ReadsAreInitialized
<1> SUFFICES ASSUME SInv, StackInv, stage = "run", ReadNow,
                    NEW i, i = UseNow, NEW d, d = DefinitionOf(i), d.kind # "Function"
             PROVE  IF d.scope # Root THEN d \in DOMAIN Activation.frame
                    ELSE d \notin DOMAIN globals =>
                           /\ Len(stack) > 1 /\ stack[1].function = NoScope
                           /\ d.id >= Here(stack[1].at).id /\ ~HasDefault(d)
  BY DEF ReadsAreInitialized
<1>1. IsRun
  BY DEF IsRun, StackInv
<1>2. QED BY <1>1, LocalIsStored, GlobalIsStored

-----------------------------------------------------------------------------
\* Whatever the program, a local variable is read only after the same call stored what it is
\* declared with.  A global is read before its initializer has stored to it only in a call that
\* an initializer makes; one without an initializer has its value from the start.
THEOREM ReadsFollowDeclarations == ExecutionSpec => []ReadsAreInitialized
BY StackInvariant, ReadsFromInv, PTL

-----------------------------------------------------------------------------
(* The walk of the interpreter *)

\* Its body is the program, or a function of it.
LEMMA InterpretedBody ==
  ASSUME IInv, OwnersInv, NEW at, NEW known, InterpreterOK(at, known), NEW body, body = at[1].scope
  PROVE  /\ PathInv(body, at) /\ body \in Scopes /\ Root \in Scopes
         /\ tables[body].owner \notin BlockOwners
         /\ \A s \in Enclosing[tables[body].parent] : s = Root /\ body # Root
         /\ \A k \in 1..Len(at) : ~IsClassScope(at[k].scope)
         /\ Here(at).scope = Root => body = Root
         /\ body = Root => Here(at).scope = Root
<1>1. body = Root \/ (body \in Scopes /\ tables[body].owner = "function"
                      /\ tables[body].parent = Root)
  BY DEF InterpreterOK, Mains
<1>2. PathInv(body, at)
  BY DEF InterpreterOK
<1>3. Root \in Scopes /\ tables[Root].owner = "program" /\ tables[Root].parent = NoScope
  <2>1. Root \in Scopes
    BY TreeOfInv DEF Tree, IInv, TreeInv, TypeOK, TableTypeOK, Scopes, Root
  <2>2. QED BY <2>1 DEF OwnersInv, IInv, TreeInv
<1>4. body \in Scopes /\ tables[body].owner \in {"program", "function"}
  BY <1>1, <1>3
<1>5. tables[body].owner \notin BlockOwners /\ tables[body].owner # "class"
  BY <1>4 DEF BlockOwners
<1>6. \A s \in Enclosing[tables[body].parent] : s = Root /\ body # Root
  <2>1. Enclosing[NoScope] = {} /\ Enclosing[Root] = {Root} \cup Enclosing[NoScope]
    BY <1>3, TreeOfInv, EnclosingEquation DEF NoScope
  <2>2. body # Root => tables[body].parent = Root
    BY <1>1
  <2>3. QED BY <1>3, <2>1, <2>2
<1>7. \A k \in 1..Len(at) : ~IsClassScope(at[k].scope)
  <2>1. SUFFICES ASSUME NEW k \in 1..Len(at), IsClassScope(at[k].scope) PROVE FALSE
    OBVIOUS
  <2>2. at[k].scope \in Scopes /\ tables[at[k].scope].owner = "class"
    BY <1>2, <2>1, PathParts DEF IsClassScope
  <2>3. /\ Context[at[k].scope] = at[k].scope /\ Context[at[k].scope] = Context[body]
        /\ Context[Root] = NoScope /\ (tables[body].owner = "function" => Context[body] = body)
    BY <1>2, <1>3, <1>4, <1>5, <2>1, <2>2, OuterLists, TreeOfInv, ContextEquation, ContextFacts
  <2>4. CASE body = Root
    BY <2>2, <2>3, <2>4 DEF Scopes, NoScope
  <2>5. CASE body # Root
    BY <1>1, <2>2, <2>3, <2>5
  <2>6. QED BY <2>4, <2>5
<1>8. ASSUME Here(at).scope = Root PROVE body = Root
  <2>1. Len(at) \in Nat \ {0} /\ Here(at) = at[Len(at)]
    BY <1>2, PathParts
  <2>2. CASE Len(at) = 1
    BY <1>8, <2>1, <2>2
  <2>3. CASE Len(at) # 1
    <3>1. PICK m \in Nat \ {0} : Len(at) = m + 1
      <4>1. PICK l \in Nat \ {0} : l = Len(at)
        BY <2>1
      <4>2. l # 1 /\ l - 1 \in Nat \ {0} /\ l = (l - 1) + 1
        BY <2>3, <4>1
      <4>3. QED BY <4>1, <4>2
    <3>2. m \in 1..(Len(at) - 1)
      BY <3>1
    <3>3. at[m + 1].scope \in Scopes \ {Root}
      BY <1>2, <3>2 DEF PathInv, Anchored
    <3>4. QED BY <1>8, <2>1, <3>1, <3>3
  <2>4. QED BY <2>2, <2>3
<1>9. body = Root => Here(at).scope = Root
  BY <1>2, RootPath
<1>10. QED BY <1>2, <1>3, <1>4, <1>5, <1>6, <1>7, <1>8, <1>9

\* It goes on, and knows what it knew and what the statement declares.
LEMMA InterpreterGoesOn ==
  ASSUME IInv, OwnersInv, NumberedOnce, NEW at, NEW known, InterpreterOK(at, known),
         NEW new, GoesOn(at[1].scope, at, new),
         NEW more, DOMAIN known \subseteq DOMAIN more,
         \A d \in DOMAIN more : d \in DOMAIN known \/ HasDeclared(at[1].scope, new, d),
         \A n \in DeclaredHere(at) : DefinitionIn(n, Here(at).scope) \in DOMAIN more
  PROVE  InterpreterOK(new, more)
<1>1. PICK body : body = at[1].scope
  OBVIOUS
<1>2. PathInv(body, at) /\ PassedIn(at, known) /\ (body = Root \/ body \in Mains)
  BY <1>1 DEF InterpreterOK
<1>3. PathInv(body, new) /\ GoesOnFrom(at, new) /\ StaysBehind(at, new) /\ new[1].scope = body
  BY <1>1 DEF GoesOn, PathInv
<1>4. PassedIn(new, more)
  BY <1>2, <1>3, PassedGoesOn
<1>5. body # Root => GlobalDeclarations \subseteq DOMAIN more
  BY <1>1 DEF InterpreterOK
<1>6. ASSUME NEW d \in DOMAIN known PROVE HasDeclared(body, new, d)
  <2>1. PICK s \in Scopes, n \in Names :
          /\ d = DefinitionIn(n, s) /\ tables[s].symbols[n].kind = "Variable"
          /\ body = Root => s = Root
          /\ Behind(at, s, NumberOf(s, n)) \/ (s = Root /\ body # Root)
    BY <1>1 DEF InterpreterOK, HasDeclared
  <2>2. NumberOf(s, n) \in Nat
    BY SymbolParts DEF NumberOf
  <2>3. Behind(new, s, NumberOf(s, n)) \/ (s = Root /\ body # Root)
    BY <1>3, <2>1, <2>2 DEF StaysBehind
  <2>4. QED BY <2>1, <2>3 DEF HasDeclared
<1>7. \A d \in DOMAIN more : HasDeclared(body, new, d)
  BY <1>1, <1>6
<1>8. QED BY <1>2, <1>3, <1>4, <1>5, <1>7 DEF InterpreterOK

\* A walk that starts knows nothing in the program, and the globals in main.
LEMMA InterpreterStarts ==
  ASSUME IInv, OwnersInv, NumberedOnce, NEW body, body = Root \/ body \in Mains, NEW known,
         IF body = Root THEN DOMAIN known = {} ELSE DOMAIN known = GlobalDeclarations
  PROVE  InterpreterOK(StartOf(body), known)
<1>1. PICK at : at = StartOf(body)
  OBVIOUS
<1>2. body \in Scopes /\ Root \in Scopes
  <2>1. Root \in Scopes
    BY TreeOfInv DEF Tree, IInv, TreeInv, TypeOK, TableTypeOK, Scopes, Root
  <2>2. QED BY <2>1 DEF Mains
<1>3. PathInv(body, at) /\ PassedIn(at, known) /\ at[1].scope = body
  BY <1>1, <1>2, StartParts DEF PathInv
<1>4. ASSUME NEW d \in DOMAIN known PROVE HasDeclared(body, at, d)
  <2>1. body # Root /\ d \in GlobalDeclarations
    BY <1>4
  <2>2. PICK n \in Names : tables[Root].symbols[n].kind = "Variable" /\ d = DefinitionIn(n, Root)
    BY <2>1 DEF GlobalDeclarations, DefinitionsIn
  <2>3. QED BY <1>2, <2>1, <2>2 DEF HasDeclared
<1>5. body # Root => GlobalDeclarations \subseteq DOMAIN known
  OBVIOUS
<1>6. QED BY <1>1, <1>3, <1>4, <1>5 DEF InterpreterOK

-----------------------------------------------------------------------------
(* The steps of the interpreter *)

\* The interpreter executes the program, and has not met a declaration twice.
IsInterpreted ==
  /\ SInv /\ stage = "interpret" /\ InterpreterOK(interpreted, variables)
  /\ exception # "already declared"

\* What a step leaves.
InterpreterFollows ==
  /\ exception' # "already declared"
  /\ interpreted' = <<>> \/ InterpreterOK(interpreted', variables')

\* The parts of SInv a step needs.
LEMMA InterpretedParts ==
  IsInterpreted => IInv /\ OwnersInv /\ NumberedOnce /\ BoundedInv
BY DEF IsInterpreted, SInv, TextInv

\* What evaluating throws ends the interpreter.
LEMMA Thrown ==
  ASSUME NEW what, what # "already declared", Throws(what)
  PROVE  InterpreterFollows
BY DEF Throws, InterpreterFollows

\* Evaluating does not meet a declaration.
LEMMA ThrownEvaluating ==
  ASSUME NEW i, ThrowsEvaluating(i)
  PROVE  InterpreterFollows
<1>1. CASE IsValue(i)
  BY <1>1, Thrown DEF ThrowsEvaluating
<1>2. CASE ~IsValue(i)
  BY <1>2, Thrown DEF ThrowsEvaluating
<1>3. QED BY <1>1, <1>2

\* A step that declares nothing, and goes on.
LEMMA InterpreterMoves ==
  ASSUME IsInterpreted, GoesOn(interpreted[1].scope, interpreted, interpreted'),
         DOMAIN variables' = DOMAIN variables, UNCHANGED exception, DeclaredHere(interpreted) = {}
  PROVE  InterpreterFollows
<1>1. PICK at, known, new, more :
        at = interpreted /\ known = variables /\ new = interpreted' /\ more = variables'
  OBVIOUS
<1>2. /\ IInv /\ OwnersInv /\ NumberedOnce /\ InterpreterOK(at, known)
      /\ exception' # "already declared"
  BY <1>1, InterpretedParts DEF IsInterpreted
<1>3. GoesOn(at[1].scope, at, new) /\ DOMAIN more = DOMAIN known /\ DeclaredHere(at) = {}
  BY <1>1
<1>4. InterpreterOK(new, more)
  BY <1>2, <1>3, InterpreterGoesOn
<1>5. QED BY <1>1, <1>2, <1>4 DEF InterpreterFollows

\* A variable is declared once: its declaration is not behind the walk that is at it.
LEMMA DeclaredOnce ==
  ASSUME IInv, OwnersInv, NumberedOnce, NEW at, NEW known, InterpreterOK(at, known),
         NEW n \in DeclaredHere(at)
  PROVE  DefinitionIn(n, Here(at).scope) \notin DOMAIN known
<1> SUFFICES ASSUME DefinitionIn(n, Here(at).scope) \in DOMAIN known PROVE FALSE
  OBVIOUS
<1>1. PICK body, s, d : body = at[1].scope /\ s = Here(at).scope /\ d = DefinitionIn(n, s)
  OBVIOUS
<1>2. /\ PathInv(body, at) /\ body \in Scopes /\ tables[body].owner \notin BlockOwners
      /\ (s = Root => body = Root)
  BY <1>1, InterpretedBody
<1>3. s \in Scopes /\ n \in Names /\ Declared(s, n) /\ NumberOf(s, n) = Here(at).id
  BY <1>1, <1>2, PathParts, DeclarationGoesOn
<1>4. PICK t \in Scopes, m \in Names :
        /\ d = DefinitionIn(m, t) /\ tables[t].symbols[m].kind = "Variable"
        /\ Behind(at, t, NumberOf(t, m)) \/ (t = Root /\ body # Root)
  BY <1>1 DEF InterpreterOK, HasDeclared
<1>5. m = n /\ t = s
  <2>1. PICK a, b : a = tables[s].symbols[n] /\ b = tables[t].symbols[m]
    OBVIOUS
  <2>2. a.scope = s /\ b.scope = t
    BY <1>3, <1>4, <2>1, SymbolParts
  <2>3. d = Definition(n, a) /\ d = Definition(m, b)
    BY <1>1, <1>4, <2>1 DEF DefinitionIn
  <2>4. d.name = n /\ d.scope = a.scope
    <3>1. Definition(n, a).name = n /\ Definition(n, a).scope = a.scope
      BY DefinitionParts
    <3>2. QED BY <2>3, <3>1
  <2>5. d.name = m /\ d.scope = b.scope
    BY <2>3, DefinitionParts
  <2>6. QED BY <2>2, <2>4, <2>5
<1>6. Behind(at, s, Here(at).id)
  BY <1>2, <1>3, <1>4, <1>5
<1>7. QED BY <1>1, <1>2, <1>6, HereIsNotBehind

\* A declaration is executed for the first time, and known from then on.
LEMMA InterpretDeclaration ==
  ASSUME IsInterpreted, ExecuteDeclaration
  PROVE  InterpreterFollows
<1>1. PICK at, known, new, more :
        at = interpreted /\ known = variables /\ new = interpreted' /\ more = variables'
  OBVIOUS
<1>2. PICK s, body, i : s = Here(at).scope /\ body = at[1].scope /\ i = UseHere(at)
  OBVIOUS
<1>3. PICK n, d :
        /\ n \in DeclaredHere(at) /\ d = DefinitionIn(n, s)
        /\ IF d \in DOMAIN variables THEN Throws("already declared")
           ELSE IF IsOfClass(d) THEN Throws("unsupported")
           ELSE IF Unevaluable(i) THEN ThrowsEvaluating(i)
           ELSE /\ Declare(d, i) /\ new = NextStatement(at) /\ UNCHANGED exception
  BY <1>1, <1>2 DEF ExecuteDeclaration
<1>4. /\ IInv /\ OwnersInv /\ NumberedOnce /\ InterpreterOK(at, known)
      /\ exception # "already declared"
  BY <1>1, InterpretedParts DEF IsInterpreted
<1>5. d \notin DOMAIN variables
  BY <1>1, <1>2, <1>3, <1>4, DeclaredOnce
<1>6. CASE IsOfClass(d) \/ Unevaluable(i)
  <2>1. Throws("unsupported") \/ ThrowsEvaluating(i)
    BY <1>3, <1>5, <1>6
  <2>2. QED BY <2>1, Thrown, ThrownEvaluating
<1>7. CASE ~IsOfClass(d) /\ ~Unevaluable(i)
  <2>1. Declare(d, i) /\ new = NextStatement(at) /\ UNCHANGED exception
    BY <1>3, <1>5, <1>7
  <2>2. DOMAIN more = DOMAIN known \cup {d}
    BY <1>1, <2>1 DEF Declare, Put
  <2>3. /\ PathInv(body, at) /\ (body = Root => s = Root) /\ s \in Scopes
    <3>1. PathInv(body, at)
      BY <1>2, <1>4 DEF InterpreterOK
    <3>3. body = Root => Here(at).scope = Root
      BY <1>4, <3>1, RootPath
    <3>2. QED BY <1>2, <1>4, <3>1, <3>3, PathParts
  <2>4. /\ GoesOn(body, at, new) /\ DeclaredHere(at) = {n}
        /\ n \in Names /\ tables[s].symbols[n].kind = "Variable"
        /\ Behind(new, s, NumberOf(s, n))
    <3>1. /\ GoesOn(body, at, NextStatement(at)) /\ DeclaredHere(at) = {n}
          /\ n \in Names /\ tables[Here(at).scope].symbols[n].kind = "Variable"
          /\ NumberOf(Here(at).scope, n) = Here(at).id
          /\ Behind(NextStatement(at), Here(at).scope, Here(at).id)
      BY <1>3, <1>4, <2>3, DeclarationGoesOn
    <3>2. QED BY <1>2, <2>1, <3>1
  <2>5. HasDeclared(body, new, d)
    BY <1>3, <2>3, <2>4 DEF HasDeclared
  <2>6. \A m \in DeclaredHere(at) : DefinitionIn(m, s) \in DOMAIN more
    BY <1>3, <2>2, <2>4
  <2>7. InterpreterOK(new, more)
    <3>1. /\ GoesOn(at[1].scope, at, new) /\ DOMAIN known \subseteq DOMAIN more
          /\ \A e \in DOMAIN more : e \in DOMAIN known \/ HasDeclared(at[1].scope, new, e)
          /\ \A m \in DeclaredHere(at) : DefinitionIn(m, Here(at).scope) \in DOMAIN more
      BY <1>2, <2>2, <2>4, <2>5, <2>6
    <3>2. QED BY <1>4, <3>1, InterpreterGoesOn
  <2>8. QED BY <1>1, <1>4, <2>1, <2>7 DEF InterpreterFollows
<1>8. QED BY <1>6, <1>7

\* Assignments, prints and calls declare nothing, and a return throws.
LEMMA InterpretUse ==
  ASSUME IsInterpreted, ExecuteAssignment \/ ExecuteUse
  PROVE  InterpreterFollows
<1>1. PICK at, i : at = interpreted /\ i = UseHere(at)
  OBVIOUS
<1>2. IInv /\ OwnersInv /\ NumberedOnce /\ InterpreterOK(at, variables) /\ IsOfUse(at)
  BY <1>1, InterpretedParts DEF IsInterpreted, ExecuteAssignment, ExecuteUse
<1>3. PathInv(at[1].scope, at)
  BY <1>2, InterpretedBody
<1>4. CASE /\ ~(i # 0 /\ IsValue(i) /\ statementKind[i] = "return")
           /\ interpreted' = NextStatement(at) /\ UNCHANGED exception
           /\ DOMAIN variables' = DOMAIN variables
  <2>1. GoesOn(at[1].scope, at, NextStatement(at)) /\ DeclaredHere(at) = {}
    BY <1>1, <1>2, <1>3, <1>4, UseGoesOn
  <2>2. QED BY <1>1, <1>4, <2>1, InterpreterMoves
<1>5. CASE ExecuteAssignment
  <2>1. OnlyWrites(i)
    BY <1>1, <1>5 DEF ExecuteAssignment
  <2>2. statementKind[i] # "return"
    BY <2>1 DEF OnlyWrites
  <2>3. CASE ~Known(i)
    BY <1>1, <1>5, <2>3, Thrown DEF ExecuteAssignment
  <2>4. CASE Known(i)
    BY <1>1, <1>4, <1>5, <2>2, <2>4 DEF ExecuteAssignment
  <2>5. QED BY <2>3, <2>4
<1>6. CASE ExecuteUse
  <2>1. CASE IsValue(i) /\ statementKind[i] = "return"
    BY <1>1, <1>6, <2>1, Thrown DEF ExecuteUse
  <2>2. CASE ~(IsValue(i) /\ statementKind[i] = "return") /\ Unevaluable(i)
    BY <1>1, <1>6, <2>2, ThrownEvaluating DEF ExecuteUse
  <2>3. CASE ~(IsValue(i) /\ statementKind[i] = "return") /\ ~Unevaluable(i)
    BY <1>1, <1>4, <1>6, <2>3 DEF ExecuteUse
  <2>4. QED BY <2>1, <2>2, <2>3
<1>7. QED BY <1>5, <1>6

\* Blocks, functions, classes and conditions.
LEMMA InterpretBlock ==
  ASSUME IsInterpreted, PassDeclaration \/ ExecuteBlock \/ ExecuteCondition
  PROVE  InterpreterFollows
<1>1. PICK at, b, body : at = interpreted /\ b = BlockHere(at) /\ body = at[1].scope
  OBVIOUS
<1>2. /\ IInv /\ OwnersInv /\ NumberedOnce /\ InterpreterOK(at, variables)
      /\ BlocksHere(at) # <<>>
  BY <1>1, InterpretedParts
     DEF IsInterpreted, PassDeclaration, ExecuteBlock, ExecuteCondition, IsOfBlocks
<1>3. PathInv(body, at)
  BY <1>1, <1>2, InterpretedBody
<1>4. /\ DeclaredHere(at) = {}
      /\ tables[b].owner \in {"function", "class"} => GoesOn(body, at, NextStatement(at))
      /\ tables[b].owner \in BlockOwners => GoesOn(body, at, EnterBlock(at, b))
      /\ tables[b].owner = "then" => GoesOn(body, at, AfterFalse(at))
  BY <1>1, <1>2, <1>3, BlockGoesOn DEF AfterFalse
<1>5. CASE GoesOn(body, at, interpreted') /\ UNCHANGED <<variables, exception>>
  BY <1>1, <1>4, <1>5, InterpreterMoves
<1>6. CASE PassDeclaration
  <2>1. CASE tables[b].owner = "class" /\ Throws("unsupported")
    BY <2>1, Thrown
  <2>2. CASE tables[b].owner = "function" /\ interpreted' = NextStatement(at)
             /\ UNCHANGED <<variables, exception>>
    BY <1>4, <1>5, <2>2
  <2>3. QED BY <1>1, <1>6, <2>1, <2>2 DEF PassDeclaration
<1>7. CASE ExecuteBlock
  <2>1. tables[b].owner \in BlockOwners /\ interpreted' = EnterBlock(at, b)
        /\ UNCHANGED <<variables, exception>>
    BY <1>1, <1>7 DEF ExecuteBlock, BlockOwners
  <2>2. QED BY <1>4, <1>5, <2>1
<1>8. CASE ExecuteCondition
  <2>1. tables[b].owner = "then" /\ tables[b].owner \in BlockOwners
    BY <1>1, <1>8 DEF ExecuteCondition, BlockOwners
  <2>2. PICK condition : condition = conditionOf[b]
    OBVIOUS
  <2>3. CASE Unevaluable(condition)
    <3>1. ThrowsEvaluating(condition)
      BY <1>1, <1>8, <2>2, <2>3 DEF ExecuteCondition
    <3>2. QED BY <3>1, ThrownEvaluating
  <2>4. CASE ~Unevaluable(condition)
    <3>1. /\ interpreted' = EnterBlock(at, b) \/ interpreted' = AfterFalse(at)
          /\ UNCHANGED <<variables, exception>>
      BY <1>1, <1>8, <2>2, <2>4 DEF ExecuteCondition, AfterTrue
    <3>2. QED BY <1>4, <1>5, <2>1, <3>1
  <2>5. QED BY <2>3, <2>4
<1>9. QED BY <1>6, <1>7, <1>8

\* The end of a block, or of the program: then it knows the globals, and executes main.
LEMMA InterpretEnd ==
  ASSUME IsInterpreted, EndOfBlock
  PROVE  InterpreterFollows
<1>1. PICK at, known, body : at = interpreted /\ known = variables /\ body = at[1].scope
  OBVIOUS
<1>2. /\ IInv /\ OwnersInv /\ NumberedOnce /\ BoundedInv /\ InterpreterOK(at, known)
      /\ exception # "already declared" /\ AtEnd(at)
  BY <1>1, InterpretedParts DEF IsInterpreted, EndOfBlock
<1>3. /\ PathInv(body, at) /\ (Here(at).scope = Root => body = Root) /\ Len(at) \in Nat \ {0}
  BY <1>1, <1>2, InterpretedBody, PathParts
<1>4. DeclaredHere(at) = {} /\ \A n \in Names : NumberOf(Here(at).scope, n) < Here(at).id
  BY <1>2, <1>3, EndParts
<1>5. CASE Len(at) > 1
  <2>1. Len(at) # 1
    <3>1. PICK m : m = Len(at)
      OBVIOUS
    <3>2. m > 1
      BY <1>5, <3>1
    <3>3. m # 1
      BY <3>2
    <3>4. QED BY <3>1, <3>3
  <2>2. GoesOn(body, at, Front(at))
    BY <1>2, <1>3, <2>1, LeaveGoesOn
  <2>3. interpreted' = Front(at) /\ UNCHANGED <<variables, exception>>
    BY <1>1, <1>5 DEF EndOfBlock
  <2>4. QED BY <1>1, <1>4, <2>2, <2>3, InterpreterMoves
<1>6. CASE ~(Len(at) > 1) /\ Here(at).scope = Root /\ Mains # {}
  <2>1. PICK main \in Mains : interpreted' = StartOf(main)
    BY <1>1, <1>6 DEF EndOfBlock
  <2>2. UNCHANGED <<variables, exception>>
    BY DEF EndOfBlock
  <2>3. PICK new, more : new = interpreted' /\ more = variables'
    OBVIOUS
  <2>4. body = Root
    BY <1>3, <1>6
  <2>5. main # Root
    <3>1. main \in Scopes /\ tables[main].owner = "function"
      BY DEF Mains
    <3>2. QED BY <1>2, <3>1 DEF OwnersInv
  <2>6. DOMAIN known \subseteq GlobalDeclarations
    <3>1. ASSUME NEW d \in DOMAIN known PROVE d \in GlobalDeclarations
      <4>1. PICK n \in Names :
              d = DefinitionIn(n, Root) /\ tables[Root].symbols[n].kind = "Variable"
        BY <1>1, <1>2, <2>4 DEF InterpreterOK, HasDeclared
      <4>2. QED BY <4>1 DEF GlobalDeclarations, DefinitionsIn
    <3>2. QED BY <3>1
  <2>7. GlobalDeclarations \subseteq DOMAIN known
    <3>1. PassedIn(at, known)
      BY <1>2 DEF InterpreterOK
    <3>2. Here(at) = at[Len(at)] /\ Len(at) \in 1..Len(at)
      BY <1>3, PathParts
    <3>3. ASSUME NEW n \in Names, tables[Root].symbols[n].kind \in {"Variable"}
          PROVE  DefinitionIn(n, Root) \in DOMAIN known
      BY <1>4, <1>6, <3>1, <3>2, <3>3 DEF PassedIn
    <3>4. QED BY <3>3 DEF GlobalDeclarations, DefinitionsIn
  <2>8. DOMAIN known = GlobalDeclarations
    BY <2>6, <2>7
  <2>9. InterpreterOK(StartOf(main), known)
    BY <1>2, <2>5, <2>8, InterpreterStarts
  <2>10. QED BY <1>1, <1>2, <2>1, <2>2, <2>9 DEF InterpreterFollows
<1>7. CASE ~(Len(at) > 1) /\ ~(Here(at).scope = Root /\ Mains # {})
  BY <1>1, <1>2, <1>7 DEF EndOfBlock, InterpreterFollows
<1>8. QED BY <1>5, <1>6, <1>7

\* No step of the interpreter breaks it.
LEMMA InterpreterKeeps ==
  ASSUME IsInterpreted, Interpret
  PROVE  InterpreterFollows
BY InterpretDeclaration, InterpretUse, InterpretBlock, InterpretEnd DEF Interpret

-----------------------------------------------------------------------------
(* The interpreter from stage to stage *)

\* Whether what the interpreter knows fits its walk depends on the program only.
LEMMA SameInterpreter ==
  ASSUME UNCHANGED <<vars, statementKind>>
  PROVE  \A at, known : InterpreterOK(at, known)' <=> InterpreterOK(at, known)
<1>1. UNCHANGED <<tables, anchors>> /\ Scopes' = Scopes
  BY DEF vars, numVars, tableVars, Scopes
<1>2. /\ \A body, at : PathInv(body, at)' <=> PathInv(body, at)
      /\ \A at, stored : PassedIn(at, stored)' <=> PassedIn(at, stored)
      /\ GlobalDeclarations' = GlobalDeclarations
  BY SameWalks
<1>3. Mains' = Mains
  BY <1>1 DEF Mains
<1>4. \A s, id : StatementAround(s, id)' = StatementAround(s, id)
  BY <1>1 DEF StatementAround, Enclosing
<1>5. \A at, s, id : Behind(at, s, id)' <=> Behind(at, s, id)
  <2>1. Enclosing' = Enclosing
    BY <1>1 DEF Enclosing
  <2>2. QED BY <1>4, <2>1 DEF Behind
<1>6. \A body, at, d : HasDeclared(body, at, d)' <=> HasDeclared(body, at, d)
  BY <1>1, <1>5 DEF HasDeclared, NumberOf, DefinitionIn, Definition
<1>7. QED BY <1>2, <1>3, <1>6 DEF InterpreterOK

\* The walk of a program that starts.
LEMMA FreshWalk ==
  SInv => \A at, known : at = StartOf(Root) /\ DOMAIN known = {} => InterpreterOK(at, known)
BY InterpreterStarts DEF SInv, TextInv

\* The same, after a step.
LEMMA FreshWalkNext ==
  (SInv => \A at, known : at = StartOf(Root) /\ DOMAIN known = {} => InterpreterOK(at, known))'
BY FreshWalk, PTL

\* Nothing is interpreted at first.
LEMMA InitInterpreterInv == ExecutionInit => InterpreterInv
BY DEF ExecutionInit, InitInterpreter, InterpreterInv

\* Every step keeps InterpreterInv.
LEMMA NextInterpreterInv ==
  SInv /\ InterpreterInv /\ [ExecutionNext]_allVars => InterpreterInv'
<1> SUFFICES ASSUME SInv, InterpreterInv, [ExecutionNext]_allVars PROVE InterpreterInv'
  OBVIOUS
<1>1. CASE Build
  BY <1>1 DEF Build, interpreterVars, InterpreterInv
<1>2. CASE ResolveProgram
  <2>1. /\ stage = "build" /\ UNCHANGED <<variables, exception>>
        /\ \/ stage' = "interpret" /\ interpreted' = StartOf(Root)
           \/ stage' = "end" /\ UNCHANGED interpreted
    BY <1>2 DEF ResolveProgram
  <2>2. exception' # "already declared" /\ variables' = <<>> /\ interpreted = <<>>
    BY <2>1 DEF InterpreterInv
  <2>3. ASSUME stage' = "interpret"
        PROVE  \E at \in {interpreted'}, known \in {variables'} : InterpreterOK(at, known)'
    <3>1. PICK at, known : at = interpreted' /\ known = variables'
      OBVIOUS
    <3>2. SInv'
      BY NextSInv
    <3>3. at = StartOf(Root) /\ DOMAIN known = {}
      <4>1. at = StartOf(Root)
        BY <2>1, <2>3, <3>1
      <4>2. known = <<>>
        BY <2>2, <3>1
      <4>3. DOMAIN <<>> = {}
        OBVIOUS
      <4>4. QED BY <4>1, <4>2, <4>3
    <3>4. at = StartOf(Root)'
      BY <3>3 DEF StartOf, Root
    <3>5. InterpreterOK(at, known)'
      BY <3>2, <3>3, <3>4, FreshWalkNext
    <3>6. QED BY <3>1, <3>5
  <2>4. QED BY <2>1, <2>2, <2>3 DEF InterpreterInv
<1>3. CASE InterpretStep
  <2>1. /\ stage = "interpret" /\ Interpret /\ UNCHANGED <<vars, statementKind>>
        /\ stage' = IF interpreted' = <<>> THEN "lower" ELSE "interpret"
    BY <1>3 DEF InterpretStep
  <2>2. IsInterpreted
    BY <2>1 DEF IsInterpreted, InterpreterInv
  <2>3. InterpreterFollows
    BY <2>1, <2>2, InterpreterKeeps
  <2>4. ASSUME stage' = "interpret"
        PROVE  \E at \in {interpreted'}, known \in {variables'} : InterpreterOK(at, known)'
    <3>1. PICK at, known : at = interpreted' /\ known = variables'
      OBVIOUS
    <3>2. InterpreterOK(at, known)
      BY <2>1, <2>3, <2>4, <3>1 DEF InterpreterFollows
    <3>3. InterpreterOK(at, known)'
      BY <2>1, <3>2, SameInterpreter
    <3>4. QED BY <3>1, <3>3
  <2>5. QED BY <2>1, <2>3, <2>4 DEF InterpreterInv, InterpreterFollows
<1>4. CASE Lower \/ RunStep
  <2>1. stage \in {"lower", "run"} /\ stage' \in {"assertion", "end", "run"}
        /\ UNCHANGED interpreterVars
    BY <1>4 DEF Lower, RunStep
  <2>2. QED BY <2>1 DEF interpreterVars, InterpreterInv
<1>5. CASE UNCHANGED allVars
  <2>1. UNCHANGED <<vars, statementKind, stage, variables, interpreted, exception>>
    BY <1>5 DEF allVars, textVars, interpreterVars
  <2>2. ASSUME stage' = "interpret"
        PROVE  \E at \in {interpreted'}, known \in {variables'} : InterpreterOK(at, known)'
    <3>1. PICK at, known : at = interpreted' /\ known = variables'
      OBVIOUS
    <3>2. InterpreterOK(at, known)
      BY <2>1, <2>2, <3>1 DEF InterpreterInv
    <3>3. InterpreterOK(at, known)'
      BY <2>1, <3>2, SameInterpreter
    <3>4. QED BY <3>1, <3>3
  <2>3. QED BY <2>1, <2>2 DEF InterpreterInv
<1>6. QED BY <1>1, <1>2, <1>3, <1>4, <1>5 DEF ExecutionNext, ExecutionEnds

-----------------------------------------------------------------------------
(* The names the interpreter meets *)

\* A variable that counts for the use the walk is at is known.
LEMMA VariableIsKnown ==
  ASSUME SInv, stage = "interpret", NEW at, NEW known, InterpreterOK(at, known),
         NEW i \in DOMAIN uses, uses[i].scope = Here(at).scope, uses[i].ref.id = Here(at).id,
         IsValue(i), NEW d, d = DefinitionOf(i), d.kind \notin {"Parameter", "Function"}
  PROVE  d \in DOMAIN known
<1>1. PICK n, s, body : n = uses[i].form.name /\ s = d.scope /\ body = at[1].scope
  OBVIOUS
<1>2. IInv /\ LexicalInv /\ OwnersInv
  BY DEF SInv, TextInv
<1>3. /\ PathInv(body, at) /\ body \in Scopes /\ tables[body].owner \notin BlockOwners
      /\ \A t \in Enclosing[tables[body].parent] : t = Root /\ body # Root
      /\ \A k \in 1..Len(at) : ~IsClassScope(at[k].scope)
  BY <1>1, <1>2, InterpretedBody
<1>4. /\ s \in Enclosing[Here(at).scope] /\ s \in Scopes /\ n \in Names /\ Declared(s, n)
      /\ d = DefinitionIn(n, s) /\ d.kind = "Variable" /\ Counts(uses[i], s)
  <2>1. stage \notin {"build", "end"}
    OBVIOUS
  <2>2. /\ n \in Names
        /\ \/ /\ d.scope \in Enclosing[uses[i].scope] /\ d.scope \in Scopes
              /\ Declared(d.scope, n) /\ d = DefinitionIn(n, d.scope) /\ d.kind \in SymbolKinds
              /\ Counts(uses[i], d.scope)
           \/ d.kind = "Function"
    BY <1>1, <2>1, AcceptedUse
  <2>3. QED BY <1>1, <2>2 DEF SymbolKinds
<1>5. tables[s].symbols[n].kind = "Variable"
  <2>1. PICK symbol : symbol = tables[s].symbols[n]
    OBVIOUS
  <2>2. d = Definition(n, symbol)
    BY <1>4, <2>1 DEF DefinitionIn
  <2>3. QED BY <1>4, <2>1, <2>2, DefinitionParts
<1>6. s \in Enclosing[tables[body].parent] \/ \E k \in 1..Len(at) : s = at[k].scope
  <2>1. Len(at) \in 1..Len(at) /\ Here(at) = at[Len(at)]
    BY <1>2, <1>3, PathParts
  <2>2. \A t \in Enclosing[at[Len(at)].scope] :
          t \in Enclosing[tables[body].parent] \/ \E k \in 1..Len(at) : t = at[k].scope
    <3>1. \A j \in 1..Len(at) : \A t \in Enclosing[at[j].scope] :
            t \in Enclosing[tables[body].parent] \/ \E k \in 1..j : t = at[k].scope
      BY <1>2, <1>3, OuterLists
    <3>2. QED BY <2>1, <3>1
  <2>3. QED BY <1>4, <2>1, <2>2
<1>7. CASE s \in Enclosing[tables[body].parent]
  <2>1. s = Root /\ body # Root
    BY <1>3, <1>7
  <2>2. d \in GlobalDeclarations
    BY <1>4, <1>5, <2>1 DEF GlobalDeclarations, DefinitionsIn
  <2>3. QED BY <1>1, <2>1, <2>2 DEF InterpreterOK
<1>8. ASSUME NEW k \in 1..Len(at), s = at[k].scope PROVE d \in DOMAIN known
  <2>1. NumberOf(s, n) < at[k].id
    BY <1>1, <1>2, <1>3, <1>4, <1>5, <1>8, CountsBehind
  <2>2. PassedIn(at, known)
    BY DEF InterpreterOK
  <2>3. QED BY <1>4, <1>5, <1>8, <2>1, <2>2 DEF PassedIn
<1>9. QED BY <1>6, <1>7, <1>8

\* What the invariant says of the use the interpreter is at.
LEMMA NamesFromInv == SInv /\ InterpreterInv => NamesAreKnown
<1> SUFFICES ASSUME SInv, InterpreterInv, interpreted # <<>>,
                    NEW i, i = UseOf(interpreted), i # 0, IsValue(i),
                    DefinitionOf(i).kind \notin {"Parameter", "Function"}
             PROVE  DefinitionOf(i) \in DOMAIN variables
  BY DEF NamesAreKnown, InterpreterInv
<1>1. PICK at, known : at = interpreted /\ known = variables
  OBVIOUS
<1>2. stage = "interpret" /\ InterpreterOK(at, known)
  BY <1>1 DEF InterpreterInv
<1>3. i \in DOMAIN uses /\ uses[i].scope = Here(at).scope /\ uses[i].ref.id = Here(at).id
  <2>1. IInv /\ OwnersInv /\ ConditionsInv
    BY DEF SInv, TextInv
  <2>2. PathInv(at[1].scope, at)
    BY <1>2 DEF InterpreterOK
  <2>3. UseOf(at) = i
    BY <1>1
  <2>4. QED BY <2>1, <2>2, <2>3, UseOfParts
<1>4. DefinitionOf(i) \in DOMAIN known
  BY <1>2, <1>3, VariableIsKnown
<1>5. QED BY <1>1, <1>4

-----------------------------------------------------------------------------
\* The invariant of the text and of the interpreter holds in every program.
THEOREM InterpreterInvariant == ExecutionSpec => [](SInv /\ InterpreterInv)
<1>1. ExecutionInit => SInv /\ InterpreterInv
  BY InitSInv, InitInterpreterInv
<1>2. (SInv /\ InterpreterInv) /\ [ExecutionNext]_allVars => (SInv /\ InterpreterInv)'
  BY NextSInv, NextInterpreterInv
<1>3. QED BY <1>1, <1>2, PTL DEF ExecutionSpec

\* Whatever the program, the interpreter declares no variable twice, and knows every variable it
\* meets in a statement, an initializer or a condition, but the parameters of main.
THEOREM InterpreterKnowsNames == ExecutionSpec => []NamesAreKnown
BY InterpreterInvariant, NamesFromInv, PTL

-----------------------------------------------------------------------------
(* No number of a statement is left out *)

\* What a visit leaves taken: what was, and its own statement.
LEMMA TakenAfter ==
  ASSUME IInv, NEW ref, NEW n, Visits(ref, n)
  PROVE  /\ \A s \in Scopes : \A m : IsTaken(s, m) => IsTaken(s, m)'
         /\ \A s \in Scopes : \A m :
              IsTaken(s, m)' => IsTaken(s, m) \/ (s = CurrentScope /\ m = ref.id)
         /\ \A s \in Scopes' \ Scopes : \A m : ~IsTaken(s, m)'
         /\ Scopes' # Scopes \/ DOMAIN uses' # DOMAIN uses
              \/ (\E k \in Names : /\ tables'[CurrentScope].symbols[k].kind = "Variable"
                                   /\ tables'[CurrentScope].symbols[k].id = ref.id)
              => \A s, m : s = CurrentScope /\ m = ref.id => IsTaken(s, m)'
<1> DEFINE c == CurrentScope
<1>1. /\ c \in Scopes /\ Scopes \subseteq Scopes' /\ ref = [scope |-> c, id |-> ref.id]
      /\ \A s \in Scopes : anchors[s] \in ScopedStmtRef
      /\ DOMAIN uses \subseteq DOMAIN uses' /\ \A i \in DOMAIN uses : uses'[i] = uses[i]
      /\ \A i \in DOMAIN uses' \ DOMAIN uses : uses'[i].ref = ref
  BY AnchorRefs DEF Visits, ScopedStmtRef
<1>2. /\ \A s, id : ~(s = c /\ id = ref.id) => Anchored(s, id)' = Anchored(s, id)
      /\ \A s, id : s = c /\ id = ref.id =>
           Anchored(s, id)' = Anchored(s, id) \cup (Scopes' \ Scopes)
  BY <1>1, AnchoredAfter
<1>3. \A s, id : [scope |-> s, id |-> id] = ref <=> s = c /\ id = ref.id
  BY <1>1
<1>4. \A s, id : UsesAt(s, id)' = {i \in DOMAIN uses' : uses'[i].ref = [scope |-> s, id |-> id]}
  BY DEF UsesAt
<1>5. /\ \A s, id : UsesAt(s, id) \subseteq UsesAt(s, id)'
      /\ \A s, id : ~(s = c /\ id = ref.id) => UsesAt(s, id)' = UsesAt(s, id)
      /\ DOMAIN uses' # DOMAIN uses =>
           \A s, id : s = c /\ id = ref.id => UsesAt(s, id)' # {}
  <2>0. ref = [scope |-> c, id |-> ref.id] /\ \A s, id : s = c /\ id = ref.id =>
          ref = [scope |-> s, id |-> id]
    BY <1>1
  <2>1. \A s, id : UsesAt(s, id) = {i \in DOMAIN uses : uses[i].ref = [scope |-> s, id |-> id]}
    BY DEF UsesAt
  <2>2. \A s, id : UsesAt(s, id) \subseteq UsesAt(s, id)'
    BY <1>1, <1>4, <2>1
  <2>3. \A s, id : ~(s = c /\ id = ref.id) => UsesAt(s, id)' = UsesAt(s, id)
    <3>1. \A s, id : ~(s = c /\ id = ref.id) => \A i \in DOMAIN uses' :
            i \in UsesAt(s, id)' <=> i \in UsesAt(s, id)
      BY <1>1, <1>3, <1>4, <2>1
    <3>2. \A s, id : UsesAt(s, id)' \subseteq DOMAIN uses' /\ UsesAt(s, id) \subseteq DOMAIN uses'
      BY <1>1, <1>4, <2>1
    <3>3. QED BY <3>1, <3>2
  <2>4. ASSUME DOMAIN uses' # DOMAIN uses, NEW s, NEW id, s = c, id = ref.id
        PROVE  UsesAt(s, id)' # {}
    <3>1. PICK i \in DOMAIN uses' \ DOMAIN uses : TRUE
      BY <1>1, <2>4
    <3>2. uses'[i].ref = [scope |-> s, id |-> id]
      BY <1>1, <2>0, <2>4, <3>1
    <3>3. QED BY <1>4, <3>1, <3>2
  <2>5. QED BY <2>2, <2>3, <2>4
<1>6. \A s, id : DeclaredAt(s, id)' =
        {k \in Names : tables'[s].symbols[k].kind = "Variable" /\ tables'[s].symbols[k].id = id}
  BY DEF DeclaredAt
<1>7. /\ \A s \in Scopes : \A id : DeclaredAt(s, id) \subseteq DeclaredAt(s, id)'
      /\ \A s \in Scopes : \A id : ~(s = c /\ id = ref.id) => DeclaredAt(s, id)' = DeclaredAt(s, id)
      /\ \A s \in Scopes' \ Scopes : \A id : DeclaredAt(s, id)' = {}
  <2>1. ASSUME NEW s \in Scopes, NEW k \in Names
        PROVE  \/ tables'[s].symbols[k] = tables[s].symbols[k]
               \/ /\ s = c /\ tables[s].symbols[k].kind # "Variable"
                  /\ tables'[s].symbols[k].kind = "Variable" => tables'[s].symbols[k].id = ref.id
    <3>1. \/ tables'[s].symbols[k] = tables[s].symbols[k]
          \/ /\ s = c /\ ~Declared(s, k)
             /\ tables'[s].symbols[k].kind = "Variable" => tables'[s].symbols[k].id = ref.id
      BY DEF Visits
    <3>2. QED BY <3>1, SymbolParts
  <2>2. \A s \in Scopes' \ Scopes, k \in Names : tables'[s].symbols[k].kind = "None"
    BY DEF Visits, NoSymbol
  <2>3. \A s, id : DeclaredAt(s, id) =
          {k \in Names : tables[s].symbols[k].kind = "Variable" /\ tables[s].symbols[k].id = id}
    BY DEF DeclaredAt
  <2>4. /\ \A s \in Scopes : \A id : DeclaredAt(s, id) \subseteq DeclaredAt(s, id)'
        /\ \A s \in Scopes : \A id :
             ~(s = c /\ id = ref.id) => DeclaredAt(s, id)' = DeclaredAt(s, id)
    BY <1>6, <2>1, <2>3
  <2>5. QED BY <1>6, <2>2, <2>4
<1>8. \A s, m : IsTaken(s, m)' <=>
        DeclaredAt(s, m)' # {} \/ Anchored(s, m)' # {} \/ UsesAt(s, m)' # {}
  BY DEF IsTaken
<1>9. \A s \in Scopes : \A m : IsTaken(s, m) => IsTaken(s, m)'
  BY <1>2, <1>5, <1>7, <1>8 DEF IsTaken
<1>10. \A s \in Scopes : \A m : IsTaken(s, m)' => IsTaken(s, m) \/ (s = CurrentScope /\ m = ref.id)
  BY <1>2, <1>5, <1>7, <1>8 DEF IsTaken
<1>11. ASSUME NEW s \in Scopes' \ Scopes, NEW m, IsTaken(s, m)' PROVE FALSE
  <2>1. s # c
    BY <1>1
  <2>2. Anchored(s, m) # {} \/ UsesAt(s, m) # {}
    BY <1>2, <1>5, <1>7, <1>8, <1>11, <2>1
  <2>3. ASSUME NEW t \in Anchored(s, m) PROVE FALSE
    <3>1. t \in Scopes \ {Root} /\ anchors[t].scope = s
      BY DEF Anchored
    <3>2. anchors[t].scope = tables[t].parent /\ tables[t].parent \in Scopes
      <4>1. Tree
        BY TreeOfInv
      <4>2. tables[t].parent \in 1..(t - 1)
        BY <3>1, <4>1 DEF Tree, NoScope
      <4>3. QED BY <3>1, <4>1, <4>2 DEF IInv, ScopesAgree, Scopes, Tree
    <3>3. QED BY <3>1, <3>2
  <2>4. ASSUME NEW i \in UsesAt(s, m) PROVE FALSE
    <3>1. i \in DOMAIN uses /\ uses[i].ref.scope = s
      BY DEF UsesAt
    <3>2. uses[i].ref.scope \in Scopes
      <4>1. /\ uses[i].scope \in Scopes
            /\ uses[i].ref = [scope |-> uses[i].scope, id |-> uses[i].ref.id]
        BY <3>1, UseParts
      <4>2. QED BY <4>1
    <3>3. QED BY <3>1, <3>2
  <2>5. QED BY <2>2, <2>3, <2>4
<1>12. ASSUME \/ Scopes' # Scopes \/ DOMAIN uses' # DOMAIN uses
              \/ \E k \in Names : /\ tables'[CurrentScope].symbols[k].kind = "Variable"
                                  /\ tables'[CurrentScope].symbols[k].id = ref.id,
              NEW s, NEW m, s = c, m = ref.id
       PROVE  IsTaken(s, m)'
  <2>1. Scopes' # Scopes => Anchored(s, m)' # {}
    <3>1. Scopes' # Scopes => Scopes' \ Scopes # {}
      BY <1>1
    <3>2. QED BY <1>2, <1>12, <3>1
  <2>2. (\E k \in Names : /\ tables'[CurrentScope].symbols[k].kind = "Variable"
                          /\ tables'[CurrentScope].symbols[k].id = ref.id)
          => DeclaredAt(s, m)' # {}
    BY <1>6, <1>12
  <2>3. QED BY <1>5, <1>8, <1>12, <2>1, <2>2
<1>13. QED BY <1>9, <1>10, <1>11, <1>12

\* A visit keeps FilledInv.
LEMMA VisitKeepsFilled ==
  ASSUME IInv, IInv', phase = "visit", TextInv, ConditionsInv, FilledInv, RecordCondition,
         NEW ref, NEW n, VisitsOne(ref, n), Fills(ref, n)
  PROVE  FilledInv'
<1> DEFINE c == CurrentScope
           d == Len(nextIds)
<1>1. Visits(ref, n)
  BY DEF VisitsOne
<1>2. /\ c \in Scopes /\ Scopes \subseteq Scopes'
      /\ \A s \in Scopes : /\ tables'[s].owner = tables[s].owner
                           /\ tables'[s].parent = tables[s].parent /\ anchors'[s] = anchors[s]
                           /\ tables'[s].name = tables[s].name
      /\ \A s \in Scopes' \ Scopes :
           /\ anchors'[s] = ref /\ tables'[s].parent = c /\ s # Root
           /\ \A m \in Names : tables'[s].symbols[m] = NoSymbol
  <2>1. \A s \in Scopes : tables'[s].name = tables[s].name
    BY DEF Fills
  <2>2. QED BY <1>1, <2>1 DEF Visits
<1>3. \A s, m : /\ NumberOf(s, m)' = tables'[s].symbols[m].id
                /\ NumberOf(s, m) = tables[s].symbols[m].id
  BY DEF NumberOf
<1>4. ASSUME NEW s \in Scopes', NEW m \in Names, tables'[s].symbols[m].kind = "Parameter"
      PROVE  NumberOf(s, m)' = 0
  <2>1. s \in Scopes
    BY <1>2, <1>4 DEF NoSymbol
  <2>2. \/ tables'[s].symbols[m] = tables[s].symbols[m]
        \/ tables'[s].symbols[m].id = 0
    BY <1>1, <1>4, <2>1 DEF Visits
  <2>3. QED BY <1>3, <1>4, <2>1, <2>2 DEF FilledInv
<1>5. ASSUME NEW t \in Scopes', tables'[t].owner = "function"
      PROVE  /\ tables'[t].name \in Names
             /\ tables'[tables'[t].parent].symbols[tables'[t].name].kind = "Function"
             /\ tables'[tables'[t].parent].symbols[tables'[t].name].id = anchors'[t].id
  <2>1. CASE t \in Scopes
    <3> DEFINE p == tables[t].parent
               m == tables[t].name
    <3>1. m \in Names /\ tables[p].symbols[m].kind = "Function" /\ NumberOf(p, m) = anchors[t].id
      BY <1>2, <1>5, <2>1 DEF FilledInv
    <3>2. p \in Scopes
      <4>1. Tree /\ t # Root
        <5>1. tables[t].owner = "program" <=> t = Root
          BY <2>1 DEF TextInv, OwnersInv
        <5>2. QED BY <1>2, <1>5, <2>1, <5>1, TreeOfInv
      <4>2. QED BY <2>1, <4>1 DEF Tree, Scopes, NoScope
    <3>3. Declared(p, m)
      BY <3>1, <3>2, SymbolParts
    <3>4. tables'[p].symbols[m] = tables[p].symbols[m]
      BY <1>1, <3>1, <3>2, <3>3 DEF Visits
    <3>5. QED BY <1>2, <1>3, <2>1, <3>1, <3>4
  <2>2. CASE t \notin Scopes
    <3>1. /\ n \in Names /\ tables'[t].name = n /\ tables'[c].symbols[n].kind = "Function"
          /\ tables'[c].symbols[n].id = ref.id
      BY <1>5, <2>2 DEF Fills
    <3>2. QED BY <1>2, <1>5, <2>2, <3>1
  <2>3. QED BY <2>1, <2>2
<1>6. ASSUME NEW s \in Scopes', conditionOf'[s] # 0 PROVE tables'[s].owner = "then"
  <2>1. /\ Len(tables) \in Nat /\ Len(tables') \in Nat /\ Scopes = 1..Len(tables)
        /\ Scopes' = 1..Len(tables')
    BY TreeOfInv, TreeOfInvNext DEF Tree, Scopes
  <2>2. conditionOf \in Seq(Nat) /\ Len(conditionOf) = Len(tables)
    BY DEF ConditionsInv
  <2>3. CASE s \in Scopes
    <3>1. conditionOf'[s] = conditionOf[s]
      <4>1. conditionOf' = conditionOf \/ \E x : conditionOf' = Append(conditionOf, x)
        BY DEF RecordCondition
      <4>2. QED BY <2>1, <2>2, <2>3, <4>1
    <3>2. QED BY <1>2, <1>6, <2>3, <3>1 DEF FilledInv
  <2>4. CASE s \notin Scopes /\ tables'[s].owner # "then"
    <3>1. UNCHANGED uses
      BY <2>4 DEF Fills
    <3>2. Len(tables') # Len(tables)
      BY <2>1, <2>4
    <3>3. \A i \in Nat : ~(i > i)
      OBVIOUS
    <3>4. uses \in Seq(UseType)
      BY DEF IInv, TypeOK, BuilderTypeOK
    <3>5. conditionOf' = Append(conditionOf, 0)
      BY <3>1, <3>2, <3>3, <3>4 DEF RecordCondition
    <3>6. s = Len(tables) + 1
      <4>1. \A x, y \in Scopes' \ Scopes : x = y
        BY <1>1 DEF Visits
      <4>2. Len(tables) + 1 \in Scopes' \ Scopes
        BY <2>1, <2>4
      <4>3. QED BY <2>4, <4>1, <4>2
    <3>7. conditionOf'[s] = 0
      BY <2>2, <3>5, <3>6
    <3>8. QED BY <1>6, <3>7
  <2>5. QED BY <2>3, <2>4
<1>7. /\ \A s \in Scopes : \A m : IsTaken(s, m) => IsTaken(s, m)'
      /\ \A s \in Scopes : \A m :
           IsTaken(s, m)' => IsTaken(s, m) \/ (s = c /\ m = ref.id)
      /\ \A s \in Scopes' \ Scopes : \A m : ~IsTaken(s, m)'
      /\ Scopes' # Scopes \/ DOMAIN uses' # DOMAIN uses
           \/ (\E k \in Names : /\ tables'[CurrentScope].symbols[k].kind = "Variable"
                                /\ tables'[CurrentScope].symbols[k].id = ref.id)
           => \A s, m : s = CurrentScope /\ m = ref.id => IsTaken(s, m)'
  BY <1>1, TakenAfter
<1>8. /\ d \in Nat \ {0} /\ c = scopeStack[d] /\ Len(scopeStack) = d
      /\ \A j \in 1..d : nextIds[j] \in Nat /\ scopeStack[j] \in Scopes
      /\ ref.id \in Nat /\ ref.id <= nextIds[d] /\ d \in 1..d
      /\ scopeStack \in Seq(Nat)
  <2>1. ref.id \in Nat
    BY <1>1 DEF Visits, ScopedStmtRef
  <2>2. ref.id <= Last(nextIds)
    BY DEF Fills
  <2>3. scopeStack \in Seq(Nat)
    BY DEF IInv, TypeOK, TableTypeOK
  <2>4. QED BY <2>1, <2>2, <2>3, StackFacts
<1>9. \A id \in 1..(ref.id - 1) : IsTaken(c, id)
  <2>1. \A id \in 1..(nextIds[d] - 1) : IsTaken(c, id)
    BY <1>8 DEF FilledInv
  <2> HIDE DEF c, d
  <2>2. QED BY <1>8, <2>1
<1>10. ASSUME NEW s \in Scopes', NEW m \in Nat, IsTaken(s, m)', NEW id \in 1..m
       PROVE  IsTaken(s, id)'
  <2>1. s \in Scopes
    BY <1>7, <1>10
  <2>2. CASE IsTaken(s, m)
    BY <1>7, <1>10, <2>1, <2>2 DEF FilledInv
  <2>3. CASE ~IsTaken(s, m)
    <3>1. s = c /\ m = ref.id
      BY <1>7, <1>10, <2>1, <2>3
    <3>2. id = m \/ id \in 1..(ref.id - 1)
      BY <1>8, <1>10, <3>1
    <3>3. QED BY <1>7, <1>9, <1>10, <2>1, <3>1, <3>2
  <2>4. QED BY <2>2, <2>3
<1>11. ASSUME NEW j \in 1..Len(nextIds'), NEW id \in 1..(nextIds'[j] - 1),
              NEW s, s = scopeStack'[j]
       PROVE  IsTaken(s, id)'
  <2>1. CASE UNCHANGED <<nextIds, scopeStack>>
    <3>1. IsTaken(s, id) /\ s \in Scopes
      BY <1>8, <1>11, <2>1 DEF FilledInv
    <3>2. QED BY <1>7, <3>1
  <2>2. ASSUME NEW ids, Position(ref, ids),
               \/ nextIds' = ids /\ scopeStack' = scopeStack
               \/ /\ nextIds' = Append(ids, 1)
                  /\ scopeStack' = Append(scopeStack, Len(tables) + 1),
               \A x, m : x = c /\ m = ref.id => IsTaken(x, m)'
        PROVE  IsTaken(s, id)'
    <3>1. /\ ids \in Seq(Nat) /\ Len(ids) = d /\ ids[d] = ref.id + 1
          /\ \A k \in 1..(d - 1) : ids[k] = nextIds[k]
      BY <2>2 DEF Position
    <3>2. \/ j \in 1..(d - 1) /\ nextIds'[j] = nextIds[j] /\ s = scopeStack[j]
          \/ j = d /\ nextIds'[j] = ref.id + 1 /\ s = c
          \/ nextIds'[j] = 1
      <4> HIDE DEF d, c
      <4>1. CASE nextIds' = ids /\ scopeStack' = scopeStack
        BY <1>8, <1>11, <3>1, <4>1
      <4>2. CASE nextIds' = Append(ids, 1) /\ scopeStack' = Append(scopeStack, Len(tables) + 1)
        <5>1. Len(nextIds') = d + 1 /\ nextIds'[d + 1] = 1
              /\ \A k \in 1..d : nextIds'[k] = ids[k] /\ scopeStack'[k] = scopeStack[k]
          BY <1>8, <3>1, <4>2
        <5>2. j \in 1..(d - 1) \/ j = d \/ j = d + 1
          BY <1>8, <1>11, <5>1
        <5>3. QED BY <1>8, <1>11, <3>1, <5>1, <5>2
      <4>3. QED BY <2>2, <4>1, <4>2
    <3>3. CASE j \in 1..(d - 1) /\ nextIds'[j] = nextIds[j] /\ s = scopeStack[j]
      <4>1. j \in 1..d
        BY <1>8, <3>3
      <4>2. IsTaken(s, id) /\ s \in Scopes
        BY <1>8, <1>11, <3>3, <4>1 DEF FilledInv
      <4>3. QED BY <1>7, <4>2
    <3>4. CASE nextIds'[j] = ref.id + 1 /\ s = c
      <4>1. id = ref.id \/ id \in 1..(ref.id - 1)
        BY <1>8, <1>11, <3>4
      <4>2. QED BY <1>2, <1>7, <1>9, <2>2, <3>4, <4>1
    <3>5. CASE nextIds'[j] = 1
      BY <1>11, <3>5
    <3>6. QED BY <3>2, <3>3, <3>4, <3>5
  <2>3. QED BY <1>7, <2>1, <2>2 DEF Fills
<1>12. FilledInv'
  <2>1. \A s \in Scopes', m \in Names :
          tables'[s].symbols[m].kind = "Parameter" => NumberOf(s, m)' = 0
    BY <1>4
  <2>2. \A s \in Scopes', m \in Nat : IsTaken(s, m)' => \A id \in 1..m : IsTaken(s, id)'
    BY <1>10
  <2>3. \A j \in 1..Len(nextIds') : \A id \in 1..(nextIds'[j] - 1) :
          \E s \in {scopeStack'[j]} : IsTaken(s, id)'
    BY <1>11
  <2>4. QED BY <1>5, <1>6, <2>1, <2>2, <2>3 DEF FilledInv, NumberOf
<1>13. QED BY <1>12

\* So does what leaves the program, and at most pops the stacks of the visit.
LEMMA FilledStays ==
  ASSUME FilledInv, UNCHANGED <<tables, anchors, uses, conditionOf>>,
         phase' = "visit" =>
           /\ phase = "visit"
           /\ \A j \in 1..Len(nextIds') :
                /\ j \in 1..Len(nextIds) /\ nextIds'[j] = nextIds[j]
                /\ scopeStack'[j] = scopeStack[j]
  PROVE  FilledInv'
<1>1. Scopes' = Scopes /\ \A s, n : NumberOf(s, n)' = NumberOf(s, n)
  BY DEF Scopes, NumberOf
<1>2. \A s, m : IsTaken(s, m)' <=> IsTaken(s, m)
  BY <1>1 DEF IsTaken, DeclaredAt, Anchored, UsesAt
<1>3. /\ \A s \in Scopes', n \in Names :
           tables'[s].symbols[n].kind = "Parameter" => NumberOf(s, n)' = 0
      /\ \A t \in Scopes' : tables'[t].owner = "function" =>
           /\ tables'[t].name \in Names
           /\ tables'[tables'[t].parent].symbols[tables'[t].name].kind = "Function"
           /\ NumberOf(tables[t].parent, tables[t].name)' = anchors'[t].id
      /\ \A s \in Scopes' : conditionOf'[s] # 0 => tables'[s].owner = "then"
  BY <1>1 DEF FilledInv, NumberOf
<1>4. \A s \in Scopes', m \in Nat : IsTaken(s, m)' => \A id \in 1..m : IsTaken(s, id)'
  BY <1>1, <1>2 DEF FilledInv
<1>5. ASSUME phase' = "visit", NEW j \in 1..Len(nextIds'), NEW id \in 1..(nextIds'[j] - 1),
             NEW s, s = scopeStack'[j]
      PROVE  IsTaken(s, id)'
  <2>1. IsTaken(s, id)
    BY <1>5 DEF FilledInv
  <2>2. QED BY <1>2, <2>1
<1>6. phase' = "visit" =>
        \A j \in 1..Len(nextIds') : \A id \in 1..(nextIds'[j] - 1) :
          \E s \in {scopeStack'[j]} : IsTaken(s, id)'
  BY <1>5
<1>7. QED BY <1>3, <1>4, <1>6 DEF FilledInv, NumberOf

\* Before the first visit.
LEMMA InitFilled == ExecutionInit => FilledInv
<1> SUFFICES ASSUME ExecutionInit PROVE FilledInv
  OBVIOUS
<1>1. Init /\ conditionOf = <<0>>
  BY DEF ExecutionInit
<1>2. /\ tables = <<NewTable(0, "program", NoClass)>> /\ Len(tables) = 1 /\ uses = <<>>
      /\ nextIds = <<1>> /\ Len(nextIds) = 1 /\ nextIds[1] = 1
  BY <1>1 DEF Init, InitBuilder, EnterRootScope, InitTables, InitClassTypes
<1>3. /\ Scopes = {Root} /\ tables[Root].owner = "program"
      /\ \A n \in Names : tables[Root].symbols[n] = NoSymbol
  BY <1>2 DEF Scopes, Root, NewTable
<1>4. \A s \in Scopes : \A m : ~IsTaken(s, m)
  BY <1>2, <1>3 DEF IsTaken, DeclaredAt, Anchored, UsesAt, NoSymbol
<1>5. \A s \in Scopes, n \in Names : tables[s].symbols[n].kind # "Parameter"
  BY <1>3 DEF NoSymbol
<1>6. \A t \in Scopes : tables[t].owner # "function" /\ conditionOf[t] = 0
  BY <1>1, <1>3 DEF Root
<1>7. \A j \in 1..Len(nextIds) : j = 1 /\ \A id \in 1..(nextIds[j] - 1) : FALSE
  BY <1>2
<1>8. QED BY <1>4, <1>5, <1>6, <1>7 DEF FilledInv

\* Every step keeps FilledInv.
LEMMA NextFilled == SInv /\ FilledInv /\ [ExecutionNext]_allVars => FilledInv'
<1> SUFFICES ASSUME SInv, FilledInv, [ExecutionNext]_allVars PROVE FilledInv'
  OBVIOUS
<1>1. CASE Build
  <2>1. /\ RecordCondition /\ errors' = {} /\ phase = "visit"
        /\ BuildDeclaration \/ BuildStatement \/ BuildScopeEnd
    BY <1>1, BuildVisits DEF Build
  <2>2. IInv /\ LexicalInv /\ TextInv /\ ConditionsInv /\ IInv'
    <3>1. SInv'
      BY <1>1, BuildKeeps
    <3>2. QED BY <3>1 DEF SInv
  <2>3. CASE BuildDeclaration \/ BuildStatement
    BY <2>1, <2>2, <2>3, BuildVisitsOne, VisitKeepsFilled
  <2>4. CASE BuildScopeEnd
    <3>1. UNCHANGED <<tables, anchors, uses>>
      BY <2>4 DEF BuildScopeEnd, VisitScopeEnd, LeaveScope, EndProgram, LeaveScopeRestoring,
                  LeaveRootScope
    <3>2. conditionOf' = conditionOf
      BY <2>1, <3>1 DEF RecordCondition
    <3>3. nextIds' = Front(nextIds) /\ scopeStack' = Front(scopeStack)
      BY <2>4 DEF BuildScopeEnd, VisitScopeEnd, LeaveScope, EndProgram, LeaveScopeRestoring,
                  LeaveRootScope, LeaveTable
    <3>4. /\ nextIds \in Seq(Nat) /\ scopeStack \in Seq(Nat) /\ nextIds # <<>>
          /\ scopeStack # <<>> /\ Len(nextIds) = Len(scopeStack)
      <4>1. nextIds \in Seq(Nat) /\ scopeStack \in Seq(Nat)
        BY <2>2 DEF IInv, TypeOK, NumTypeOK, TableTypeOK
      <4>2. Len(nextIds) \in Nat \ {0} /\ Len(nextIds) = Len(scopeStack)
        BY <2>1, <2>2, StackFacts
      <4>3. QED BY <4>1, <4>2, EmptySeq
    <3>5. PICK d : d = Len(nextIds)
      OBVIOUS
    <3>6. /\ Len(nextIds') = d - 1 /\ d \in Nat
          /\ \A j \in 1..(d - 1) : nextIds'[j] = nextIds[j] /\ scopeStack'[j] = scopeStack[j]
      <4>0. d \in Nat /\ Front(nextIds) = nextIds'
        BY <3>3, <3>4, <3>5
      <4>1. /\ Len(Front(nextIds)) = d - 1
            /\ \A j \in 1..(d - 1) : Front(nextIds)[j] = nextIds[j]
        BY <3>4, <3>5, FrontProperties
      <4>2. \A j \in 1..(d - 1) : scopeStack'[j] = scopeStack[j]
        BY <3>3, <3>4, <3>5, FrontProperties
      <4>3. QED BY <4>0, <4>1, <4>2
    <3>7. \A j \in 1..(d - 1) : j \in 1..d
      BY <3>6
    <3>8. \A j \in 1..Len(nextIds') :
                /\ j \in 1..Len(nextIds) /\ nextIds'[j] = nextIds[j]
                /\ scopeStack'[j] = scopeStack[j]
      BY <3>5, <3>6, <3>7
    <3>9. QED BY <2>1, <3>1, <3>2, <3>8, FilledStays
  <2>5. QED BY <2>1, <2>3, <2>4
<1>2. ASSUME UNCHANGED <<tables, anchors, uses, conditionOf, phase, nextIds, scopeStack>>
      PROVE  FilledInv'
  BY <1>2, FilledStays
<1>3. CASE ResolveProgram
  BY <1>2, <1>3 DEF ResolveProgram, programVars, numVars
<1>4. ASSUME UNCHANGED <<vars, conditionOf>> PROVE FilledInv'
  BY <1>2, <1>4 DEF vars, numVars, tableVars, builderVars
<1>5. CASE InterpretStep
  BY <1>4, <1>5 DEF InterpretStep
<1>6. CASE Lower
  BY <1>4, <1>6 DEF Lower, textVars
<1>7. CASE RunStep
  BY <1>4, <1>7 DEF RunStep
<1>8. CASE UNCHANGED allVars
  BY <1>4, <1>8 DEF allVars, textVars
<1>9. QED BY <1>1, <1>3, <1>5, <1>6, <1>7, <1>8 DEF ExecutionNext, ExecutionEnds

\* The last statement of a list is there.
LEMMA LastIsTaken ==
  ASSUME IInv, TextInv, FilledInv, NEW s \in Scopes, LastStatement(s) # 0
  PROVE  IsTaken(s, LastStatement(s))
<1>1. PICK last : last = LastStatement(s)
  OBVIOUS
<1>2. last # 0 /\ OwnersInv /\ NumberedOnce /\ BoundedInv
  BY <1>1 DEF TextInv
<1>3. ASSUME NEW n \in Names, NumberOf(s, n) = last PROVE IsTaken(s, last)
  <2>1. tables[s].symbols[n].kind \in SymbolKinds
    <3>1. Declared(s, n)
      BY <1>2, <1>3 DEF Declared, NumberOf, NoSymbol
    <3>2. tables[s].symbols[n].kind # "None"
      BY <1>2, <3>1 DEF OwnersInv
    <3>3. QED BY <3>2, SymbolParts
  <2>2. CASE tables[s].symbols[n].kind = "Variable"
    <3>1. n \in DeclaredAt(s, last)
      BY <1>3, <2>2 DEF DeclaredAt, NumberOf
    <3>2. QED BY <3>1 DEF IsTaken
  <2>3. CASE tables[s].symbols[n].kind = "Function"
    <3>1. Anchored(s, last) # {}
      BY <1>2, <1>3, <2>3 DEF NumberedOnce
    <3>2. QED BY <3>1 DEF IsTaken
  <2>4. CASE tables[s].symbols[n].kind = "Parameter"
    BY <1>2, <1>3, <2>4 DEF FilledInv
  <2>5. QED BY <2>1, <2>2, <2>3, <2>4 DEF SymbolKinds
<1>4. ASSUME NEW t \in Scopes, anchors[t].scope = s, anchors[t].id = last PROVE IsTaken(s, last)
  <2>1. anchors[t] = [scope |-> s, id |-> last]
    BY <1>4, AnchorRefs DEF ScopedStmtRef
  <2>2. t # Root
    <3>1. Tree /\ anchors[t].scope = tables[t].parent
      BY TreeOfInv DEF IInv, ScopesAgree
    <3>2. QED BY <1>4, <3>1 DEF Tree, Scopes, NoScope
  <2>3. t \in Anchored(s, last)
    BY <2>1, <2>2 DEF Anchored
  <2>4. QED BY <2>3 DEF IsTaken
<1>5. ASSUME NEW i \in DOMAIN uses, uses[i].scope = s, uses[i].ref.id = last PROVE IsTaken(s, last)
  <2>1. uses[i].ref = [scope |-> s, id |-> last]
    BY <1>5, UseParts
  <2>2. i \in UsesAt(s, last)
    BY <2>1 DEF UsesAt
  <2>3. QED BY <2>2 DEF IsTaken
<1>6. \/ last = 0
      \/ \E n \in Names : NumberOf(s, n) = last
      \/ \E t \in Scopes : anchors[t].scope = s /\ anchors[t].id = last
      \/ \E i \in DOMAIN uses : uses[i].scope = s /\ uses[i].ref.id = last
  BY <1>1, <1>2, LastStatementFacts
<1>7. IsTaken(s, last)
  BY <1>2, <1>3, <1>4, <1>5, <1>6
<1>8. QED BY <1>1, <1>7

\* A statement that declares nothing and opens no scopes is made of a use.
LEMMA UseIsThere ==
  ASSUME IInv, TextInv, FilledInv, NEW body, NEW at, PathInv(body, at), IsOfUse(at)
  PROVE  UseHere(at) \in DOMAIN uses /\ UseHere(at) # 0
<1>1. PICK s, id : s = Here(at).scope /\ id = Here(at).id
  OBVIOUS
<1>2. s \in Scopes /\ id \in Nat \ {0} /\ BoundedInv
  BY <1>1, PathParts DEF TextInv
<1>3. /\ ~(id > LastStatement(s)) /\ DeclaredAt(s, id) = {} /\ ScopesAt(s, id) = <<>>
      /\ UseHere(at) = UseAt(s, id)
  BY <1>1 DEF IsOfUse, AtEnd, DeclaredHere, BlocksHere, UseHere
<1>4. LastStatement(s) \in Nat
  BY <1>2, LastStatementFacts
<1>5. LastStatement(s) # 0 /\ id \in 1..LastStatement(s)
  BY <1>2, <1>3, <1>4
<1>6. IsTaken(s, id)
  <2>1. IsTaken(s, LastStatement(s))
    BY <1>2, <1>5, LastIsTaken
  <2>2. QED BY <1>2, <1>4, <1>5, <2>1 DEF FilledInv
<1>7. Anchored(s, id) = {}
  BY <1>3, ScopesAtFacts
<1>8. UsesAt(s, id) # {}
  BY <1>3, <1>6, <1>7 DEF IsTaken
<1>9. UsesAt(s, id) \in SUBSET Nat /\ \A i \in UsesAt(s, id) : i \in DOMAIN uses /\ i # 0
  <2>1. DOMAIN uses = 1..Len(uses) /\ Len(uses) \in Nat
    BY DEF IInv, TypeOK, BuilderTypeOK
  <2>2. QED BY <2>1 DEF UsesAt
<1>10. UseAt(s, id) \in UsesAt(s, id)
  BY <1>8, <1>9, MinIsLeast DEF UseAt
<1>11. QED BY <1>3, <1>9, <1>10

\* Only one function is main.
LEMMA OneMain ==
  ASSUME IInv, TextInv, FilledInv, NEW t \in Mains, NEW u \in Mains
  PROVE  t = u
<1>1. /\ t \in Scopes /\ tables[t].owner = "function" /\ tables[t].parent = Root
      /\ tables[t].name = MainName
      /\ u \in Scopes /\ tables[u].owner = "function" /\ tables[u].parent = Root
      /\ tables[u].name = MainName
  BY DEF Mains
<1>2. anchors[t].id = anchors[u].id
  BY <1>1 DEF FilledInv
<1>3. anchors[t].scope = Root /\ anchors[u].scope = Root
  BY <1>1 DEF IInv, ScopesAgree
<1>4. anchors[t] \in ScopedStmtRef /\ anchors[u] \in ScopedStmtRef
  BY <1>1, AnchorRefs
<1>5. anchors[t] = anchors[u]
  BY <1>2, <1>3, <1>4 DEF ScopedStmtRef
<1>6. t # Root /\ u # Root
  BY <1>1, TreeOfInv DEF Tree, Root, NoScope
<1>7. tables[t].owner \notin BlockOwners
  BY <1>1 DEF BlockOwners
<1>8. QED BY <1>1, <1>5, <1>6, <1>7 DEF TextInv, NumberedOnce

-----------------------------------------------------------------------------
(* What the interpreter passed through *)

\* The interpreter at a place, with what it knows and what it has printed.
State(at, known, out) == [at |-> at, known |-> known, out |-> out]

Evaluates(c, i) == i # 0 => IsValue(i) /\ DefinitionOf(i) \in DOMAIN c.known
ValueIn(c, i) == IF i = 0 THEN Written(Here(c.at)) ELSE c.known[DefinitionOf(i)]

\* What the statement declares, and with what.
DeclaredBy(c, n) == DefinitionIn(n, Here(c.at).scope)
DeclaredWith(c, n) == IF HasDefault(DeclaredBy(c, n)) THEN Zero ELSE ValueIn(c, UseHere(c.at))

\* What one step of the interpreter makes of c, when the conditions are as tr says.
Declares(c, e) ==
  /\ IsOfDeclaration(c.at) /\ Evaluates(c, UseHere(c.at))
  /\ \E n \in DeclaredHere(c.at) :
       /\ DeclaredBy(c, n) \notin DOMAIN c.known
       /\ e = State(NextStatement(c.at), Put(c.known, DeclaredBy(c, n), DeclaredWith(c, n)), c.out)
Assigns(c, e) ==
  /\ IsOfUse(c.at) /\ OnlyWrites(UseHere(c.at))
  /\ DefinitionOf(UseHere(c.at)) \in DOMAIN c.known
  /\ e = State(NextStatement(c.at),
               Put(c.known, DefinitionOf(UseHere(c.at)), Written(Here(c.at))), c.out)
Prints(c, e) ==
  /\ IsOfUse(c.at) /\ ~OnlyWrites(UseHere(c.at))
  /\ UseHere(c.at) # 0 /\ Evaluates(c, UseHere(c.at)) /\ statementKind[UseHere(c.at)] # "return"
  /\ e = State(NextStatement(c.at), c.known, Append(c.out, ValueIn(c, UseHere(c.at))))
Skips(c, e) ==
  /\ IsOfBlocks(c.at) /\ tables[BlockHere(c.at)].owner = "function"
  /\ e = State(NextStatement(c.at), c.known, c.out)
Enters(c, e) ==
  /\ IsOfBlocks(c.at) /\ tables[BlockHere(c.at)].owner \in {"block", "else"}
  /\ e = State(EnterBlock(c.at, BlockHere(c.at)), c.known, c.out)
Condition(c) == <<BlockHere(c.at), ValueIn(c, conditionOf[BlockHere(c.at)])>>
Decides(tr, c, e) ==
  /\ IsOfBlocks(c.at) /\ tables[BlockHere(c.at)].owner = "then"
  /\ Evaluates(c, conditionOf[BlockHere(c.at)])
  /\ Condition(c) \in DOMAIN tr
  /\ e = State(IF tr[Condition(c)] = TRUE THEN AfterTrue(c.at) ELSE AfterFalse(c.at),
               c.known, c.out)
Leaves(c, e) ==
  /\ AtEnd(c.at) /\ Len(c.at) > 1
  /\ e = State(Front(c.at), c.known, c.out)
StartsMain(c, e) ==
  /\ AtEnd(c.at) /\ ~(Len(c.at) > 1) /\ Here(c.at).scope = Root
  /\ \E main \in Mains : e = State(StartOf(main), c.known, c.out)

Interprets(tr, c, e) ==
  \/ Declares(c, e) \/ Assigns(c, e) \/ Prints(c, e) \/ Skips(c, e) \/ Enters(c, e)
  \/ Decides(tr, c, e) \/ Leaves(c, e) \/ StartsMain(c, e)

IsFinished(c) == AtEnd(c.at) /\ ~(Len(c.at) > 1) /\ ~(Here(c.at).scope = Root /\ Mains # {})

IsList(s) == s \in Seq(Range(s))

\* It has come from the start of the program to last through the states S.
Passes(tr, S, last) ==
  /\ State(StartOf(Root), <<>>, <<>>) \in S
  /\ IsList(last.out)
  /\ \A c \in S : /\ IsList(c.out) /\ IsPrefix(c.out, last.out)
                  /\ c = last \/ \E e \in S : Interprets(tr, c, e)

\* A list is a prefix of itself and of what is appended to it.
LEMMA PrefixItself == \A s : IsList(s) => IsPrefix(s, s)
<1> SUFFICES ASSUME NEW s, IsList(s) PROVE IsPrefix(s, s)
  OBVIOUS
<1>1. Len(s) \in Nat
  BY DEF IsList
<1>2. QED BY <1>1 DEF IsPrefix

\* What it is a prefix of, it is one of what comes after that.
LEMMA PrefixAppend ==
  ASSUME NEW s, NEW t, IsList(s), IsList(t), IsPrefix(s, t), NEW x
  PROVE  IsPrefix(s, Append(t, x)) /\ IsList(Append(t, x))
<1>1. PICK T : s \in Seq(T) /\ t \in Seq(T)
  <2>1. s \in Seq(Range(s) \cup Range(t)) /\ t \in Seq(Range(s) \cup Range(t))
    BY DEF IsList
  <2>2. QED BY <2>1
<1>2. PICK m \in Nat : m = Len(s)
  BY <1>1
<1>3. m <= Len(t) /\ SubSeq(t, 1, m) = SubSeq(s, 1, m)
  BY <1>2 DEF IsPrefix
<1>4. PICK u : u = Append(t, x)
  OBVIOUS
<1>5. u \in Seq(T \cup {x}) /\ Len(u) = Len(t) + 1 /\ \A j \in 1..Len(t) : u[j] = t[j]
  BY <1>1, <1>4
<1>6. Len(t) \in Nat
  BY <1>1
<1>7. m <= Len(u)
  BY <1>2, <1>3, <1>5, <1>6
<1>8. SubSeq(u, 1, m) = SubSeq(t, 1, m)
  <2>1. \A j \in 1..m : u[j] = t[j]
    BY <1>2, <1>3, <1>5, <1>6
  <2>2. SubSeq(u, 1, m) = [j \in 1..m |-> u[j]] /\ SubSeq(t, 1, m) = [j \in 1..m |-> t[j]]
    BY <1>1, <1>2, <1>5
  <2>3. QED BY <2>1, <2>2
<1>9. IsPrefix(s, u)
  BY <1>2, <1>3, <1>7, <1>8 DEF IsPrefix
<1>10. IsList(u)
  <2>1. \A j \in 1..Len(u) : u[j] \in Range(u)
    BY <1>5 DEF Range
  <2>2. QED BY <1>5, <2>1 DEF IsList
<1>11. QED BY <1>4, <1>9, <1>10

\* The map says what it said, and perhaps more.
SaysMore(tr, more) == DOMAIN tr \subseteq DOMAIN more /\ \A k \in DOMAIN tr : more[k] = tr[k]

\* Of a condition with this value.
LEMMA TruthGrows ==
  ASSUME NEW s, NEW value, NEW b \in BOOLEAN, IsTruth(s, value, b)
  PROVE  /\ SaysMore(truth, truth') /\ <<s, value>> \in DOMAIN truth'
         /\ truth'[<<s, value>>] = TRUE <=> b
<1> DEFINE key == <<s, value>>
<1>1. CASE key \in DOMAIN truth
  BY <1>1 DEF IsTruth, SaysMore
<1>2. CASE key \notin DOMAIN truth
  <2>1. truth' = Put(truth, key, b)
    BY <1>2 DEF IsTruth
  <2> HIDE DEF key
  <2>2. QED BY <1>2, <2>1 DEF SaysMore, Put, key
<1>3. QED BY <1>1, <1>2

\* What was passed through stays so when more conditions are known.
LEMMA PassesGrows ==
  ASSUME NEW tr, NEW more, SaysMore(tr, more), NEW S, NEW last, Passes(tr, S, last)
  PROVE  Passes(more, S, last)
<1>1. \A c, e : Interprets(tr, c, e) => Interprets(more, c, e)
  <2>1. \A c, e : Decides(tr, c, e) => Decides(more, c, e)
    BY DEF Decides, SaysMore
  <2>2. QED BY <2>1 DEF Interprets
<1>2. QED BY <1>1 DEF Passes

\* The states when there is one more.
LEMMA PassesOn ==
  ASSUME NEW tr, NEW S, NEW last, Passes(tr, S, last), NEW new, Interprets(tr, last, new),
         new.out = last.out \/ \E x : new.out = Append(last.out, x)
  PROVE  Passes(tr, S \cup {new}, new)
<1>1. /\ IsList(last.out)
      /\ \A c \in S : /\ IsList(c.out) /\ IsPrefix(c.out, last.out)
                      /\ c = last \/ \E e \in S : Interprets(tr, c, e)
  BY DEF Passes
<1>2. IsList(new.out) /\ \A c \in S : IsPrefix(c.out, new.out)
  <2>1. CASE new.out = last.out
    BY <1>1, <2>1
  <2>2. ASSUME NEW x, new.out = Append(last.out, x)
        PROVE  IsList(new.out) /\ \A c \in S : IsPrefix(c.out, new.out)
    <3>1. \A c \in S : IsPrefix(c.out, new.out)
      BY <1>1, <2>2, PrefixAppend
    <3>2. IsPrefix(last.out, last.out)
      BY <1>1, PrefixItself
    <3>3. IsList(new.out)
      BY <1>1, <2>2, <3>2, PrefixAppend
    <3>4. QED BY <3>1, <3>3
  <2>3. QED BY <2>1, <2>2
<1>3. IsPrefix(new.out, new.out)
  BY <1>2, PrefixItself
<1>4. \A c \in S \cup {new} : /\ IsList(c.out) /\ IsPrefix(c.out, new.out)
                              /\ c = new \/ \E e \in S \cup {new} : Interprets(tr, c, e)
  BY <1>1, <1>2, <1>3
<1>5. State(StartOf(Root), <<>>, <<>>) \in S
  BY DEF Passes
<1>6. QED BY <1>2, <1>4, <1>5 DEF Passes

\* At the start.
LEMMA PassesStart ==
  ASSUME NEW tr
  PROVE  \E S : Passes(tr, S, State(StartOf(Root), <<>>, <<>>))
<1> DEFINE c == State(StartOf(Root), <<>>, <<>>)
<1>1. c.out = <<>>
  BY DEF State
<1>2. IsList(<<>>)
  BY DEF IsList
<1>3. IsPrefix(<<>>, <<>>)
  BY <1>2, PrefixItself
<1> HIDE DEF c
<1>4. \A x \in {c} : IsList(x.out) /\ IsPrefix(x.out, c.out) /\ x = c
  BY <1>1, <1>2, <1>3
<1>5. Passes(tr, {c}, c)
  BY <1>1, <1>2, <1>4 DEF Passes, c
<1>6. QED BY <1>5 DEF c

\* What a step of the interpreter does: it throws, ends, or goes on as Interprets says.
StopsWith(what) ==
  interpreted' = <<>> /\ exception' = what /\ UNCHANGED <<variables, output, truth>>
GoesOnInterpreting ==
  /\ interpreted' # <<>> /\ UNCHANGED exception /\ SaysMore(truth, truth')
  /\ Interprets(truth', State(interpreted, variables, output),
                        State(interpreted', variables', output'))
  /\ output' = output \/ \E x : output' = Append(output, x)

InterpretsRightly ==
  \/ \E what \in {"unsupported", "unknown variable", "already declared"} : StopsWith(what)
  \/ StopsWith(exception) /\ IsFinished(State(interpreted, variables, output))
  \/ GoesOnInterpreting

\* Where an expression cannot be evaluated.
LEMMA ThrowStops ==
  ASSUME NEW i, ThrowsEvaluating(i)
  PROVE  InterpretsRightly
<1>1. \E what \in {"unsupported", "unknown variable"} : Throws(what)
  <2>1. CASE IsValue(i)
    BY <2>1 DEF ThrowsEvaluating
  <2>2. CASE ~IsValue(i)
    BY <2>2 DEF ThrowsEvaluating
  <2>3. QED BY <2>1, <2>2
<1>2. PICK what \in {"unsupported", "unknown variable"} : Throws(what)
  BY <1>1
<1>3. StopsWith(what)
  BY <1>2 DEF Throws, StopsWith
<1>4. QED BY <1>3 DEF InterpretsRightly

\* Where it throws an exception, it stops with that.
LEMMA ThrowStopsWith ==
  ASSUME NEW what \in {"unsupported", "unknown variable", "already declared"}, Throws(what)
  PROVE  InterpretsRightly
BY DEF Throws, StopsWith, InterpretsRightly

\* The state the interpreter is in.
LEMMA StateParts ==
  ASSUME NEW at, NEW known, NEW out, NEW c, c = State(at, known, out)
  PROVE  c.at = at /\ c.known = known /\ c.out = out
BY DEF State

\* A step to a walk that fits the program.
LEMMA WalkIsNotEmpty ==
  ASSUME NEW body, NEW at, NEW new, GoesOn(body, at, new)
  PROVE  new # <<>>
BY DEF GoesOn, PathInv

\* The map does not change.
LEMMA SameGrows == truth' = truth => SaysMore(truth, truth')
BY DEF SaysMore

\* A declaration.
LEMMA InterpretsDeclaration ==
  ASSUME IsInterpreted, FilledInv, ExecuteDeclaration
  PROVE  InterpretsRightly
<1>1. /\ IInv /\ OwnersInv /\ NumberedOnce /\ BoundedInv
      /\ InterpreterOK(interpreted, variables) /\ PathInv(interpreted[1].scope, interpreted)
  BY InterpretedParts DEF IsInterpreted, InterpreterOK
<1>2. PICK c, i : c = State(interpreted, variables, output) /\ i = UseHere(interpreted)
  OBVIOUS
<1>3. c.at = interpreted /\ c.known = variables /\ c.out = output
  BY <1>2, StateParts
<1>4. PICK n \in DeclaredHere(interpreted) :
        LET d == DefinitionIn(n, Here(interpreted).scope)
        IN  \/ Throws("already declared") \/ Throws("unsupported") \/ ThrowsEvaluating(i)
            \/ /\ d \notin DOMAIN variables /\ ~Unevaluable(i) /\ Declare(d, i)
               /\ interpreted' = NextStatement(interpreted)
               /\ UNCHANGED <<output, exception, truth>>
  BY <1>2 DEF ExecuteDeclaration
<1>5. PICK d :
        /\ d = DefinitionIn(n, Here(interpreted).scope)
        /\ \/ Throws("already declared") \/ Throws("unsupported") \/ ThrowsEvaluating(i)
           \/ /\ d \notin DOMAIN variables /\ ~Unevaluable(i) /\ Declare(d, i)
              /\ interpreted' = NextStatement(interpreted)
              /\ UNCHANGED <<output, exception, truth>>
  BY <1>4
<1>6. CASE Throws("already declared") \/ Throws("unsupported")
  BY <1>6, ThrowStopsWith
<1>7. CASE ThrowsEvaluating(i)
  BY <1>7, ThrowStops
<1>8. CASE /\ d \notin DOMAIN variables /\ ~Unevaluable(i) /\ Declare(d, i)
           /\ interpreted' = NextStatement(interpreted)
           /\ UNCHANGED <<output, exception, truth>>
  <2>1. interpreted' # <<>>
    BY <1>1, <1>8, DeclarationGoesOn, WalkIsNotEmpty
  <2>2. Evaluates(c, i) /\ EvaluateExpression(i) = ValueIn(c, i)
    BY <1>3, <1>8 DEF Unevaluable, Known, Evaluates, EvaluateExpression, ValueIn
  <2>3. /\ d = DeclaredBy(c, n) /\ d \notin DOMAIN c.known
        /\ variables' = Put(c.known, d, DeclaredWith(c, n))
    <3>1. d = DeclaredBy(c, n) /\ d \notin DOMAIN c.known /\ i = UseHere(c.at)
      BY <1>2, <1>3, <1>5, <1>8 DEF DeclaredBy
    <3>2. variables' = Put(c.known, d, IF HasDefault(d) THEN Zero ELSE ValueIn(c, i))
      BY <1>3, <1>8, <2>2 DEF Declare
    <3>3. QED BY <3>1, <3>2 DEF DeclaredWith
  <2>4. Declares(c, State(interpreted', variables', output'))
    <3>1. IsOfDeclaration(c.at) /\ Evaluates(c, UseHere(c.at)) /\ n \in DeclaredHere(c.at)
      BY <1>2, <1>3, <1>4, <2>2 DEF ExecuteDeclaration
    <3>2. interpreted' = NextStatement(c.at) /\ output' = c.out
      BY <1>3, <1>8
    <3>3. QED BY <2>3, <3>1, <3>2 DEF Declares
  <2>5. GoesOnInterpreting
    BY <1>2, <1>8, <2>1, <2>4, SameGrows DEF GoesOnInterpreting, Interprets
  <2>6. QED BY <2>5 DEF InterpretsRightly
<1>9. QED BY <1>5, <1>6, <1>7, <1>8

\* An assignment.
LEMMA InterpretsAssignment ==
  ASSUME IsInterpreted, FilledInv, ExecuteAssignment
  PROVE  InterpretsRightly
<1>1. /\ IInv /\ OwnersInv /\ NumberedOnce /\ BoundedInv
      /\ InterpreterOK(interpreted, variables) /\ PathInv(interpreted[1].scope, interpreted)
  BY InterpretedParts DEF IsInterpreted, InterpreterOK
<1>2. PICK c, i : c = State(interpreted, variables, output) /\ i = UseHere(interpreted)
  OBVIOUS
<1>3. c.at = interpreted /\ c.known = variables /\ c.out = output
  BY <1>2, StateParts
<1>4. CASE Throws("unknown variable")
  BY <1>4, ThrowStopsWith
<1>5. CASE /\ Known(i) /\ interpreted' = NextStatement(interpreted)
           /\ variables' = [variables EXCEPT ![DefinitionOf(i)] = Written(Here(interpreted))]
           /\ UNCHANGED <<output, exception, truth>>
  <2>1. IsOfUse(interpreted) /\ OnlyWrites(i) /\ statementKind[i] = "assign"
    BY <1>2 DEF ExecuteAssignment, OnlyWrites
  <2>2. interpreted' # <<>>
    <3>1. ~(i # 0 /\ IsValue(i) /\ statementKind[i] = "return")
      BY <2>1
    <3>2. QED BY <1>1, <1>2, <1>5, <2>1, <3>1, UseGoesOn, WalkIsNotEmpty
  <2>3. PICK d : d = DefinitionOf(i)
    OBVIOUS
  <2>4. d \in DOMAIN variables
    BY <1>5, <2>3 DEF Known
  <2>5. variables' = Put(c.known, d, Written(Here(c.at)))
    BY <1>3, <1>5, <2>3, <2>4 DEF Put
  <2>6. Assigns(c, State(interpreted', variables', output'))
    BY <1>2, <1>3, <1>5, <2>1, <2>3, <2>4, <2>5 DEF Assigns
  <2>7. GoesOnInterpreting
    BY <1>2, <1>5, <2>2, <2>6, SameGrows DEF GoesOnInterpreting, Interprets
  <2>8. QED BY <2>7 DEF InterpretsRightly
<1>6. QED BY <1>2, <1>4, <1>5 DEF ExecuteAssignment

\* A print, and what else is made of a use.
LEMMA InterpretsUse ==
  ASSUME IsInterpreted, FilledInv, ExecuteUse
  PROVE  InterpretsRightly
<1>1. /\ IInv /\ OwnersInv /\ NumberedOnce /\ BoundedInv /\ TextInv
      /\ InterpreterOK(interpreted, variables) /\ PathInv(interpreted[1].scope, interpreted)
  BY InterpretedParts DEF IsInterpreted, InterpreterOK, SInv
<1>2. PICK c, i : c = State(interpreted, variables, output) /\ i = UseHere(interpreted)
  OBVIOUS
<1>3. c.at = interpreted /\ c.known = variables /\ c.out = output
  BY <1>2, StateParts
<1>4. IsOfUse(interpreted) /\ ~OnlyWrites(i)
  BY <1>2 DEF ExecuteUse
<1>5. i # 0
  BY <1>1, <1>2, <1>4, UseIsThere
<1>6. CASE Throws("unsupported")
  BY <1>6, ThrowStopsWith
<1>7. CASE ThrowsEvaluating(i)
  BY <1>7, ThrowStops
<1>8. CASE /\ ~(IsValue(i) /\ statementKind[i] = "return") /\ ~Unevaluable(i)
           /\ output' = Append(output, EvaluateExpression(i))
           /\ interpreted' = NextStatement(interpreted)
           /\ UNCHANGED <<variables, exception, truth>>
  <2>1. interpreted' # <<>>
    BY <1>1, <1>2, <1>4, <1>8, UseGoesOn, WalkIsNotEmpty
  <2>2. Evaluates(c, i) /\ IsValue(i) /\ EvaluateExpression(i) = ValueIn(c, i)
    BY <1>3, <1>5, <1>8 DEF Unevaluable, Known, Evaluates, EvaluateExpression, ValueIn
  <2>3. Prints(c, State(interpreted', variables', output'))
    BY <1>2, <1>3, <1>4, <1>5, <1>8, <2>2 DEF Prints
  <2>4. GoesOnInterpreting
    BY <1>2, <1>8, <2>1, <2>3, SameGrows DEF GoesOnInterpreting, Interprets
  <2>5. QED BY <2>4 DEF InterpretsRightly
<1>9. QED BY <1>2, <1>6, <1>7, <1>8 DEF ExecuteUse

\* Functions, classes and blocks.
LEMMA InterpretsBlock ==
  ASSUME IsInterpreted, FilledInv, PassDeclaration \/ ExecuteBlock
  PROVE  InterpretsRightly
<1>1. /\ IInv /\ OwnersInv /\ NumberedOnce /\ BoundedInv
      /\ InterpreterOK(interpreted, variables) /\ PathInv(interpreted[1].scope, interpreted)
  BY InterpretedParts DEF IsInterpreted, InterpreterOK
<1>2. PICK c, b : c = State(interpreted, variables, output) /\ b = BlockHere(interpreted)
  OBVIOUS
<1>3. c.at = interpreted /\ c.known = variables /\ c.out = output
  BY <1>2, StateParts
<1>4. IsOfBlocks(interpreted) /\ BlocksHere(interpreted) # <<>>
  BY DEF PassDeclaration, ExecuteBlock, IsOfBlocks
<1>5. /\ tables[b].owner \in {"function", "class"} =>
           GoesOn(interpreted[1].scope, interpreted, NextStatement(interpreted))
      /\ tables[b].owner \in BlockOwners =>
           GoesOn(interpreted[1].scope, interpreted, EnterBlock(interpreted, b))
  BY <1>1, <1>2, <1>4, BlockGoesOn
<1>6. CASE Throws("unsupported")
  BY <1>6, ThrowStopsWith
<1>7. CASE /\ tables[b].owner = "function" /\ interpreted' = NextStatement(interpreted)
           /\ UNCHANGED <<variables, output, exception, truth>>
  <2>1. interpreted' # <<>>
    BY <1>5, <1>7, WalkIsNotEmpty
  <2>2. Skips(c, State(interpreted', variables', output'))
    BY <1>2, <1>3, <1>4, <1>7 DEF Skips
  <2>3. GoesOnInterpreting
    BY <1>2, <1>7, <2>1, <2>2, SameGrows DEF GoesOnInterpreting, Interprets
  <2>4. QED BY <2>3 DEF InterpretsRightly
<1>8. CASE /\ tables[b].owner \in {"block", "else"} /\ interpreted' = EnterBlock(interpreted, b)
           /\ UNCHANGED <<variables, output, exception, truth>>
  <2>1. interpreted' # <<>>
    BY <1>5, <1>8, WalkIsNotEmpty DEF BlockOwners
  <2>2. Enters(c, State(interpreted', variables', output'))
    BY <1>2, <1>3, <1>4, <1>8 DEF Enters
  <2>3. GoesOnInterpreting
    BY <1>2, <1>8, <2>1, <2>2, SameGrows DEF GoesOnInterpreting, Interprets
  <2>4. QED BY <2>3 DEF InterpretsRightly
<1>9. QED BY <1>2, <1>6, <1>7, <1>8 DEF PassDeclaration, ExecuteBlock

\* A condition.
LEMMA InterpretsCondition ==
  ASSUME IsInterpreted, FilledInv, ExecuteCondition
  PROVE  InterpretsRightly
<1>1. /\ IInv /\ OwnersInv /\ NumberedOnce /\ BoundedInv
      /\ InterpreterOK(interpreted, variables) /\ PathInv(interpreted[1].scope, interpreted)
  BY InterpretedParts DEF IsInterpreted, InterpreterOK
<1>2. PICK c, b, i : /\ c = State(interpreted, variables, output) /\ b = BlockHere(interpreted)
                     /\ i = conditionOf[b]
  OBVIOUS
<1>3. c.at = interpreted /\ c.known = variables /\ c.out = output
  BY <1>2, StateParts
<1>4. /\ IsOfBlocks(interpreted) /\ BlocksHere(interpreted) # <<>> /\ tables[b].owner = "then"
  BY <1>2 DEF ExecuteCondition, IsOfBlocks
<1>5. AfterTrue(interpreted) # <<>> /\ AfterFalse(interpreted) # <<>>
  <2>1. "then" \in BlockOwners
    BY DEF BlockOwners
  <2>2. /\ GoesOn(interpreted[1].scope, interpreted, EnterBlock(interpreted, b))
        /\ GoesOn(interpreted[1].scope, interpreted,
                  IF Here(interpreted).passed + 1 < Len(BlocksHere(interpreted))
                    THEN NextBlock(interpreted) ELSE NextStatement(interpreted))
    BY <1>1, <1>2, <1>4, <2>1, BlockGoesOn
  <2>3. QED BY <1>2, <2>2, WalkIsNotEmpty DEF AfterTrue, AfterFalse
<1>6. CASE ThrowsEvaluating(i)
  BY <1>6, ThrowStops
<1>7. CASE /\ ~Unevaluable(i)
           /\ \E t \in BOOLEAN :
                /\ IsTruth(b, EvaluateExpression(i), t)
                /\ interpreted' = IF t THEN AfterTrue(interpreted) ELSE AfterFalse(interpreted)
                /\ UNCHANGED <<variables, output, exception>>
  <2>1. Evaluates(c, i) /\ EvaluateExpression(i) = ValueIn(c, i)
    BY <1>3, <1>7 DEF Unevaluable, Known, Evaluates, EvaluateExpression, ValueIn
  <2>2. PICK value : value = ValueIn(c, i)
    OBVIOUS
  <2>3. /\ SaysMore(truth, truth') /\ <<b, value>> \in DOMAIN truth'
        /\ interpreted' = IF truth'[<<b, value>>] = TRUE THEN AfterTrue(interpreted)
                          ELSE AfterFalse(interpreted)
        /\ UNCHANGED <<variables, output, exception>>
    <3>1. ASSUME NEW t \in BOOLEAN, IsTruth(b, value, t),
                 interpreted' = IF t THEN AfterTrue(interpreted) ELSE AfterFalse(interpreted)
          PROVE  /\ SaysMore(truth, truth') /\ <<b, value>> \in DOMAIN truth'
                 /\ interpreted' = IF truth'[<<b, value>>] = TRUE THEN AfterTrue(interpreted)
                                   ELSE AfterFalse(interpreted)
      <4>1. /\ SaysMore(truth, truth') /\ <<b, value>> \in DOMAIN truth'
            /\ truth'[<<b, value>>] = TRUE <=> t
        BY <3>1, TruthGrows
      <4>2. QED BY <3>1, <4>1
    <3>2. QED BY <1>7, <2>1, <2>2, <3>1
  <2>4. interpreted' # <<>>
    BY <1>5, <2>3
  <2>5. Condition(c) = <<b, value>>
    BY <1>2, <1>3, <2>2 DEF Condition
  <2>6. Decides(truth', c, State(interpreted', variables', output'))
    BY <1>2, <1>3, <1>4, <2>1, <2>3, <2>5 DEF Decides
  <2>7. GoesOnInterpreting
    BY <1>2, <2>3, <2>4, <2>6 DEF GoesOnInterpreting, Interprets
  <2>8. QED BY <2>7 DEF InterpretsRightly
<1>8. QED BY <1>2, <1>6, <1>7 DEF ExecuteCondition

\* The end of a list.
LEMMA InterpretsEnd ==
  ASSUME IsInterpreted, FilledInv, EndOfBlock
  PROVE  InterpretsRightly
<1>1. /\ IInv /\ OwnersInv /\ NumberedOnce /\ BoundedInv
      /\ InterpreterOK(interpreted, variables) /\ PathInv(interpreted[1].scope, interpreted)
  BY InterpretedParts DEF IsInterpreted, InterpreterOK
<1>2. PICK c : c = State(interpreted, variables, output)
  OBVIOUS
<1>3. c.at = interpreted /\ c.known = variables /\ c.out = output
  BY <1>2, StateParts
<1>4. AtEnd(interpreted) /\ UNCHANGED <<variables, output, exception, truth>>
  BY DEF EndOfBlock
<1>5. CASE Len(interpreted) > 1 /\ interpreted' = Front(interpreted)
  <2>1. Len(interpreted) # 1
    <3>1. PICK m : m = Len(interpreted)
      OBVIOUS
    <3>2. m \in Nat
      BY <1>1, <3>1, PathParts
    <3>3. m > 1
      BY <1>5, <3>1
    <3>4. m # 1
      BY <3>2, <3>3
    <3>5. QED BY <3>1, <3>4
  <2>2. interpreted' # <<>>
    BY <1>1, <1>4, <1>5, <2>1, LeaveGoesOn, WalkIsNotEmpty
  <2>3. Leaves(c, State(interpreted', variables', output'))
    BY <1>3, <1>4, <1>5 DEF Leaves
  <2>4. GoesOnInterpreting
    BY <1>2, <1>4, <2>2, <2>3, SameGrows DEF GoesOnInterpreting, Interprets
  <2>5. QED BY <2>4 DEF InterpretsRightly
<1>6. CASE /\ ~(Len(interpreted) > 1) /\ Here(interpreted).scope = Root
           /\ \E main \in Mains : interpreted' = StartOf(main)
  <2>1. interpreted' # <<>>
    BY <1>6 DEF StartOf
  <2>2. StartsMain(c, State(interpreted', variables', output'))
    BY <1>3, <1>4, <1>6 DEF StartsMain
  <2>3. GoesOnInterpreting
    BY <1>2, <1>4, <2>1, <2>2, SameGrows DEF GoesOnInterpreting, Interprets
  <2>4. QED BY <2>3 DEF InterpretsRightly
<1>7. CASE /\ ~(Len(interpreted) > 1) /\ ~(Here(interpreted).scope = Root /\ Mains # {})
           /\ interpreted' = <<>>
  <2>1. IsFinished(c)
    BY <1>3, <1>4, <1>7 DEF IsFinished
  <2>2. StopsWith(exception)
    BY <1>4, <1>7 DEF StopsWith
  <2>3. QED BY <1>2, <2>1, <2>2 DEF InterpretsRightly
<1>8. QED BY <1>5, <1>6, <1>7 DEF EndOfBlock

\* Every step of the interpreter.
LEMMA InterpreterPasses ==
  ASSUME IsInterpreted, FilledInv, Interpret
  PROVE  InterpretsRightly
BY InterpretsDeclaration, InterpretsAssignment, InterpretsUse, InterpretsBlock,
   InterpretsCondition, InterpretsEnd DEF Interpret

-----------------------------------------------------------------------------
(* Compiled code passes through the same states *)

\* What is stored where the function addresses d is value.
Holds(function, frame, stored, d, value) ==
  IF AddressIn(function, d) = "frame" THEN d \in DOMAIN frame /\ frame[d] = value
  ELSE d \in DOMAIN stored /\ stored[d] = value

\* A global that is a constant has its value until it is declared.
KeepsConstants(known, stored) ==
  \A d \in DOMAIN GlobalConstants : d \in DOMAIN known \/ (d \in DOMAIN stored /\ stored[d] = Zero)

\* Compiled code is where the interpreter was in state c, and knows and has printed the same.
Matches(c, activations, stored, value, out) ==
  /\ value = NoValue /\ out = c.out /\ KeepsConstants(c.known, stored)
  /\ \E a \in Range(activations) :
       /\ activations = <<a>> /\ a.at = c.at
       /\ a.function = NoScope => DOMAIN c.known \subseteq GlobalDeclarations
       /\ \A d \in DOMAIN c.known :
            d.kind # "Function" /\ Holds(a.function, a.frame, stored, d, c.known[d])

IsMatched(c) == IsRun /\ Matches(c, stack, globals, returned, printed)

\* The only activation is the running one.
LEMMA MatchedParts ==
  ASSUME NEW c, IsMatched(c)
  PROVE  /\ stack = <<Activation>> /\ Front(stack) = <<>> /\ At = c.at
         /\ Activation.at = c.at
         /\ Activation = [function |-> Activation.function, at |-> c.at,
                          frame |-> Activation.frame]
         /\ returned = NoValue /\ printed = c.out /\ KeepsConstants(c.known, globals)
         /\ Activation.function = NoScope => DOMAIN c.known \subseteq GlobalDeclarations
         /\ \A d \in DOMAIN c.known :
              /\ d.kind # "Function"
              /\ Holds(Activation.function, Activation.frame, globals, d, c.known[d])
<1>1. PICK a : /\ stack = <<a>> /\ a.at = c.at
               /\ a.function = NoScope => DOMAIN c.known \subseteq GlobalDeclarations
               /\ \A d \in DOMAIN c.known :
                    d.kind # "Function" /\ Holds(a.function, a.frame, globals, d, c.known[d])
  BY DEF IsMatched, Matches
<1>2. Last(stack) = a /\ Front(stack) = <<>>
  <2>1. Len(<<a>>) = 1 /\ <<a>>[1] = a
    OBVIOUS
  <2>2. Last(<<a>>) = a
    BY <2>1 DEF Last
  <2>3. Front(<<a>>) = <<>>
    BY <2>1 DEF Front
  <2>4. QED BY <1>1, <2>2, <2>3
<1>3. Activation = a /\ At = c.at
  BY <1>1, <1>2 DEF Activation, At
<1>4. a = [function |-> a.function, at |-> a.at, frame |-> a.frame]
  BY <1>3, RunningParts DEF IsMatched, ActivationInv
<1>5. returned = NoValue /\ printed = c.out /\ KeepsConstants(c.known, globals)
  BY DEF IsMatched, Matches
<1>6. QED BY <1>1, <1>2, <1>3, <1>4, <1>5

\* A value is the same for both.
LEMMA MatchedValue ==
  ASSUME NEW c, IsMatched(c), NEW i, i = UseNow, Evaluates(c, i)
  PROVE  ~IsCall(i) /\ ValueOf(i) = ValueIn(c, i)
<1>1. ~IsCall(i)
  BY DEF Evaluates, IsCall
<1>2. At = c.at
  BY MatchedParts
<1>3. CASE i = 0
  <2>1. Here(At) = Here(c.at)
    BY <1>2
  <2>2. ValueOf(i) = Written(Here(At)) /\ ValueIn(c, i) = Written(Here(c.at))
    BY <1>3 DEF ValueOf, ValueIn
  <2>3. QED BY <1>1, <2>1, <2>2
<1>4. CASE i # 0
  <2>1. PICK d : d = DefinitionOf(i)
    OBVIOUS
  <2>2. d \in DOMAIN c.known
    BY <1>4, <2>1 DEF Evaluates
  <2>3. d.kind # "Function" /\ Holds(Activation.function, Activation.frame, globals, d, c.known[d])
    BY <2>2, MatchedParts
  <2>4. Load(d) = c.known[d]
    BY <2>3 DEF Holds, Load
  <2>5. ValueOf(i) = Load(d)
    BY <1>1, <1>4, <2>1, <2>3 DEF ValueOf
  <2>6. ValueIn(c, i) = c.known[d]
    BY <1>4, <2>1 DEF ValueIn
  <2>7. QED BY <1>1, <2>4, <2>5, <2>6
<1>5. QED BY <1>1, <1>3, <1>4

\* A stack of one activation, replaced.
LEMMA OneReplaced ==
  ASSUME NEW c, IsMatched(c), NEW a, stack' = Append(Front(stack), a)
  PROVE  stack' = <<a>> /\ a \in Range(stack') /\ stack' # <<>>
<1>1. stack' = <<a>>
  <2>1. Front(stack) = <<>>
    BY MatchedParts
  <2>2. Append(<<>>, a) = <<a>>
    OBVIOUS
  <2>3. QED BY <2>1, <2>2
<1>2. a \in Range(<<a>>)
  BY DEF Range
<1>3. QED BY <1>1, <1>2

\* Both go on.
LEMMA MatchedMove ==
  ASSUME NEW c, IsMatched(c), NEW at, Move(at), UNCHANGED globals, returned' = NoValue,
         NEW out, printed' = out
  PROVE  Matches(State(at, c.known, out), stack', globals', returned', printed') /\ stack' # <<>>
<1>1. PICK a : a = [Activation EXCEPT !.at = at]
  OBVIOUS
<1>2. a = [function |-> Activation.function, at |-> at, frame |-> Activation.frame]
  BY <1>1, MatchedParts
<1>3. stack' = <<a>> /\ a \in Range(stack') /\ stack' # <<>>
  BY <1>1, OneReplaced DEF Move
<1>4. PICK e : e = State(at, c.known, out)
  OBVIOUS
<1>5. e.at = at /\ e.known = c.known /\ e.out = out
  BY <1>4, StateParts
<1>6. a.at = e.at /\ a.function = Activation.function /\ a.frame = Activation.frame
  BY <1>2, <1>5
<1>7. /\ a.function = NoScope => DOMAIN e.known \subseteq GlobalDeclarations
      /\ \A d \in DOMAIN e.known :
           d.kind # "Function" /\ Holds(a.function, a.frame, globals', d, e.known[d])
  BY <1>5, <1>6, MatchedParts
<1>8. KeepsConstants(e.known, globals')
  BY <1>5, MatchedParts DEF KeepsConstants
<1>9. Matches(e, stack', globals', returned', printed')
  BY <1>3, <1>5, <1>6, <1>7, <1>8 DEF Matches
<1>10. QED BY <1>3, <1>4, <1>9

\* A global variable has the same address everywhere.
LEMMA GlobalAddress ==
  ASSUME IInv, OwnersInv, NEW context, IsContext(context), NEW d \in GlobalDeclarations
  PROVE  AddressIn(context, d) = "global"
<1>1. Root \in Scopes /\ tables[Root].owner = "program" /\ ~IsClassScope(Root)
  <2>1. Root \in Scopes
    BY TreeOfInv DEF Tree, IInv, TreeInv, TypeOK, TableTypeOK, Scopes, Root
  <2>2. QED BY <2>1 DEF OwnersInv, IsClassScope
<1>2. PICK n \in Names : tables[Root].symbols[n].kind = "Variable" /\ d = DefinitionIn(n, Root)
  BY DEF GlobalDeclarations, DefinitionsIn
<1>3. Declared(Root, n)
  BY <1>2 DEF Declared, NoSymbol
<1>4. d.kind \in SymbolKinds \ {"Function"}
  <2>1. d.kind = "Variable"
    BY <1>2, DefinitionParts DEF DefinitionIn
  <2>2. QED BY <2>1 DEF SymbolKinds
<1>5. QED BY <1>1, <1>2, <1>3, <1>4, AddressOfVariable

\* Both store a value, and go on.
LEMMA MatchedStore ==
  ASSUME NEW c, IsMatched(c), NEW d, d.kind # "Function", NEW value, StoreAndGoOn(d, value),
         Activation.function = NoScope => d \in GlobalDeclarations,
         returned' = NoValue, UNCHANGED printed
  PROVE  /\ Matches(State(NextStatement(c.at), Put(c.known, d, value), c.out),
                    stack', globals', returned', printed')
         /\ stack' # <<>>
<1>1. PICK f, frame, at : /\ f = Activation.function /\ frame = Activation.frame
                          /\ at = NextStatement(c.at)
  OBVIOUS
<1>2. Activation = [function |-> f, at |-> c.at, frame |-> frame]
  BY <1>1, MatchedParts
<1>3. PICK e : e = State(at, Put(c.known, d, value), c.out)
  OBVIOUS
<1>4. e.at = at /\ e.known = Put(c.known, d, value) /\ e.out = c.out
  BY <1>3, StateParts
<1>5. /\ DOMAIN e.known = DOMAIN c.known \cup {d} /\ e.known[d] = value
      /\ \A x \in DOMAIN c.known : x # d => e.known[x] = c.known[x]
  BY <1>4 DEF Put
<1>6. /\ f = NoScope => DOMAIN c.known \subseteq GlobalDeclarations
      /\ \A x \in DOMAIN c.known : x.kind # "Function" /\ Holds(f, frame, globals, x, c.known[x])
      /\ printed = c.out /\ KeepsConstants(c.known, globals)
  BY <1>1, MatchedParts
<1>7. /\ f = NoScope => DOMAIN e.known \subseteq GlobalDeclarations
      /\ \A x \in DOMAIN e.known : x.kind # "Function"
  BY <1>1, <1>5, <1>6
<1>8. CASE AddressIn(f, d) = "frame"
  <2>1. PICK a : a = [Activation EXCEPT !.frame = Put(@, d, value), !.at = NextStatement(@)]
    OBVIOUS
  <2>2. a = [function |-> f, at |-> at, frame |-> Put(frame, d, value)]
    <3>1. Activation.frame = frame /\ NextStatement(Activation.at) = at
      BY <1>1, <1>2
    <3>2. a = [Activation EXCEPT !.frame = Put(frame, d, value), !.at = at]
      BY <2>1, <3>1
    <3>3. QED BY <1>2, <3>2
  <2>3. stack' = Append(Front(stack), a) /\ globals' = globals
    BY <1>1, <1>8, <2>1 DEF StoreAndGoOn
  <2>4. stack' = <<a>> /\ a \in Range(stack') /\ stack' # <<>>
    BY <2>3, OneReplaced
  <2>5. a.function = f /\ a.at = at /\ a.frame = Put(frame, d, value)
    BY <2>2
  <2>6. \A x \in DOMAIN e.known : Holds(f, a.frame, globals', x, e.known[x])
    <3>1. /\ DOMAIN a.frame = DOMAIN frame \cup {d} /\ a.frame[d] = value
          /\ \A x \in DOMAIN frame : x # d => a.frame[x] = frame[x]
      BY <2>5 DEF Put
    <3>2. Holds(f, a.frame, globals', d, e.known[d])
      BY <1>5, <1>8, <3>1 DEF Holds
    <3>3. \A x \in DOMAIN c.known : x # d => Holds(f, a.frame, globals', x, e.known[x])
      BY <1>5, <1>6, <2>3, <3>1 DEF Holds
    <3>4. QED BY <1>5, <3>2, <3>3
  <2>7. KeepsConstants(e.known, globals')
    BY <1>5, <1>6, <2>3 DEF KeepsConstants
  <2>8. Matches(e, stack', globals', returned', printed')
    BY <1>4, <1>6, <1>7, <2>4, <2>5, <2>6, <2>7 DEF Matches
  <2>9. QED BY <1>1, <1>3, <2>4, <2>8
<1>9. CASE AddressIn(f, d) # "frame"
  <2>1. PICK a : a = [Activation EXCEPT !.at = NextStatement(@)]
    OBVIOUS
  <2>2. a = [function |-> f, at |-> at, frame |-> frame]
    <3>1. NextStatement(Activation.at) = at
      BY <1>1, <1>2
    <3>2. a = [Activation EXCEPT !.at = at]
      BY <2>1, <3>1
    <3>3. QED BY <1>2, <3>2
  <2>3. stack' = Append(Front(stack), a) /\ globals' = Put(globals, d, value)
    BY <1>1, <1>9, <2>1 DEF StoreAndGoOn
  <2>4. stack' = <<a>> /\ a \in Range(stack') /\ stack' # <<>>
    BY <2>3, OneReplaced
  <2>5. a.function = f /\ a.at = at /\ a.frame = frame
    BY <2>2
  <2>6. \A x \in DOMAIN e.known : Holds(f, a.frame, globals', x, e.known[x])
    <3>1. /\ DOMAIN globals' = DOMAIN globals \cup {d} /\ globals'[d] = value
          /\ \A x \in DOMAIN globals : x # d => globals'[x] = globals[x]
      BY <2>3 DEF Put
    <3>2. Holds(f, a.frame, globals', d, e.known[d])
      BY <1>5, <1>9, <3>1 DEF Holds
    <3>3. \A x \in DOMAIN c.known : x # d => Holds(f, a.frame, globals', x, e.known[x])
      BY <1>5, <1>6, <2>5, <3>1 DEF Holds
    <3>4. QED BY <1>5, <3>2, <3>3
  <2>7. KeepsConstants(e.known, globals')
    BY <1>5, <1>6, <2>3 DEF KeepsConstants, Put
  <2>8. Matches(e, stack', globals', returned', printed')
    BY <1>4, <1>6, <1>7, <2>4, <2>5, <2>6, <2>7 DEF Matches
  <2>9. QED BY <1>1, <1>3, <2>4, <2>8
<1>10. QED BY <1>8, <1>9

\* The interpreter declares what is left alone, and both go on.
LEMMA MatchedConstant ==
  ASSUME NEW c, IsMatched(c), NEW d, IsLeftAlone(d), d \notin DOMAIN c.known, d.kind # "Function",
         Move(NextStatement(c.at)), UNCHANGED globals, returned' = NoValue, UNCHANGED printed
  PROVE  /\ Matches(State(NextStatement(c.at), Put(c.known, d, Zero), c.out),
                    stack', globals', returned', printed')
         /\ stack' # <<>>
<1>1. PICK f, frame, at : /\ f = Activation.function /\ frame = Activation.frame
                          /\ at = NextStatement(c.at)
  OBVIOUS
<1>2. PICK a : a = [Activation EXCEPT !.at = at]
  OBVIOUS
<1>3. a = [function |-> f, at |-> at, frame |-> frame]
  BY <1>1, <1>2, MatchedParts
<1>4. stack' = <<a>> /\ a \in Range(stack') /\ stack' # <<>>
  BY <1>1, <1>2, OneReplaced DEF Move
<1>5. PICK e : e = State(at, Put(c.known, d, Zero), c.out)
  OBVIOUS
<1>6. e.at = at /\ e.known = Put(c.known, d, Zero) /\ e.out = c.out
  BY <1>5, StateParts
<1>7. /\ DOMAIN e.known = DOMAIN c.known \cup {d} /\ e.known[d] = Zero
      /\ \A x \in DOMAIN c.known : x # d => e.known[x] = c.known[x]
  BY <1>6 DEF Put
<1>8. /\ f = NoScope => DOMAIN c.known \subseteq GlobalDeclarations
      /\ \A x \in DOMAIN c.known : x.kind # "Function" /\ Holds(f, frame, globals, x, c.known[x])
      /\ printed = c.out /\ KeepsConstants(c.known, globals)
  BY <1>1, MatchedParts
<1>9. /\ d \in DOMAIN GlobalConstants /\ d \in GlobalDeclarations
      /\ d \in DOMAIN globals /\ globals[d] = Zero
  BY <1>8 DEF IsLeftAlone, KeepsConstants, GlobalConstants
<1>10. AddressIn(f, d) = "global"
  <2>1. IInv /\ OwnersInv /\ IsContext(f)
    BY <1>1, RunParts, RunningParts DEF IsMatched
  <2>2. QED BY <1>9, <2>1, GlobalAddress
<1>11. a.at = e.at /\ a.function = f /\ a.frame = frame
  BY <1>3, <1>6
<1>12. /\ a.function = NoScope => DOMAIN e.known \subseteq GlobalDeclarations
       /\ \A x \in DOMAIN e.known :
            x.kind # "Function" /\ Holds(a.function, a.frame, globals', x, e.known[x])
  <2>1. Holds(f, frame, globals, d, e.known[d])
    BY <1>7, <1>9, <1>10 DEF Holds
  <2>2. QED BY <1>7, <1>8, <1>9, <1>11, <2>1
<1>13. KeepsConstants(e.known, globals')
  BY <1>7, <1>8 DEF KeepsConstants
<1>14. Matches(e, stack', globals', returned', printed')
  BY <1>4, <1>6, <1>8, <1>11, <1>12, <1>13 DEF Matches
<1>15. QED BY <1>1, <1>4, <1>5, <1>14

\* What compiled code is at when it is where the interpreter was.
LEMMA MatchedPlace ==
  ASSUME NEW c, IsMatched(c)
  PROVE  /\ IInv /\ OwnersInv /\ NumberedOnce /\ ConditionsInv
         /\ PathInv(Body, c.at) /\ Here(c.at).scope \in Scopes
         /\ Activation.function = NoScope => Here(c.at).scope = Root
         /\ AtEnd(c.at) => UseNow = 0
         /\ IsOfBlocks(c.at) => UseNow = conditionOf[BlockHere(c.at)] /\ ~IsOfDeclaration(c.at)
         /\ IsOfDeclaration(c.at) \/ IsOfUse(c.at) => UseNow = UseHere(c.at)
<1>1. IsRun /\ At = c.at
  BY MatchedParts DEF IsMatched
<1>2. /\ IInv /\ OwnersInv /\ NumberedOnce /\ ConditionsInv /\ PathInv(Body, c.at)
      /\ Activation.function = NoScope => Here(c.at).scope = Root
  BY <1>1, RunParts, RunningParts
<1>3. Here(c.at).scope \in Scopes
  BY <1>2, PathParts
<1>4. BlocksHere(c.at) # <<>> => DeclaredHere(c.at) = {}
  <2>1. BlocksHere(c.at) # <<>> => Anchored(Here(c.at).scope, Here(c.at).id) # {}
    BY <1>2, BlockParts
  <2>2. QED BY <1>2, <1>3, <2>1, BlocksDeclareNothing DEF DeclaredHere
<1>5. UseNow = IF AtEnd(c.at) THEN 0
               ELSE IF BlocksHere(c.at) = <<>> THEN UseHere(c.at)
               ELSE conditionOf[BlockHere(c.at)]
  BY <1>1 DEF UseNow, UseOf
<1>6. QED BY <1>2, <1>3, <1>4, <1>5 DEF IsOfBlocks, IsOfDeclaration, IsOfUse

\* Which step it takes.
LEMMA MatchedRun ==
  ASSUME NEW c, IsMatched(c), Run, ~IsCall(UseNow)
  PROVE  /\ IsOfDeclaration(c.at) => RunDeclaration
         /\ IsOfUse(c.at) => RunAssignment \/ RunUse \/ RunReturn
         /\ IsOfBlocks(c.at) => RunBlock \/ RunCondition
         /\ AtEnd(c.at) => RunEnd
<1>1. At = c.at /\ (IsOfBlocks(c.at) => ~IsOfDeclaration(c.at))
  BY MatchedParts, MatchedPlace
<1>2. /\ RunDeclaration => IsOfDeclaration(c.at)
      /\ RunAssignment \/ RunUse \/ RunReturn => IsOfUse(c.at)
      /\ RunBlock \/ RunCondition => IsOfBlocks(c.at)
      /\ RunEnd => AtEnd(c.at)
      /\ ~Call
  BY <1>1 DEF RunDeclaration, RunAssignment, RunUse, RunReturn, RunBlock, RunCondition, RunEnd, Call
<1>3. /\ IsOfDeclaration(c.at) => ~IsOfUse(c.at) /\ ~IsOfBlocks(c.at) /\ ~AtEnd(c.at)
      /\ IsOfUse(c.at) => ~IsOfBlocks(c.at) /\ ~AtEnd(c.at)
      /\ IsOfBlocks(c.at) => ~AtEnd(c.at)
  BY <1>1 DEF IsOfDeclaration, IsOfUse, IsOfBlocks
<1>4. QED BY <1>2, <1>3 DEF Run

\* Compiled code comes to the state e.
Follows(e) ==
  Matches(e, stack', globals', returned', printed') /\ stack' # <<>> /\ SaysMore(truth, truth')

\* A declaration.
LEMMA FollowsDeclaration ==
  ASSUME NEW c, IsMatched(c), NEW e, Declares(c, e), Run
  PROVE  Follows(e)
<1>1. IsOfDeclaration(c.at) /\ UseNow = UseHere(c.at) /\ Evaluates(c, UseNow)
  BY MatchedPlace DEF Declares
<1>2. ~IsCall(UseNow) /\ ValueOf(UseNow) = ValueIn(c, UseNow)
  BY <1>1, MatchedValue
<1>3. RunDeclaration
  BY <1>1, <1>2, MatchedRun
<1>4. PICK n \in DeclaredHere(c.at) :
        /\ DeclaredBy(c, n) \notin DOMAIN c.known
        /\ e = State(NextStatement(c.at), Put(c.known, DeclaredBy(c, n), DeclaredWith(c, n)), c.out)
  BY DEF Declares
<1>5. PICK s, d, value : /\ s = Here(c.at).scope /\ d = DefinitionIn(n, s)
                         /\ value = IF HasDefault(d) THEN Zero ELSE ValueIn(c, UseHere(c.at))
  OBVIOUS
<1>6. /\ IInv /\ OwnersInv /\ NumberedOnce /\ s \in Scopes
      /\ Activation.function = NoScope => s = Root
  BY <1>5, MatchedPlace
<1>7. DeclaredHere(c.at) = {n} /\ n \in Names /\ d.kind = "Variable" /\ Declared(s, n)
  <2>1. DeclaredHere(c.at) = DeclaredAt(s, Here(c.at).id)
    BY <1>5 DEF DeclaredHere
  <2>2. /\ DeclaredAt(s, Here(c.at).id) = {n} /\ n \in Names
        /\ tables[s].symbols[n].kind = "Variable" /\ Declared(s, n)
    BY <1>6, <2>1, DeclarationParts
  <2>3. d.kind = "Variable"
    BY <1>5, <2>2, DefinitionParts DEF DefinitionIn
  <2>4. QED BY <2>1, <2>2, <2>3
<1>8. Activation.function = NoScope => d \in GlobalDeclarations
  <2>1. IsContext(NoScope)
    BY DEF IsContext
  <2>2. QED BY <1>5, <1>6, <1>7, <2>1, InStorage
<1>9. /\ IF IsLeftAlone(d) THEN Move(NextStatement(c.at)) /\ UNCHANGED globals
         ELSE StoreAndGoOn(d, value)
      /\ returned' = NoValue /\ UNCHANGED printed /\ truth' = truth
  <2>1. At = c.at
    BY MatchedParts
  <2>2. PICK m \in DeclaredHere(c.at) :
          LET x == DefinitionIn(m, s)
          IN  IF IsLeftAlone(x) THEN Move(NextStatement(c.at)) /\ UNCHANGED globals
              ELSE StoreAndGoOn(x, IF HasDefault(x) THEN Zero ELSE ValueOf(UseNow))
    BY <1>3, <1>5, <2>1 DEF RunDeclaration
  <2>3. m = n /\ ValueOf(UseNow) = ValueIn(c, UseHere(c.at))
    BY <1>1, <1>2, <1>7
  <2>4. IF IsLeftAlone(d) THEN Move(NextStatement(c.at)) /\ UNCHANGED globals
        ELSE StoreAndGoOn(d, value)
    BY <1>5, <2>2, <2>3
  <2>5. QED BY <1>3, <2>4 DEF RunDeclaration
<1>10. e = State(NextStatement(c.at), Put(c.known, d, value), c.out) /\ d \notin DOMAIN c.known
  BY <1>4, <1>5 DEF DeclaredBy, DeclaredWith
<1>11. Matches(e, stack', globals', returned', printed') /\ stack' # <<>>
  <2>1. CASE IsLeftAlone(d)
    <3>1. value = Zero
      BY <1>5, <2>1 DEF IsLeftAlone, GlobalConstants
    <3>2. QED BY <1>7, <1>9, <1>10, <2>1, <3>1, MatchedConstant
  <2>2. CASE ~IsLeftAlone(d)
    BY <1>7, <1>8, <1>9, <1>10, <2>2, MatchedStore
  <2>3. QED BY <2>1, <2>2
<1>12. QED BY <1>9, <1>11, SameGrows DEF Follows

\* An assignment.
LEMMA FollowsAssignment ==
  ASSUME NEW c, IsMatched(c), NEW e, Assigns(c, e), Run
  PROVE  Follows(e)
<1>1. PICK i, d, value : /\ i = UseHere(c.at) /\ d = DefinitionOf(i)
                         /\ value = Written(Here(c.at))
  OBVIOUS
<1>2. /\ IsOfUse(c.at) /\ UseNow = i /\ OnlyWrites(i) /\ d \in DOMAIN c.known
      /\ e = State(NextStatement(c.at), Put(c.known, d, value), c.out)
  BY <1>1, MatchedPlace DEF Assigns
<1>3. ~IsCall(UseNow) /\ statementKind[i] = "assign"
  BY <1>2 DEF OnlyWrites, ValueStatements, IsCall
<1>4. RunAssignment
  BY <1>2, <1>3, MatchedRun DEF RunUse, RunReturn
<1>5. /\ StoreAndGoOn(d, value) /\ returned' = returned /\ UNCHANGED printed /\ truth' = truth
  <2>1. At = c.at
    BY MatchedParts
  <2>2. QED BY <1>1, <1>2, <1>4, <2>1 DEF RunAssignment
<1>6. /\ d.kind # "Function" /\ returned = NoValue
      /\ Activation.function = NoScope => d \in GlobalDeclarations
  BY <1>2, MatchedParts
<1>7. Matches(e, stack', globals', returned', printed') /\ stack' # <<>>
  BY <1>1, <1>2, <1>5, <1>6, MatchedStore
<1>8. QED BY <1>5, <1>7, SameGrows DEF Follows

\* A print.
LEMMA FollowsPrint ==
  ASSUME NEW c, IsMatched(c), NEW e, Prints(c, e), Run
  PROVE  Follows(e)
<1>1. PICK i : i = UseHere(c.at)
  OBVIOUS
<1>2. /\ IsOfUse(c.at) /\ UseNow = i /\ ~OnlyWrites(i) /\ i # 0 /\ Evaluates(c, i) /\ IsValue(i)
      /\ statementKind[i] # "return"
      /\ e = State(NextStatement(c.at), c.known, Append(c.out, ValueIn(c, i)))
  BY <1>1, MatchedPlace DEF Prints, Evaluates
<1>3. ~IsCall(UseNow) /\ ValueOf(UseNow) = ValueIn(c, i)
  BY <1>2, MatchedValue
<1>4. RunUse
  BY <1>2, <1>3, MatchedRun DEF RunAssignment, RunReturn
<1>5. /\ Move(NextStatement(c.at)) /\ UNCHANGED globals /\ returned' = NoValue /\ truth' = truth
      /\ printed' = Append(c.out, ValueIn(c, i))
  BY <1>2, <1>3, <1>4, MatchedParts DEF RunUse
<1>6. Matches(e, stack', globals', returned', printed') /\ stack' # <<>>
  BY <1>2, <1>5, MatchedMove
<1>7. QED BY <1>5, <1>6, SameGrows DEF Follows

\* A declaration of a function, or a block.
LEMMA FollowsBlock ==
  ASSUME FilledInv, NEW c, IsMatched(c), NEW e, Skips(c, e) \/ Enters(c, e), Run
  PROVE  Follows(e)
<1>1. PICK t : t = BlockHere(c.at)
  OBVIOUS
<1>2. /\ IsOfBlocks(c.at) /\ tables[t].owner \in {"function", "block", "else"}
      /\ UseNow = conditionOf[t]
  BY <1>1, MatchedPlace DEF Skips, Enters
<1>3. t \in Scopes
  BY <1>1, <1>2, MatchedPlace, BlockParts DEF IsOfBlocks
<1>4. UseNow = 0
  BY <1>2, <1>3 DEF FilledInv
<1>5. RunBlock
  BY <1>1, <1>2, <1>4, MatchedRun, MatchedParts DEF RunCondition, IsCall
<1>6. PICK at : at = IF tables[t].owner \in {"function", "class"}
                       THEN NextStatement(c.at) ELSE EnterBlock(c.at, t)
  OBVIOUS
<1>7. /\ Move(at) /\ UNCHANGED globals /\ returned' = NoValue /\ truth' = truth
      /\ printed' = c.out
  BY <1>1, <1>5, <1>6, MatchedParts DEF RunBlock
<1>8. e = State(at, c.known, c.out)
  BY <1>1, <1>6 DEF Skips, Enters
<1>9. Matches(e, stack', globals', returned', printed') /\ stack' # <<>>
  BY <1>7, <1>8, MatchedMove
<1>10. QED BY <1>7, <1>9, SameGrows DEF Follows

\* A condition, which the interpreter decided before.
LEMMA FollowsCondition ==
  ASSUME NEW c, IsMatched(c), NEW e, Decides(truth, c, e), Run
  PROVE  Follows(e)
<1>1. PICK t, i : t = BlockHere(c.at) /\ i = conditionOf[t]
  OBVIOUS
<1>2. IsOfBlocks(c.at) /\ tables[t].owner = "then" /\ UseNow = i /\ Evaluates(c, i)
  BY <1>1, MatchedPlace DEF Decides
<1>3. ~IsCall(UseNow) /\ ValueOf(UseNow) = ValueIn(c, i)
  BY <1>2, MatchedValue
<1>4. RunCondition
  BY <1>1, <1>2, <1>3, MatchedRun, MatchedParts DEF RunBlock
<1>5. PICK key : key = <<t, ValueIn(c, i)>>
  OBVIOUS
<1>6. /\ key \in DOMAIN truth
      /\ e = State(IF truth[key] = TRUE THEN AfterTrue(c.at) ELSE AfterFalse(c.at),
                   c.known, c.out)
  BY <1>1, <1>5 DEF Decides, Condition
<1>7. PICK b \in BOOLEAN :
        /\ IsTruth(t, ValueIn(c, i), b)
        /\ Move(IF b THEN AfterTrue(c.at) ELSE AfterFalse(c.at))
  <2>1. At = c.at
    BY MatchedParts
  <2>2. \E b \in BOOLEAN :
          /\ IsTruth(t, ValueIn(c, i), b)
          /\ Move(IF b THEN EnterBlock(c.at, t)
                  ELSE IF Here(c.at).passed + 1 < Len(BlocksHere(c.at)) THEN NextBlock(c.at)
                  ELSE NextStatement(c.at))
    BY <1>1, <1>2, <1>3, <1>4, <2>1 DEF RunCondition
  <2>3. QED BY <1>1, <2>2 DEF AfterTrue, AfterFalse
<1>8. truth' = truth /\ b = truth[key]
  BY <1>5, <1>6, <1>7 DEF IsTruth
<1>9. PICK at : at = IF b THEN AfterTrue(c.at) ELSE AfterFalse(c.at)
  OBVIOUS
<1>10. Move(at) /\ e = State(at, c.known, c.out)
  BY <1>6, <1>7, <1>8, <1>9
<1>11. UNCHANGED globals /\ returned' = NoValue /\ printed' = c.out
  BY <1>4, MatchedParts DEF RunCondition
<1>12. Matches(e, stack', globals', returned', printed') /\ stack' # <<>>
  BY <1>10, <1>11, MatchedMove
<1>13. QED BY <1>8, <1>12, SameGrows DEF Follows

\* The end of a block.
LEMMA FollowsLeaving ==
  ASSUME NEW c, IsMatched(c), NEW e, Leaves(c, e), Run
  PROVE  Follows(e)
<1>1. AtEnd(c.at) /\ Len(c.at) > 1 /\ e = State(Front(c.at), c.known, c.out) /\ UseNow = 0
  BY MatchedPlace DEF Leaves
<1>2. RunEnd
  BY <1>1, MatchedRun DEF IsCall
<1>3. /\ Move(Front(c.at)) /\ UNCHANGED globals /\ returned' = NoValue /\ truth' = truth
      /\ printed' = c.out
  BY <1>1, <1>2, MatchedParts DEF RunEnd
<1>4. Matches(e, stack', globals', returned', printed') /\ stack' # <<>>
  BY <1>1, <1>3, MatchedMove
<1>5. QED BY <1>3, <1>4, SameGrows DEF Follows

\* After the program main is next.
LEMMA FollowsToMain ==
  ASSUME FilledInv, NEW c, IsMatched(c), NEW e, StartsMain(c, e), Run
  PROVE  Follows(e)
<1>1. PICK main \in Mains : e = State(StartOf(main), c.known, c.out)
  BY DEF StartsMain
<1>2. AtEnd(c.at) /\ ~(Len(c.at) > 1) /\ Here(c.at).scope = Root /\ UseNow = 0
  BY MatchedPlace DEF StartsMain
<1>3. RunEnd
  BY <1>2, MatchedRun DEF IsCall
<1>4. /\ At = c.at /\ returned = NoValue /\ printed = c.out
      /\ Activation.function = NoScope => DOMAIN c.known \subseteq GlobalDeclarations
      /\ \A d \in DOMAIN c.known :
           /\ d.kind # "Function"
           /\ Holds(Activation.function, Activation.frame, globals, d, c.known[d])
  BY MatchedParts
<1>5. /\ IInv /\ TextInv /\ OwnersInv /\ NumberedOnce /\ PathInv(Body, c.at)
      /\ ActivationInv(Activation)
  BY RunningParts, MatchedPlace DEF IsMatched, IsRun, SInv
<1>6. Root \in Scopes /\ tables[Root].owner = "program" /\ ~IsClassScope(Root)
  <2>1. Root \in Scopes
    BY <1>5, TreeOfInv DEF Tree, IInv, TreeInv, TypeOK, TableTypeOK, Scopes, Root
  <2>2. QED BY <1>5, <2>1 DEF OwnersInv, IsClassScope
<1>7. Activation.function = NoScope
  <2>1. Len(c.at) = 1 /\ Here(c.at) = c.at[Len(c.at)]
    <3>1. PICK m : m = Len(c.at)
      OBVIOUS
    <3>2. m \in Nat \ {0} /\ ~(m > 1)
      BY <1>2, <1>5, <3>1, PathParts
    <3>3. m = 1
      BY <3>2
    <3>4. QED BY <1>5, <3>1, <3>3, PathParts
  <2>2. Body = Root
    BY <1>2, <1>5, <2>1 DEF PathInv
  <2>3. QED BY <1>5, <1>6, <2>2 DEF Body, ActivationInv
<1>8. /\ main \in Scopes /\ tables[main].owner = "function" /\ tables[main].parent = Root
      /\ main # NoScope /\ IsContext(main) /\ IsContext(NoScope)
  BY DEF Mains, Scopes, NoScope, IsContext
<1>9. PICK a : a = Activate(main)
  OBVIOUS
<1>10. a.function = main /\ a.at = StartOf(main)
  BY <1>9 DEF Activate
<1>11. /\ stack' = <<a>> /\ UNCHANGED globals /\ returned' = NoValue /\ truth' = truth
       /\ printed' = c.out
  <2>1. /\ \E m \in Mains : stack' = <<Activate(m)>>
        /\ UNCHANGED <<globals, returned, printed, truth>>
    BY <1>2, <1>3, <1>4, <1>7 DEF RunEnd
  <2>2. \A m \in Mains : m = main
    BY <1>5, OneMain
  <2>3. QED BY <1>4, <1>9, <2>1, <2>2
<1>12. PICK f, at : f = e /\ at = StartOf(main)
  OBVIOUS
<1>13. f.at = at /\ f.known = c.known /\ f.out = c.out
  BY <1>1, <1>12, StateParts
<1>14. \A d \in DOMAIN c.known : d.kind # "Function" /\ Holds(main, a.frame, globals, d, c.known[d])
  <2>1. TAKE d \in DOMAIN c.known
  <2>2. AddressIn(main, d) = "global" /\ AddressIn(NoScope, d) = "global"
    BY <1>4, <1>5, <1>7, <1>8, GlobalAddress
  <2>3. QED BY <1>4, <1>7, <2>2 DEF Holds
<1>15. Matches(f, stack', globals', returned', printed') /\ stack' # <<>>
  <2>1. a \in Range(stack') /\ stack' # <<>>
    <3>1. a \in Range(<<a>>) /\ <<a>> # <<>>
      BY DEF Range
    <3>2. QED BY <1>11, <3>1
  <2>2. a.function # NoScope
    BY <1>8, <1>10
  <2>3. \A d \in DOMAIN f.known :
          d.kind # "Function" /\ Holds(a.function, a.frame, globals', d, f.known[d])
    BY <1>10, <1>11, <1>13, <1>14
  <2>4. KeepsConstants(f.known, globals')
    BY <1>11, <1>13, MatchedParts DEF KeepsConstants
  <2>5. QED BY <1>10, <1>11, <1>12, <1>13, <2>1, <2>2, <2>3, <2>4 DEF Matches
<1>16. QED BY <1>11, <1>12, <1>15, SameGrows DEF Follows

\* Compiled code does what the interpreter did.
LEMMA RunFollows ==
  ASSUME FilledInv, NEW c, IsMatched(c), NEW e, Interprets(truth, c, e), Run
  PROVE  Follows(e)
BY FollowsDeclaration, FollowsAssignment, FollowsPrint, FollowsBlock, FollowsCondition,
   FollowsLeaving, FollowsToMain DEF Interprets

\* It ends where the interpreter did.
LEMMA RunFinishes ==
  ASSUME NEW c, IsMatched(c), IsFinished(c), Mains # {}, Run
  PROVE  stack' = <<>> /\ printed' = printed /\ truth' = truth
<1>1. AtEnd(c.at) /\ ~(Len(c.at) > 1) /\ Here(c.at).scope # Root /\ UseNow = 0
  BY MatchedPlace DEF IsFinished
<1>2. RunEnd
  BY <1>1, MatchedRun DEF IsCall
<1>3. Activation.function # NoScope
  BY <1>1, MatchedPlace
<1>4. At = c.at /\ Front(stack) = <<>>
  BY MatchedParts
<1>5. QED BY <1>1, <1>2, <1>3, <1>4 DEF RunEnd, Returns

\* A step of compiled code prints at most a value, and does not forget conditions.
LEMMA RunPrints ==
  ASSUME Run
  PROVE  /\ printed' = printed \/ \E x : printed' = Append(printed, x)
         /\ SaysMore(truth, truth')
<1>1. CASE RunCondition
  <2>1. PICK b \in BOOLEAN : IsTruth(BlockHere(At), ValueOf(UseNow), b)
    BY <1>1 DEF RunCondition
  <2>2. SaysMore(truth, truth') /\ printed' = printed
    BY <1>1, <2>1, TruthGrows DEF RunCondition
  <2>3. QED BY <2>2
<1>2. CASE RunUse
  <2>1. printed' = printed \/ \E x : printed' = Append(printed, x)
    BY <1>2 DEF RunUse
  <2>2. QED BY <1>2, <2>1, SameGrows DEF RunUse
<1>3. CASE Call \/ RunDeclaration \/ RunAssignment \/ RunReturn \/ RunBlock \/ RunEnd
  <2>1. printed' = printed /\ truth' = truth
    BY <1>3 DEF Call, RunDeclaration, RunAssignment, RunReturn, RunBlock, RunEnd, Returns
  <2>2. QED BY <2>1, SameGrows
<1>4. QED BY <1>1, <1>2, <1>3 DEF Run

-----------------------------------------------------------------------------
(* What does not change when the program is executed *)

\* The statements of the program.
LEMMA SameStatements ==
  ASSUME UNCHANGED <<vars, conditionOf, statementKind, defaulted>>
  PROVE  /\ UNCHANGED <<tables, anchors, uses, resolved, conditionOf, statementKind, defaulted>>
         /\ Mains' = Mains /\ ValueStatements' = ValueStatements
         /\ \A at : /\ DeclaredHere(at)' = DeclaredHere(at) /\ UseHere(at)' = UseHere(at)
                    /\ BlocksHere(at)' = BlocksHere(at) /\ (AtEnd(at)' <=> AtEnd(at))
<1>1. /\ UNCHANGED <<tables, anchors, uses, resolved, conditionOf, statementKind, defaulted>>
      /\ Scopes' = Scopes
  BY DEF vars, numVars, classVars, tableVars, builderVars, resolverVars, Scopes
<1>2. Mains' = Mains /\ ValueStatements' = ValueStatements
  BY <1>1 DEF Mains, ValueStatements, IsValue, IsStatement, DeclaredAt, ScopesAt, Anchored
<1>3. /\ \A s, id : /\ DeclaredAt(s, id)' = DeclaredAt(s, id)
                    /\ ScopesAt(s, id)' = ScopesAt(s, id)
                    /\ UseAt(s, id)' = UseAt(s, id)
      /\ \A s : LastStatement(s)' = LastStatement(s)
  <2>1. \A s, id : DeclaredAt(s, id)' = DeclaredAt(s, id)
    BY <1>1 DEF DeclaredAt
  <2>2. \A s, id : ScopesAt(s, id)' = ScopesAt(s, id)
    BY <1>1 DEF ScopesAt, Anchored
  <2>3. \A s, id : UseAt(s, id)' = UseAt(s, id)
    BY <1>1 DEF UseAt, UsesAt
  <2>4. \A s : LastStatement(s)' = LastStatement(s)
    BY <1>1 DEF LastStatement
  <2>5. QED BY <2>1, <2>2, <2>3, <2>4
<1>4. \A at : /\ DeclaredHere(at)' = DeclaredHere(at) /\ UseHere(at)' = UseHere(at)
              /\ BlocksHere(at)' = BlocksHere(at)
  BY <1>3 DEF DeclaredHere, UseHere, BlocksHere, Here
<1>5. \A at : AtEnd(at)' <=> AtEnd(at)
  BY <1>3 DEF AtEnd, Here
<1>6. QED BY <1>1, <1>2, <1>4, <1>5

\* What the interpreter passed through.
LEMMA SamePasses ==
  ASSUME UNCHANGED <<vars, conditionOf, statementKind, defaulted>>
  PROVE  \A tr, S, last : Passes(tr, S, last) => Passes(tr, S, last)'
<1>1. /\ UNCHANGED <<tables, anchors, uses, resolved, conditionOf, statementKind, defaulted>>
      /\ Mains' = Mains /\ ValueStatements' = ValueStatements
      /\ \A at : /\ DeclaredHere(at)' = DeclaredHere(at) /\ UseHere(at)' = UseHere(at)
                 /\ BlocksHere(at)' = BlocksHere(at) /\ (AtEnd(at)' <=> AtEnd(at))
  BY SameStatements
<1>2. \A at : /\ BlockHere(at)' = BlockHere(at)
              /\ IsOfDeclaration(at)' <=> IsOfDeclaration(at)
              /\ IsOfUse(at)' <=> IsOfUse(at)
              /\ IsOfBlocks(at)' <=> IsOfBlocks(at)
  <2>1. \A at : BlockHere(at)' = BlockHere(at)
    BY <1>1 DEF BlockHere, Here
  <2>2. \A at : IsOfDeclaration(at)' <=> IsOfDeclaration(at)
    BY <1>1 DEF IsOfDeclaration
  <2>3. \A at : IsOfUse(at)' <=> IsOfUse(at)
    BY <1>1 DEF IsOfUse
  <2>4. \A at : IsOfBlocks(at)' <=> IsOfBlocks(at)
    BY <1>1 DEF IsOfBlocks
  <2>5. QED BY <2>1, <2>2, <2>3, <2>4
<1>3. \A c : Evaluates(c, UseHere(c.at))' <=> Evaluates(c, UseHere(c.at))
  BY <1>1 DEF Evaluates, IsValue, DefinitionOf, Definition
<1>4. \A c : ValueIn(c, UseHere(c.at))' = ValueIn(c, UseHere(c.at))
  BY <1>1 DEF ValueIn, DefinitionOf, Definition, Written, Here
<1>5. \A c, e : Declares(c, e) => Declares(c, e)'
  <2>1. \A c, n : DeclaredBy(c, n)' = DeclaredBy(c, n)
    BY <1>1 DEF DeclaredBy, DefinitionIn, Definition, Here
  <2>2. \A c, n : DeclaredWith(c, n)' = DeclaredWith(c, n)
    <3>1. \A c, n : HasDefault(DeclaredBy(c, n))' <=> HasDefault(DeclaredBy(c, n))
      BY <1>1, <2>1 DEF HasDefault, IsOfClass
    <3>2. QED BY <1>4, <3>1 DEF DeclaredWith, Zero
  <2>3. \A c, n : Put(c.known, DeclaredBy(c, n), DeclaredWith(c, n))'
                   = Put(c.known, DeclaredBy(c, n), DeclaredWith(c, n))
    BY <2>1, <2>2 DEF Put
  <2>4. \A c, n :
          State(NextStatement(c.at), Put(c.known, DeclaredBy(c, n), DeclaredWith(c, n)), c.out)'
            = State(NextStatement(c.at), Put(c.known, DeclaredBy(c, n), DeclaredWith(c, n)), c.out)
    BY <2>3 DEF State, NextStatement, Here
  <2>5. QED BY <1>1, <1>2, <1>3, <2>1, <2>4 DEF Declares
<1>6. \A c, e : Assigns(c, e) => Assigns(c, e)'
  <2>1. \A c : DefinitionOf(UseHere(c.at))' = DefinitionOf(UseHere(c.at))
    BY <1>1 DEF DefinitionOf, Definition
  <2>2. \A c : Put(c.known, DefinitionOf(UseHere(c.at)), Written(Here(c.at)))'
                = Put(c.known, DefinitionOf(UseHere(c.at)), Written(Here(c.at)))
    BY <2>1 DEF Put, Written, Here
  <2>3. \A c :
          State(NextStatement(c.at),
                Put(c.known, DefinitionOf(UseHere(c.at)), Written(Here(c.at))), c.out)'
            = State(NextStatement(c.at),
                    Put(c.known, DefinitionOf(UseHere(c.at)), Written(Here(c.at))), c.out)
    BY <2>2 DEF State, NextStatement, Here
  <2>4. \A c : OnlyWrites(UseHere(c.at))' <=> OnlyWrites(UseHere(c.at))
    BY <1>1 DEF OnlyWrites
  <2>5. QED BY <1>1, <1>2, <2>1, <2>3, <2>4 DEF Assigns
<1>7. \A c, e : Prints(c, e) => Prints(c, e)'
  BY <1>1, <1>2, <1>3, <1>4 DEF Prints, OnlyWrites, State, NextStatement, Here
<1>8. \A c, e : Skips(c, e) \/ Enters(c, e) => (Skips(c, e) \/ Enters(c, e))'
  BY <1>1, <1>2 DEF Skips, Enters, State, NextStatement, EnterBlock, StartOf, Here
<1>9. \A tr, c, e : Decides(tr, c, e) => Decides(tr, c, e)'
  <2>1. \A c : Evaluates(c, conditionOf[BlockHere(c.at)])' <=>
               Evaluates(c, conditionOf[BlockHere(c.at)])
    BY <1>1, <1>2 DEF Evaluates, IsValue, DefinitionOf, Definition
  <2>2. \A c : Condition(c)' = Condition(c)
    BY <1>1, <1>2 DEF Condition, ValueIn, DefinitionOf, Definition, Written, Here
  <2>3. \A at : AfterTrue(at)' = AfterTrue(at)
    BY <1>1, <1>2 DEF AfterTrue, NextStatement, EnterBlock, StartOf, Here
  <2>4. \A at : AfterFalse(at)' = AfterFalse(at)
    <3>1. \A at : /\ Here(at)' = Here(at) /\ NextStatement(at)' = NextStatement(at)
                  /\ NextBlock(at)' = NextBlock(at)
      BY DEF NextStatement, NextBlock, Here
    <3>2. \A at : Len(BlocksHere(at))' = Len(BlocksHere(at))
      BY <1>1
    <3>3. QED BY <3>1, <3>2 DEF AfterFalse
  <2>5. QED BY <1>1, <1>2, <2>1, <2>2, <2>3, <2>4 DEF Decides, State
<1>10. \A c, e : Leaves(c, e) \/ StartsMain(c, e) => (Leaves(c, e) \/ StartsMain(c, e))'
  BY <1>1 DEF Leaves, StartsMain, State, StartOf, Here, Root
<1>11. \A tr, c, e : Interprets(tr, c, e) => Interprets(tr, c, e)'
  BY <1>5, <1>6, <1>7, <1>8, <1>9, <1>10 DEF Interprets
<1>12. QED BY <1>11 DEF Passes, State, StartOf, Root, IsList

\* Where the interpreter ends.
LEMMA SameFinished ==
  ASSUME UNCHANGED <<vars, conditionOf, statementKind, defaulted>>
  PROVE  \A c : IsFinished(c) => IsFinished(c)'
BY SameStatements DEF IsFinished, Here, Root

\* Where compiled code is.
LEMMA SameMatches ==
  ASSUME UNCHANGED <<vars, conditionOf, statementKind, defaulted>>
  PROVE  \A c, activations, stored, value, out :
           Matches(c, activations, stored, value, out)
             => Matches(c, activations, stored, value, out)'
<1>1. UNCHANGED tables /\ Scopes' = Scopes /\ GlobalDeclarations' = GlobalDeclarations
  BY SameWalks DEF vars, numVars, tableVars, Scopes
<1>2. \A f, d : AddressIn(f, d)' = AddressIn(f, d)
  <2>1. /\ \A s : IsClassScope(s)' <=> IsClassScope(s)
        /\ \A c : ThisClass(c)' = ThisClass(c)
    BY <1>1 DEF IsClassScope, ThisClass, OwnerClass
  <2>2. \A s, kinds : DefinitionsIn(s, kinds)' = DefinitionsIn(s, kinds)
    BY <1>1 DEF DefinitionsIn, DefinitionIn, Definition
  <2>3. \A c : ListsOf(c)' = ListsOf(c)
    BY <1>1 DEF ListsOf, IsWalked, Scopes
  <2>4. \A c : StorageOf(c)' = StorageOf(c)
    BY <2>1, <2>2, <2>3 DEF StorageOf
  <2>5. QED BY <1>1, <2>1, <2>4 DEF AddressIn
<1>3. \A known, stored : KeepsConstants(known, stored) => KeepsConstants(known, stored)'
  <2>1. \A d : HasDefault(d)' <=> HasDefault(d)
    BY <1>1 DEF HasDefault, IsOfClass
  <2>2. DOMAIN GlobalConstants' = DOMAIN GlobalConstants
    BY <1>1, <2>1 DEF GlobalConstants
  <2>3. QED BY <2>2 DEF KeepsConstants, Zero
<1>4. QED BY <1>1, <1>2, <1>3 DEF Matches, Holds, NoValue

-----------------------------------------------------------------------------
(* The invariant of interpreter and compiled code *)

\* The interpreter has passed through S to last, and ended there or thrown.
HasInterpreted(tr, S, last, out, thrown) ==
  Passes(tr, S, last) /\ last.out = out /\ (thrown = "none" => IsFinished(last))

\* Compiled code is where the interpreter was in a state of S, or all the interpreter printed
\* before it threw is printed.
IsAlong(S, activations, stored, value, all, out, thrown) ==
  \/ \E c \in S : Matches(c, activations, stored, value, all)
  \/ thrown # "none" /\ IsPrefix(out, all) /\ IsList(all)

\* The interpreter is at the end of a run of states, or has left one behind that compiled code
\* follows.
AgreeInv ==
  /\ stage = "build" => variables = <<>> /\ output = <<>> /\ exception = "none"
  /\ stage \in {"build", "interpret", "lower"} =>
       globals = <<>> /\ returned = NoValue /\ printed = <<>>
  /\ stage = "interpret" =>
       /\ exception = "none"
       /\ \E tr \in {truth}, c \in {State(interpreted, variables, output)} : \E S : Passes(tr, S, c)
  /\ stage = "lower" =>
       \E tr \in {truth}, out \in {output}, thrown \in {exception} :
         \E S, last : HasInterpreted(tr, S, last, out, thrown)
  /\ stage = "run" =>
       /\ Mains # {}
       /\ \E tr \in {truth}, out \in {output}, thrown \in {exception},
             activations \in {stack}, stored \in {globals}, value \in {returned},
             all \in {printed} :
            \E S, last : /\ HasInterpreted(tr, S, last, out, thrown)
                         /\ IsAlong(S, activations, stored, value, all, out, thrown)
  /\ stage = "end" /\ IsAccepted /\ Mains # {} =>
       IF exception = "none" THEN printed = output ELSE IsPrefix(output, printed)

\* Nothing is printed at first.
LEMMA InitAgrees == ExecutionInit => AgreeInv
BY DEF ExecutionInit, InitInterpreter, InitCompiled, AgreeInv

\* What AgreeInv says is what OutputsAgree says.
LEMMA AgreeFromInv == AgreeInv => OutputsAgree
<1> SUFFICES ASSUME AgreeInv PROVE OutputsAgree
  OBVIOUS
<1>1. ASSUME stage = "run"
      PROVE  IF exception = "none" THEN IsPrefix(printed, output)
             ELSE IsPrefix(printed, output) \/ IsPrefix(output, printed)
  <2>1. PICK S, last : /\ HasInterpreted(truth, S, last, output, exception)
                       /\ IsAlong(S, stack, globals, returned, printed, output, exception)
    BY <1>1 DEF AgreeInv
  <2>2. \A c \in S : IsPrefix(c.out, output)
    BY <2>1 DEF HasInterpreted, Passes
  <2>3. IsPrefix(printed, output) \/ (exception # "none" /\ IsPrefix(output, printed))
    BY <2>1, <2>2 DEF IsAlong, Matches
  <2>4. QED BY <2>3
<1>2. QED BY <1>1 DEF AgreeInv, OutputsAgree

\* The first state, after a step.
LEMMA PassesStartNext ==
  (\A tr, c : c = State(StartOf(Root), <<>>, <<>>) => \E S : Passes(tr, S, c))'
<1>1. \A tr, c : c = State(StartOf(Root), <<>>, <<>>) => \E S : Passes(tr, S, c)
  BY PassesStart
<1>2. QED BY <1>1, PTL

\* The interpreter starts.
LEMMA AgreeResolved ==
  ASSUME SInv, AgreeInv, ResolveProgram
  PROVE  AgreeInv'
<1>1. /\ stage = "build" /\ UNCHANGED <<truth, variables, output, exception, compiledVars>>
      /\ \/ stage' = "interpret" /\ interpreted' = StartOf(Root)
         \/ stage' = "end" /\ ~IsAccepted'
  BY DEF ResolveProgram
<1>2. /\ variables' = <<>> /\ output' = <<>> /\ exception' = "none"
      /\ globals' = <<>> /\ returned' = NoValue /\ printed' = <<>>
  BY <1>1 DEF AgreeInv, compiledVars
<1>3. ASSUME stage' = "interpret"
      PROVE  \E tr \in {truth'}, c \in {State(interpreted', variables', output')} :
               \E S : Passes(tr, S, c)'
  <2>1. PICK tr, c : tr = truth' /\ c = State(interpreted', variables', output')
    OBVIOUS
  <2>2. c = State(StartOf(Root), <<>>, <<>>)
    BY <1>1, <1>2, <1>3, <2>1
  <2>3. c = State(StartOf(Root), <<>>, <<>>)'
    BY <2>2 DEF State, StartOf, Root
  <2>4. \E S : Passes(tr, S, c)'
    BY <2>3, PassesStartNext
  <2>5. QED BY <2>1, <2>4
<1>4. QED BY <1>1, <1>2, <1>3 DEF AgreeInv, NoValue, State

\* The interpreter goes on.
LEMMA AgreeInterpreted ==
  ASSUME SInv, FilledInv, InterpreterInv, AgreeInv, InterpretStep
  PROVE  AgreeInv'
<1>1. /\ stage = "interpret" /\ Interpret
      /\ UNCHANGED <<vars, conditionOf, statementKind, defaulted>>
      /\ stage' = (IF interpreted' = <<>> THEN "lower" ELSE "interpret")
      /\ UNCHANGED compiledVars
  BY DEF InterpretStep
<1>2. IsInterpreted
  BY <1>1 DEF IsInterpreted, InterpreterInv
<1>3. InterpretsRightly
  BY <1>1, <1>2, InterpreterPasses
<1>4. PICK c, S : c = State(interpreted, variables, output) /\ Passes(truth, S, c)
  BY <1>1 DEF AgreeInv
<1>5. exception = "none" /\ c.out = output
  BY <1>1, <1>4, StateParts DEF AgreeInv
<1>6. globals' = <<>> /\ returned' = NoValue /\ printed' = <<>>
  BY <1>1 DEF AgreeInv, compiledVars
<1>7. CASE \/ \E what \in {"unsupported", "unknown variable", "already declared"} : StopsWith(what)
           \/ StopsWith(exception) /\ IsFinished(State(interpreted, variables, output))
  <2>1. /\ interpreted' = <<>> /\ truth' = truth /\ output' = output /\ stage' = "lower"
        /\ exception' = "none" => IsFinished(c)
    BY <1>1, <1>4, <1>5, <1>7 DEF StopsWith
  <2>2. PICK tr, out, thrown : tr = truth' /\ out = output' /\ thrown = exception'
    OBVIOUS
  <2>3. Passes(tr, S, c)' /\ c.out = out /\ (thrown = "none" => IsFinished(c)')
    BY <1>1, <1>4, <1>5, <2>1, <2>2, SamePasses, SameFinished
  <2>4. HasInterpreted(tr, S, c, out, thrown)'
    BY <2>3 DEF HasInterpreted
  <2>5. QED BY <1>6, <2>1, <2>2, <2>4 DEF AgreeInv, NoValue
<1>8. CASE GoesOnInterpreting
  <2>1. PICK tr, e : tr = truth' /\ e = State(interpreted', variables', output')
    OBVIOUS
  <2>2. /\ interpreted' # <<>> /\ stage' = "interpret" /\ exception' = "none"
        /\ SaysMore(truth, tr) /\ Interprets(tr, c, e)
        /\ e.out = c.out \/ \E x : e.out = Append(c.out, x)
    <3>1. /\ interpreted' # <<>> /\ exception' = exception /\ SaysMore(truth, truth')
          /\ Interprets(truth', State(interpreted, variables, output),
                                State(interpreted', variables', output'))
          /\ output' = output \/ \E x : output' = Append(output, x)
      BY <1>8 DEF GoesOnInterpreting
    <3>2. e.out = output'
      BY <2>1, StateParts
    <3>3. stage' = "interpret" /\ exception' = "none"
      BY <1>1, <1>5, <3>1
    <3>4. SaysMore(truth, tr) /\ Interprets(tr, c, e)
      BY <1>4, <2>1, <3>1
    <3>5. e.out = c.out \/ \E x : e.out = Append(c.out, x)
      BY <1>5, <3>1, <3>2
    <3>6. QED BY <3>1, <3>3, <3>4, <3>5
  <2>3. Passes(tr, S, c)
    BY <1>4, <2>2, PassesGrows
  <2>4. Passes(tr, S \cup {e}, e)
    BY <2>2, <2>3, PassesOn
  <2>5. Passes(tr, S \cup {e}, e)'
    BY <1>1, <2>4, SamePasses
  <2>6. \E T : Passes(tr, T, e)'
    BY <2>5
  <2>7. QED BY <1>6, <2>1, <2>2, <2>6 DEF AgreeInv, NoValue, State
<1>9. QED BY <1>3, <1>7, <1>8 DEF InterpretsRightly

\* Compiled code starts.
LEMMA AgreeLowered ==
  ASSUME AgreeInv, Lower
  PROVE  AgreeInv'
<1>1. /\ stage = "lower" /\ UNCHANGED <<vars, conditionOf, statementKind, defaulted>>
      /\ UNCHANGED <<truth, output, exception, returned, printed>>
      /\ \/ stage' = "assertion"
         \/ stage' = "end" /\ Mains = {}
         \/ /\ stage' = "run" /\ Mains # {}
            /\ stack' = <<GlobalInit>> /\ globals' = GlobalConstants
  BY DEF Lower, textVars, interpreterVars
<1>2. Mains' = Mains
  BY <1>1, SameStatements
<1>3. returned' = NoValue /\ printed' = <<>>
  BY <1>1 DEF AgreeInv
<1>4. CASE stage' = "assertion" \/ (stage' = "end" /\ Mains = {})
  BY <1>2, <1>4 DEF AgreeInv
<1>5. CASE /\ stage' = "run" /\ Mains # {}
           /\ stack' = <<GlobalInit>> /\ globals' = GlobalConstants
  <2>1. PICK tr, out, thrown, activations, stored, value, all :
          /\ tr = truth' /\ out = output' /\ thrown = exception'
          /\ activations = stack' /\ stored = globals' /\ value = returned' /\ all = printed'
    OBVIOUS
  <2>2. PICK S, last : HasInterpreted(tr, S, last, out, thrown)
    BY <1>1, <2>1 DEF AgreeInv
  <2>3. HasInterpreted(tr, S, last, out, thrown)'
    BY <1>1, <2>2, SamePasses, SameFinished DEF HasInterpreted
  <2>4. PICK c \in S : c = State(StartOf(Root), <<>>, <<>>)
    BY <2>2 DEF HasInterpreted, Passes
  <2>5. c.at = StartOf(Root) /\ c.known = <<>> /\ c.out = <<>> /\ DOMAIN c.known = {}
    <3>1. c.at = StartOf(Root) /\ c.known = <<>> /\ c.out = <<>>
      BY <2>4, StateParts
    <3>2. DOMAIN <<>> = {}
      OBVIOUS
    <3>3. QED BY <3>1, <3>2
  <2>6. PICK a : a = GlobalInit
    OBVIOUS
  <2>7. activations = <<a>> /\ a.at = c.at /\ a \in Range(activations)
    <3>1. a \in Range(<<a>>)
      BY DEF Range
    <3>2. a.at = StartOf(Root)
      BY <2>6 DEF GlobalInit
    <3>3. QED BY <1>5, <2>1, <2>5, <2>6, <3>1, <3>2
  <2>8. Matches(c, activations, stored, value, all)
    <3>1. KeepsConstants(c.known, stored)
      BY <1>5, <2>1 DEF KeepsConstants, GlobalConstants
    <3>2. QED BY <1>3, <2>1, <2>5, <2>7, <3>1 DEF Matches
  <2>9. Matches(c, activations, stored, value, all)'
    BY <1>1, <2>8, SameMatches
  <2>10. IsAlong(S, activations, stored, value, all, out, thrown)'
    BY <2>9 DEF IsAlong
  <2>11. QED BY <1>2, <1>5, <2>1, <2>3, <2>10 DEF AgreeInv
<1>6. QED BY <1>1, <1>4, <1>5

\* What was passed through is so after a step of compiled code.
LEMMA InterpretedStays ==
  ASSUME UNCHANGED <<vars, conditionOf, statementKind, defaulted>>,
         NEW tr, NEW more, SaysMore(tr, more),
         NEW S, NEW last, NEW out, NEW thrown, HasInterpreted(tr, S, last, out, thrown)
  PROVE  HasInterpreted(more, S, last, out, thrown)'
<1>1. /\ Passes(more, S, last) /\ last.out = out
      /\ thrown = "none" => IsFinished(last)
  BY PassesGrows DEF HasInterpreted
<1>2. Passes(more, S, last)' /\ (thrown = "none" => IsFinished(last)')
  BY <1>1, SamePasses, SameFinished
<1>3. QED BY <1>1, <1>2 DEF HasInterpreted

\* A step of compiled code stays along what the interpreter passed through, and ends where
\* the interpreter did.
AlongAfter(S, out, thrown) ==
  \/ \E e \in S : Matches(e, stack', globals', returned', printed') /\ stack' # <<>>
  \/ thrown = "none" /\ stack' = <<>> /\ printed' = out
  \/ thrown # "none" /\ IsPrefix(out, printed') /\ IsList(printed')

\* Every step of compiled code does that.
LEMMA RunStaysAlong ==
  ASSUME IsRun, FilledInv, Mains # {}, Run, NEW S, NEW last, NEW out, NEW thrown,
         HasInterpreted(truth, S, last, out, thrown),
         IsAlong(S, stack, globals, returned, printed, out, thrown)
  PROVE  AlongAfter(S, out, thrown)
<1>1. /\ IsList(out) /\ last.out = out /\ (thrown = "none" => IsFinished(last))
      /\ \A c \in S : c = last \/ \E e \in S : Interprets(truth, c, e)
  BY DEF HasInterpreted, Passes
<1>2. ASSUME thrown # "none", IsPrefix(out, printed), IsList(printed)
      PROVE  IsPrefix(out, printed') /\ IsList(printed')
  <2>1. CASE printed' = printed
    BY <1>2, <2>1
  <2>2. ASSUME NEW x, printed' = Append(printed, x)
        PROVE  IsPrefix(out, printed') /\ IsList(printed')
    BY <1>1, <1>2, <2>2, PrefixAppend
  <2>3. QED BY <2>1, <2>2, RunPrints
<1>3. ASSUME NEW c \in S, IsMatched(c) PROVE AlongAfter(S, out, thrown)
  <2>1. ASSUME NEW e \in S, Interprets(truth, c, e) PROVE AlongAfter(S, out, thrown)
    BY <1>3, <2>1, RunFollows DEF AlongAfter, Follows
  <2>2. ASSUME c = last PROVE AlongAfter(S, out, thrown)
    <3>1. printed = out
      BY <1>1, <1>3, <2>2, MatchedParts
    <3>2. CASE thrown = "none"
      BY <1>1, <1>3, <2>2, <3>1, <3>2, RunFinishes DEF AlongAfter
    <3>3. CASE thrown # "none"
      <4>1. IsPrefix(out, printed) /\ IsList(printed)
        BY <1>1, <3>1, PrefixItself
      <4>2. QED BY <1>2, <3>3, <4>1 DEF AlongAfter
    <3>4. QED BY <3>2, <3>3
  <2>3. QED BY <1>1, <2>1, <2>2
<1>4. CASE \E c \in S : Matches(c, stack, globals, returned, printed)
  BY <1>3, <1>4 DEF IsMatched
<1>5. CASE thrown # "none" /\ IsPrefix(out, printed) /\ IsList(printed)
  BY <1>2, <1>5 DEF AlongAfter
<1>6. QED BY <1>4, <1>5 DEF IsAlong

\* Compiled code runs.
LEMMA AgreeRun ==
  ASSUME SInv, FilledInv, StackInv, AgreeInv, RunStep
  PROVE  AgreeInv'
<1>1. /\ stage = "run" /\ Run /\ UNCHANGED <<vars, conditionOf, statementKind, defaulted>>
      /\ stage' = (IF stack' = <<>> THEN "end" ELSE "run")
      /\ UNCHANGED <<output, exception>>
  BY DEF RunStep, interpreterVars
<1>2. IsRun
  BY <1>1 DEF IsRun, StackInv
<1>3. Mains # {} /\ Mains' = Mains
  BY <1>1, SameStatements DEF AgreeInv
<1>4. PICK S, last : /\ HasInterpreted(truth, S, last, output, exception)
                     /\ IsAlong(S, stack, globals, returned, printed, output, exception)
  BY <1>1 DEF AgreeInv
<1>5. PICK tr, out, thrown, activations, stored, value, all :
        /\ tr = truth' /\ out = output' /\ thrown = exception'
        /\ activations = stack' /\ stored = globals' /\ value = returned' /\ all = printed'
  OBVIOUS
<1>6. out = output /\ thrown = exception
  BY <1>1, <1>5
<1>7. AlongAfter(S, out, thrown)
  BY <1>1, <1>2, <1>3, <1>4, <1>6, RunStaysAlong
<1>8. HasInterpreted(tr, S, last, out, thrown)'
  <2>1. SaysMore(truth, tr)
    BY <1>1, <1>5, RunPrints
  <2>2. HasInterpreted(truth, S, last, out, thrown)
    BY <1>4, <1>6
  <2>3. PICK before : before = truth
    OBVIOUS
  <2>4. QED BY <1>1, <2>1, <2>2, <2>3, InterpretedStays
<1>9. CASE stage' = "run"
  <2>1. stack' # <<>>
    BY <1>1, <1>9
  <2>2. \/ \E e \in S : Matches(e, activations, stored, value, all)
        \/ thrown # "none" /\ IsPrefix(out, all) /\ IsList(all)
    BY <1>5, <1>7, <2>1 DEF AlongAfter
  <2>3. \/ \E e \in S : Matches(e, activations, stored, value, all)'
        \/ thrown # "none" /\ IsPrefix(out, all) /\ IsList(all)
    BY <1>1, <2>2, SameMatches
  <2>4. IsAlong(S, activations, stored, value, all, out, thrown)'
    BY <2>3 DEF IsAlong, IsList
  <2>5. QED BY <1>3, <1>5, <1>8, <1>9, <2>4 DEF AgreeInv
<1>10. CASE stage' = "end"
  <2>1. stack' = <<>>
    BY <1>1, <1>10
  <2>2. IF exception' = "none" THEN printed' = output' ELSE IsPrefix(output', printed')
    BY <1>5, <1>7, <2>1 DEF AlongAfter, Matches
  <2>3. QED BY <1>10, <2>2 DEF AgreeInv
<1>11. QED BY <1>1, <1>9, <1>10

\* Nothing happens.
LEMMA AgreeStays ==
  ASSUME AgreeInv, UNCHANGED allVars
  PROVE  AgreeInv'
<1>1. /\ UNCHANGED <<vars, conditionOf, statementKind, defaulted>>
      /\ UNCHANGED <<truth, variables, interpreted, output, exception, stack, globals, returned,
                     printed, stage>>
  BY DEF allVars, textVars, interpreterVars, compiledVars
<1>2. Mains' = Mains /\ (IsAccepted' <=> IsAccepted)
  BY <1>1, SameStatements, SameProgram
<1>3. PICK tr, out, thrown, activations, stored, value, all :
        /\ tr = truth' /\ out = output' /\ thrown = exception'
        /\ activations = stack' /\ stored = globals' /\ value = returned' /\ all = printed'
  OBVIOUS
<1>4. CASE stage' = "interpret"
  <2>1. PICK c : c = State(interpreted', variables', output')
    OBVIOUS
  <2>2. c = State(interpreted, variables, output)
    BY <1>1, <2>1
  <2>3. PICK S : Passes(tr, S, c)
    BY <1>1, <1>3, <1>4, <2>2 DEF AgreeInv
  <2>4. Passes(tr, S, c)'
    BY <1>1, <2>3, SamePasses
  <2>5. \E T : Passes(tr, T, c)'
    BY <2>4
  <2>6. QED BY <1>1, <1>3, <1>4, <2>1, <2>5 DEF AgreeInv, NoValue, State
<1>5. CASE stage' = "lower"
  <2>1. PICK S, last : HasInterpreted(tr, S, last, out, thrown)
    BY <1>1, <1>3, <1>5 DEF AgreeInv
  <2>2. HasInterpreted(tr, S, last, out, thrown)'
    BY <1>1, <2>1, InterpretedStays DEF SaysMore
  <2>3. QED BY <1>1, <1>3, <1>5, <2>2 DEF AgreeInv, NoValue
<1>6. CASE stage' = "run"
  <2>1. PICK S, last : /\ HasInterpreted(tr, S, last, out, thrown)
                       /\ IsAlong(S, activations, stored, value, all, out, thrown)
    BY <1>1, <1>3, <1>6 DEF AgreeInv
  <2>2. HasInterpreted(tr, S, last, out, thrown)'
    BY <1>1, <2>1, InterpretedStays DEF SaysMore
  <2>3. IsAlong(S, activations, stored, value, all, out, thrown)'
    BY <1>1, <2>1, SameMatches DEF IsAlong, IsList
  <2>4. QED BY <1>1, <1>2, <1>3, <1>6, <2>2, <2>3 DEF AgreeInv
<1>7. CASE stage' \notin {"interpret", "lower", "run"}
  BY <1>1, <1>2, <1>7 DEF AgreeInv, NoValue
<1>8. QED BY <1>4, <1>5, <1>6, <1>7

\* Every step keeps AgreeInv.
LEMMA NextAgrees ==
  SInv /\ FilledInv /\ StackInv /\ InterpreterInv /\ AgreeInv /\ [ExecutionNext]_allVars
    => AgreeInv'
<1> SUFFICES ASSUME SInv, FilledInv, StackInv, InterpreterInv, AgreeInv, [ExecutionNext]_allVars
             PROVE  AgreeInv'
  OBVIOUS
<1>1. CASE Build
  BY <1>1 DEF Build, interpreterVars, compiledVars, AgreeInv, NoValue
<1>2. CASE ResolveProgram
  BY <1>2, AgreeResolved
<1>3. CASE InterpretStep
  BY <1>3, AgreeInterpreted
<1>4. CASE Lower
  BY <1>4, AgreeLowered
<1>5. CASE RunStep
  BY <1>5, AgreeRun
<1>6. CASE ExecutionEnds \/ UNCHANGED allVars
  BY <1>6, AgreeStays DEF ExecutionEnds
<1>7. QED BY <1>1, <1>2, <1>3, <1>4, <1>5, <1>6 DEF ExecutionNext

-----------------------------------------------------------------------------
\* The invariants of the text, of both executions and of what they have in common hold in every
\* program.
THEOREM ExecutionInvariant ==
  ExecutionSpec => [](SInv /\ FilledInv /\ StackInv /\ InterpreterInv /\ AgreeInv)
<1> DEFINE Inv == SInv /\ FilledInv /\ StackInv /\ InterpreterInv /\ AgreeInv
<1>1. ExecutionInit => Inv
  BY InitSInv, InitFilled, InitStack, InitInterpreterInv, InitAgrees
<1>2. Inv /\ [ExecutionNext]_allVars => Inv'
  BY NextSInv, NextFilled, NextStack, NextInterpreterInv, NextAgrees
<1>3. QED BY <1>1, <1>2, PTL DEF ExecutionSpec

\* Compiled code prints what the interpreter prints, as far as the interpreter gets.
THEOREM OutputsOfBothAgree == ExecutionSpec => []OutputsAgree
BY ExecutionInvariant, AgreeFromInv, PTL
=============================================================================
