----------------------------- MODULE ProgramText -----------------------------
(***************************************************************************)
(* The program ScopeBuilder has visited, read again by those who walk its  *)
(* tree afterwards: the lists of statements, the definitions names resolve *)
(* to, and positions in the text.  A statement is what is numbered [scope, *)
(* id]: a declaration, a use, or what opens the scopes anchored there.     *)
(***************************************************************************)
EXTENDS ResolverProps

CONSTANT MainName  \* "main"

ASSUME MainNameAssumption == MainName \in Names

VARIABLES
  conditionOf,   \* conditionOf[s]: the use that is the condition of block s, or 0
  statementKind, \* what the statements are that use a variable: one of UseStatements
  defaulted,     \* the variables declared without an initializer
  truth          \* conditions of blocks and their values that were true or false so far

UseStatements == {"print", "assign", "return"}

\* The visit has entered a scope, after the condition of its block if it has one.
RecordCondition ==
  conditionOf' =
    IF Len(tables') = Len(tables) THEN conditionOf
    ELSE Append(conditionOf, IF Len(uses') > Len(uses) THEN Len(uses') ELSE 0)

-----------------------------------------------------------------------------
(* Statements *)

DeclaredAt(s, id) ==
  {n \in Names : tables[s].symbols[n].kind = "Variable" /\ tables[s].symbols[n].id = id}
\* The scopes of the statement, and in order: of an if, its blocks from the first on.
Anchored(s, id) == {t \in Scopes \ {Root} : anchors[t] = [scope |-> s, id |-> id]}
ScopesAt(s, id) ==
  CHOOSE blocks \in [1..Cardinality(Anchored(s, id)) -> Anchored(s, id)] :
    \A j, k \in DOMAIN blocks : j < k => blocks[j] < blocks[k]
UsesAt(s, id) ==
  {i \in DOMAIN uses : uses[i].ref = [scope |-> s, id |-> id]}

\* The use a declaration or an expression statement is made of, or 0.
UseAt(s, id) == IF UsesAt(s, id) = {} THEN 0 ELSE Min(UsesAt(s, id))

LastStatement(s) ==
  Max({0} \cup {tables[s].symbols[n].id : n \in Names}
          \cup {anchors[t].id : t \in {u \in Scopes : anchors[u].scope = s}}
          \cup {uses[i].ref.id : i \in {j \in DOMAIN uses : uses[j].scope = s}})

\* Uses that are statements by themselves.
IsStatement(i) ==
  LET at == uses[i].ref
  IN  /\ DeclaredAt(at.scope, at.id) = {}
      /\ ScopesAt(at.scope, at.id) = <<>>
IsValue(i) == uses[i].form.kind = "value"
ValueStatements == {i \in DOMAIN uses : IsValue(i) /\ IsStatement(i)}

\* The statement only writes the variable it names.
OnlyWrites(i) == i \in ValueStatements /\ statementKind[i] = "assign"

-----------------------------------------------------------------------------
(* definition_node of resolved symbols *)

Definition(n, symbol) ==
  [name |-> n, kind |-> symbol.kind, scope |-> symbol.scope, id |-> symbol.id]
DefinitionIn(n, s) == Definition(n, tables[s].symbols[n])
DefinitionOf(i) == Definition(uses[i].form.name, resolved[i])

\* The body of a function.
BodyOf(d) == CHOOSE t \in Scopes : anchors[t] = [scope |-> d.scope, id |-> d.id]

\* The bodies of the functions main; without errors there is one at most.
Mains ==
  {s \in Scopes : /\ tables[s].owner = "function" /\ tables[s].parent = Root
                  /\ tables[s].name = MainName}

-----------------------------------------------------------------------------
(***************************************************************************)
(* Values: what the expression of a statement makes if it has no use (a    *)
(* literal, an object), the default of int and bool, what a function       *)
(* returns by default, its argument, its address.  The truth of a          *)
(* condition depends on the value of its use.                              *)
(***************************************************************************)
Written(at) == [by |-> "statement", scope |-> at.scope, id |-> at.id]
Argument == [by |-> "argument", scope |-> 0, id |-> 0]
DefaultReturn == [by |-> "return", scope |-> 0, id |-> 0]
Zero == [by |-> "zero", scope |-> 0, id |-> 0]
Undefined == [by |-> "nothing", scope |-> 0, id |-> 0]
AddressOf(d) == [by |-> "function", scope |-> d.scope, id |-> d.id]

IsOfClass(d) == tables[d.scope].symbols[d.name].type # NoClass
\* Without an initializer a variable that is no object is 0 or false.
HasDefault(d) == d \in defaulted /\ ~IsOfClass(d)

\* A map, with the value of d.
Put(map, d, value) == [e \in DOMAIN map \cup {d} |-> IF e = d THEN value ELSE map[e]]

\* The truth of the condition of block s, on a value, is b, now and later.
IsTruth(s, value, b) ==
  LET key == <<s, value>>
  IN  IF key \in DOMAIN truth THEN b = truth[key] /\ UNCHANGED truth
      ELSE truth' = Put(truth, key, b)

-----------------------------------------------------------------------------
(***************************************************************************)
(* Where a walk over the statements is: in each list it is in, the         *)
(* statement, and how many of the blocks of an if it has passed.           *)
(***************************************************************************)

StartOf(s) == <<[scope |-> s, id |-> 1, passed |-> 0]>>
Here(at) == Last(at)
AtEnd(at) == Here(at).id > LastStatement(Here(at).scope)
NextStatement(at) == Append(Front(at), [Here(at) EXCEPT !.id = @ + 1, !.passed = 0])
NextBlock(at) == Append(Front(at), [Here(at) EXCEPT !.passed = @ + 1])
EnterBlock(at, s) == NextStatement(at) \o StartOf(s)

DeclaredHere(at) == DeclaredAt(Here(at).scope, Here(at).id)
UseHere(at) == UseAt(Here(at).scope, Here(at).id)
BlocksHere(at) == ScopesAt(Here(at).scope, Here(at).id)
BlockHere(at) == BlocksHere(at)[Here(at).passed + 1]

IsOfDeclaration(at) == ~AtEnd(at) /\ DeclaredHere(at) # {}
IsOfBlocks(at) == ~AtEnd(at) /\ BlocksHere(at) # <<>>
IsOfUse(at) == ~AtEnd(at) /\ DeclaredHere(at) = {} /\ BlocksHere(at) = <<>>

\* The use the statement, or the condition of the block, evaluates next, or 0.
UseOf(at) ==
  IF AtEnd(at) THEN 0
  ELSE IF BlocksHere(at) = <<>> THEN UseHere(at)
  ELSE conditionOf[BlockHere(at)]
=============================================================================
