--------------------------- MODULE ResolverProofs ---------------------------
(***************************************************************************)
(* Proofs about the passes, for every set of names and classes and every   *)
(* bound.  IInv is an invariant of them: the types, the agreement of the   *)
(* two visits on the tree of scopes, and that ProjectUseToScope never      *)
(* fails.  And a use gets the meaning its place in the program gives it:   *)
(* what resolveName finds by projecting the use to the scope of each       *)
(* candidate and comparing statement numbers is Meaning(use), which knows  *)
(* nothing of numbers.  LInv says why: a scope's numbers grow with the     *)
(* visit, so that what is behind a use is what has the smaller number      *)
(* (LexicalInv), and the walk has excluded the tables it left (SearchInv). *)
(***************************************************************************)
EXTENDS ResolverProps, CommonLemmas

-----------------------------------------------------------------------------
(* The operations of the symbol table *)

\* What a change of symbols leaves of the tables.
SameTree(tabs) ==
  /\ tabs \in Seq(TableType)
  /\ Len(tabs) = Len(tables)
  /\ \A s \in Scopes :
       /\ tabs[s].parent = tables[s].parent
       /\ tabs[s].owner = tables[s].owner
       /\ tabs[s].name = tables[s].name
  /\ \A s \in Scopes, n \in Names :
       tabs[s].symbols[n] # NoSymbol => tabs[s].symbols[n].scope = s

LEMMA SameTreeItself == TableTypeOK /\ SymbolInv => SameTree(tables)
  BY DEF SameTree, SymbolInv, TableTypeOK, Scopes

LEMMA TablesAfterAddSameTree ==
  ASSUME TableTypeOK, SymbolInv, NEW s \in Scopes, NEW n \in Names,
         NEW symbol \in SymbolType, symbol.scope = s
  PROVE  SameTree(TablesAfterAdd(s, n, symbol))
<1> DEFINE row == [tables[s] EXCEPT !.symbols[n] = symbol]
           added == [tables EXCEPT ![s] = row]
<1>1. tables \in Seq(TableType) /\ s \in 1..Len(tables)
  BY DEF TableTypeOK, Scopes
<1>2. tables[s] \in TableType
  BY <1>1, ElementOfSeq
<1>3. /\ row \in TableType
      /\ row.parent = tables[s].parent /\ row.owner = tables[s].owner
      /\ row.name = tables[s].name
      /\ \A m \in Names : row.symbols[m] = IF m = n THEN symbol ELSE tables[s].symbols[m]
  BY <1>2 DEF TableType
<1>4. /\ added \in Seq(TableType) /\ Len(added) = Len(tables)
      /\ \A t \in Scopes : added[t] = IF t = s THEN row ELSE tables[t]
  BY <1>1, <1>3, ExceptSeq DEF Scopes
<1>5. SameTree(added)
  BY <1>3, <1>4 DEF SameTree, SymbolInv
<1>6. [tables EXCEPT ![s].symbols[n] = symbol] = added
  OBVIOUS
<1>7. QED BY <1>5, <1>6, SameTreeItself DEF TablesAfterAdd

-----------------------------------------------------------------------------
(* The two visits of the tree: staying in a scope, entering one, leaving one *)

\* What the visits keep of the tree and of their stacks.
Shape ==
  /\ NumTypeOK /\ tables \in Seq(TableType) /\ scopeStack \in Seq(Nat)
  /\ ScopesAgree /\ TreeInv /\ SymbolInv

Stacks ==
  /\ scopeStack # <<>> /\ Len(saved) + 1 = Len(scopeStack)
  /\ \A i \in 1..Len(saved) : saved[i].scope = scopeStack[i]

LEMMA VisitFacts ==
  ASSUME Shape, Stacks
  PROVE  /\ anchorStack # <<>> /\ nextIds # <<>>
         /\ CurrentScope \in Scopes
         /\ CurrentScopeAnchor = CurrentScope
         /\ CurrentScope = scopeStack[Len(scopeStack)] /\ Len(scopeStack) \in Nat \ {0}
         /\ NextStmtRef \in ScopedStmtRef
         /\ NextStmtRef.scope = CurrentScope
         /\ CountersAfterAcquire \in Seq(Nat) /\ Len(CountersAfterAcquire) = Len(nextIds)
<1>1. /\ scopeStack \in Seq(Nat) /\ scopeStack # <<>> /\ nextIds \in Seq(Nat)
      /\ scopeStack = anchorStack /\ Len(nextIds) = Len(scopeStack)
      /\ \A i \in 1..Len(scopeStack) : scopeStack[i] \in Scopes
  BY DEF Shape, Stacks, NumTypeOK, ScopesAgree
<1>2. nextIds # <<>>
  BY <1>1, EmptySeq
<1>3. /\ Len(scopeStack) \in Nat \ {0} /\ Last(scopeStack) = scopeStack[Len(scopeStack)]
      /\ Last(nextIds) \in Nat /\ nextIds[Len(nextIds)] \in Nat
  BY <1>1, <1>2, LastProperties
<1>4. CurrentScope \in Scopes /\ CurrentScope \in Nat
  BY <1>1, <1>3 DEF CurrentScope, Scopes
<1>5. NextStmtRef \in ScopedStmtRef /\ NextStmtRef.scope = CurrentScope
  BY <1>1, <1>3, <1>4 DEF NextStmtRef, CurrentScope, CurrentScopeAnchor, ScopedStmtRef
<1>6. CountersAfterAcquire \in Seq(Nat) /\ Len(CountersAfterAcquire) = Len(nextIds)
  BY <1>1, <1>3, ExceptSeq DEF CountersAfterAcquire
<1>7. QED BY <1>1, <1>2, <1>3, <1>4, <1>5, <1>6 DEF CurrentScopeAnchor, CurrentScope

\* A statement or a parameter that opens no scope.
LEMMA StayInScope ==
  ASSUME Shape, Stacks, SameTree(tables'),
         UNCHANGED <<scopeStack, anchors, anchorStack, saved, classType>>,
         nextIds' \in Seq(Nat), Len(nextIds') = Len(nextIds),
         current' \in ScopedStmtRef, Len(members') = Len(members)
  PROVE  Shape' /\ Stacks'
<1>1. NumTypeOK' /\ (tables \in Seq(TableType) /\ scopeStack \in Seq(Nat))'
  BY DEF Shape, NumTypeOK, SameTree
<1>2. Scopes' = Scopes
  BY DEF SameTree, Scopes
<1>3. ScopesAgree'
  <2>1. /\ Len(anchors') = Len(tables') /\ Len(members') = Len(tables')
        /\ scopeStack' = anchorStack' /\ Len(nextIds') = Len(scopeStack')
    BY DEF Shape, ScopesAgree, SameTree
  <2>2. \A s \in Scopes : tables'[s].parent = tables[s].parent
    BY DEF SameTree
  <2>3. \A s \in Scopes : anchors'[s].scope = tables'[s].parent /\ tables'[s].parent < s
    BY <2>2 DEF Shape, ScopesAgree
  <2>4. \A i \in 1..Len(scopeStack) :
          /\ scopeStack[i] \in Scopes
          /\ tables'[scopeStack[i]].parent = IF i = 1 THEN NoScope ELSE scopeStack[i - 1]
    BY <2>2 DEF Shape, ScopesAgree
  <2>5. QED BY <1>2, <2>1, <2>3, <2>4 DEF ScopesAgree
<1>4. TreeInv'
  <2>1. tables' # <<>>
    BY EmptySeq DEF Shape, TreeInv, SameTree
  <2>2. QED BY <1>2, <2>1 DEF Shape, TreeInv, SameTree, IsClassScope
<1>5. SymbolInv'
  BY <1>2 DEF SymbolInv, SameTree
<1>6. QED BY <1>1, <1>3, <1>4, <1>5 DEF Shape, Stacks

LEMMA NewTableType ==
  ASSUME NEW parent \in Nat, NEW owner \in Owners,
         NEW name \in Names \cup Classes \cup {NoClass}
  PROVE  NewTable(parent, owner, name) \in TableType
  BY DEF NewTable, TableType, NoSymbol, SymbolType

\* Every way to enter a scope.
LEMMA EnterAScope ==
  ASSUME Shape, Stacks, NEW tabs, SameTree(tabs),
         NEW ref \in ScopedStmtRef, ref.scope = CurrentScope,
         NEW ids \in Seq(Nat), Len(ids) = Len(nextIds),
         NEW owner \in Owners, NEW name \in Names \cup Classes \cup {NoClass},
         owner = "class" => name \in Classes,
         EnterScopeAt(ref, ids), EnterTable(tabs, owner, name),
         UNCHANGED classType, Len(members') = Len(members) + 1
  PROVE  Shape' /\ Stacks'
<1> DEFINE new == NewTable(CurrentScope, owner, name)
           place == [scope |-> CurrentScopeAnchor, id |-> ref.id]
           k == Len(tables)
           d == Len(scopeStack)
<1>1. /\ CurrentScope \in 1..k /\ CurrentScopeAnchor = CurrentScope
      /\ CurrentScope = scopeStack[d] /\ d \in Nat \ {0}
  BY VisitFacts DEF Scopes
<1>2. /\ k \in Nat /\ Len(anchors) = k /\ Len(members) = k
      /\ scopeStack = anchorStack /\ Len(nextIds) = d
  BY DEF Shape, ScopesAgree
<1>3. new \in TableType /\ place \in ScopedStmtRef
  BY <1>1, <1>2, NewTableType DEF ScopedStmtRef
<1>4. /\ tables' \in Seq(TableType) /\ Len(tables') = k + 1
      /\ \A s \in 1..k : tables'[s] = tabs[s]
      /\ tables'[k + 1] = new
  BY <1>3, AppendType DEF EnterTable, SameTree
<1>5. /\ anchors' \in Seq(ScopedStmtRef) /\ Len(anchors') = k + 1
      /\ \A s \in 1..k : anchors'[s] = anchors[s]
      /\ anchors'[k + 1] = place
  BY SMTT(60), <1>2, <1>3, AppendType DEF EnterScopeAt, Shape, NumTypeOK
<1>6. /\ scopeStack' \in Seq(Nat) /\ Len(scopeStack') = d + 1
      /\ \A i \in 1..d : scopeStack'[i] = scopeStack[i]
      /\ scopeStack'[d + 1] = k + 1
  BY <1>2, AppendType DEF EnterTable, Shape
<1>7. scopeStack' = anchorStack'
  BY <1>2 DEF EnterScopeAt, EnterTable
<1>8. nextIds' \in Seq(Nat) /\ Len(nextIds') = d + 1
  BY <1>2, AppendType DEF EnterScopeAt
<1>9. /\ saved' \in Seq(ScopedStmtRef) /\ Len(saved') = Len(saved) + 1
      /\ \A i \in 1..Len(saved) : saved'[i] = saved[i]
      /\ saved'[Len(saved) + 1] = ref
  BY AppendType DEF EnterScopeAt, Shape, NumTypeOK
<1> HIDE DEF k, d, place
<1>10. NumTypeOK'
  BY <1>5, <1>6, <1>7, <1>8, <1>9 DEF NumTypeOK, EnterScopeAt
<1>11. /\ new.parent = CurrentScope /\ new.owner = owner /\ new.name = name
       /\ \A n \in Names : new.symbols[n] = NoSymbol
       /\ place.scope = CurrentScope
  BY <1>1 DEF NewTable, place
<1> HIDE DEF new
<1>12. \A s \in 1..k : tabs[s].parent = tables[s].parent
  BY DEF SameTree, Scopes, k
<1>13. Scopes' = 1..(k + 1) /\ Scopes = 1..k
  BY <1>4 DEF Scopes, k
<1>14. ScopesAgree'
  <2>1. /\ Len(anchors') = Len(tables') /\ Len(members') = Len(tables')
        /\ scopeStack' = anchorStack' /\ Len(nextIds') = Len(scopeStack')
    BY <1>2, <1>4, <1>5, <1>6, <1>7, <1>8
  <2>2. \A s \in 1..(k + 1) : anchors'[s].scope = tables'[s].parent /\ tables'[s].parent < s
    <3> TAKE s \in 1..(k + 1)
    <3>1. CASE s \in 1..k
      BY <3>1, <1>4, <1>5, <1>12, <1>13 DEF Shape, ScopesAgree
    <3>2. CASE s = k + 1
      BY <3>2, <1>1, <1>2, <1>4, <1>5, <1>11
    <3>3. QED BY <3>1, <3>2, <1>2
  <2>3. \A i \in 1..(d + 1) :
          /\ scopeStack'[i] \in 1..(k + 1)
          /\ tables'[scopeStack'[i]].parent = IF i = 1 THEN NoScope ELSE scopeStack'[i - 1]
    <3> TAKE i \in 1..(d + 1)
    <3>1. CASE i \in 1..d
      <4>1. /\ scopeStack[i] \in 1..k
            /\ tables[scopeStack[i]].parent = IF i = 1 THEN NoScope ELSE scopeStack[i - 1]
        BY <3>1, <1>13 DEF Shape, ScopesAgree, d
      <4>2. i # 1 => scopeStack'[i - 1] = scopeStack[i - 1]
        BY <3>1, <1>1, <1>6
      <4>3. /\ scopeStack'[i] = scopeStack[i] /\ scopeStack[i] \in 1..(k + 1)
            /\ tables'[scopeStack[i]].parent = tables[scopeStack[i]].parent
        <5>1. \A t \in 1..k : t \in 1..(k + 1) /\ tables'[t].parent = tables[t].parent
          BY <1>2, <1>4, <1>12
        <5>2. QED BY <3>1, <4>1, <1>6, <5>1
      <4>4. QED BY <4>1, <4>2, <4>3
    <3>2. CASE i = d + 1
      BY <3>2, <1>1, <1>2, <1>4, <1>6, <1>11
    <3>3. QED BY <3>1, <3>2, <1>1
  <2>4. QED BY <2>1, <2>2, <2>3, <1>6, <1>13 DEF ScopesAgree
<1>15. TreeInv'
  <2>1. tables' # <<>>
    BY <1>2, <1>4, EmptySeq
  <2>2. \A s \in 1..(k + 1) : tables'[s].parent = NoScope <=> s = Root
    <3> TAKE s \in 1..(k + 1)
    <3>1. CASE s \in 1..k
      BY <3>1, <1>4, <1>12, <1>13 DEF Shape, TreeInv
    <3>2. CASE s = k + 1
      BY <3>2, <1>1, <1>2, <1>4, <1>11 DEF NoScope, Root
    <3>3. QED BY <3>1, <3>2, <1>2
  <2>3. \A s \in 1..(k + 1) : tables'[s].owner = "class" => tables'[s].name \in Classes
    <3> TAKE s \in 1..(k + 1)
    <3>1. CASE s \in 1..k
      BY <3>1, <1>4, <1>13 DEF Shape, TreeInv, SameTree, IsClassScope
    <3>2. CASE s = k + 1
      BY <3>2, <1>4, <1>11
    <3>3. QED BY <3>1, <3>2, <1>2
  <2>4. \A c \in Classes : classType'[c].decl \in 0..(k + 1)
    BY <1>2 DEF Shape, TreeInv, k
  <2>5. QED BY <2>1, <2>2, <2>3, <2>4, <1>4, <1>13 DEF TreeInv, IsClassScope
<1>16. SymbolInv'
  <2> SUFFICES ASSUME NEW s \in 1..(k + 1), NEW n \in Names, tables'[s].symbols[n] # NoSymbol
               PROVE  tables'[s].symbols[n].scope = s
    BY <1>13 DEF SymbolInv
  <2>1. CASE s \in 1..k
    BY <2>1, <1>4, <1>13 DEF SameTree
  <2>2. CASE s = k + 1
    BY <2>2, <1>4, <1>11
  <2>3. QED BY <2>1, <2>2, <1>2
<1>17. Stacks'
  <2>1. Len(saved) + 1 = d /\ Len(saved) \in Nat
    BY DEF Stacks, d, Shape, NumTypeOK
  <2>2. scopeStack' # <<>>
    BY <1>1, <1>6, EmptySeq
  <2>3. \A i \in 1..(Len(saved) + 1) : saved'[i].scope = scopeStack'[i]
    <3> TAKE i \in 1..(Len(saved) + 1)
    <3>1. CASE i \in 1..Len(saved)
      BY <3>1, <2>1, <1>6, <1>9 DEF Stacks
    <3>2. CASE i = Len(saved) + 1
      BY <3>2, <2>1, <1>1, <1>6, <1>9
    <3>3. QED BY <3>1, <3>2, <2>1
  <2>4. QED BY <2>1, <2>2, <2>3, <1>6, <1>9 DEF Stacks
<1>18. QED BY <1>4, <1>6, <1>10, <1>14, <1>15, <1>16, <1>17 DEF Shape

\* What both visits do at the end of a scope, the program's included.
LEMMA PopStacks ==
  ASSUME Shape, Stacks,
         anchorStack' = Front(anchorStack), nextIds' = Front(nextIds), LeaveTable,
         UNCHANGED <<anchors, tables, members>>,
         current' \in ScopedStmtRef, saved' \in Seq(ScopedStmtRef),
         \A c \in Classes : classType'[c].decl \in 0..Len(tables)
  PROVE  /\ Shape'
         /\ Len(scopeStack') = Len(scopeStack) - 1
         /\ \A i \in 1..(Len(scopeStack) - 1) : scopeStack'[i] = scopeStack[i]
<1>1. /\ scopeStack \in Seq(Nat) /\ scopeStack # <<>> /\ scopeStack = anchorStack
      /\ nextIds \in Seq(Nat) /\ nextIds # <<>> /\ Len(nextIds) = Len(scopeStack)
      /\ Len(scopeStack) \in Nat \ {0}
  BY VisitFacts DEF Shape, Stacks, NumTypeOK, ScopesAgree
<1>2. /\ scopeStack' \in Seq(Nat) /\ Len(scopeStack') = Len(scopeStack) - 1
      /\ \A i \in 1..(Len(scopeStack) - 1) : scopeStack'[i] = scopeStack[i]
  BY <1>1, FrontProperties DEF LeaveTable
<1>3. nextIds' \in Seq(Nat) /\ Len(nextIds') = Len(scopeStack) - 1
  BY <1>1, FrontProperties
<1>4. anchorStack' = scopeStack'
  BY <1>1 DEF LeaveTable
<1>5. NumTypeOK' /\ (tables \in Seq(TableType) /\ scopeStack \in Seq(Nat))'
  BY <1>2, <1>3, <1>4 DEF Shape, NumTypeOK
<1>6. ScopesAgree'
  <2>1. \A i \in 1..Len(scopeStack') :
          /\ i \in 1..Len(scopeStack) /\ scopeStack'[i] = scopeStack[i]
          /\ i # 1 => scopeStack'[i - 1] = scopeStack[i - 1]
    <3> TAKE i \in 1..Len(scopeStack')
    <3>1. i \in 1..(Len(scopeStack) - 1) /\ (i # 1 => i - 1 \in 1..(Len(scopeStack) - 1))
      BY <1>1, <1>2
    <3>2. i \in 1..Len(scopeStack)
      BY <1>1, <3>1
    <3>3. scopeStack'[i] = scopeStack[i] /\ (i # 1 => scopeStack'[i - 1] = scopeStack[i - 1])
      BY <1>2, <3>1
    <3>4. QED BY <3>2, <3>3
  <2>2. Scopes' = Scopes
    BY DEF Scopes
  <2>3. /\ Len(anchors') = Len(tables') /\ Len(members') = Len(tables')
        /\ scopeStack' = anchorStack' /\ Len(nextIds') = Len(scopeStack')
        /\ \A s \in Scopes : anchors'[s].scope = tables'[s].parent /\ tables'[s].parent < s
    BY <1>2, <1>3, <1>4 DEF Shape, ScopesAgree
  <2>4. \A i \in 1..Len(scopeStack') :
          /\ scopeStack'[i] \in Scopes
          /\ tables'[scopeStack'[i]].parent = IF i = 1 THEN NoScope ELSE scopeStack'[i - 1]
    <3> TAKE i \in 1..Len(scopeStack')
    <3>1. /\ scopeStack[i] \in Scopes
          /\ tables[scopeStack[i]].parent = IF i = 1 THEN NoScope ELSE scopeStack[i - 1]
      BY <2>1 DEF Shape, ScopesAgree
    <3>2. QED BY <2>1, <3>1
  <2>5. QED BY <2>2, <2>3, <2>4 DEF ScopesAgree
<1>7. TreeInv' /\ SymbolInv'
  BY DEF Shape, TreeInv, SymbolInv, Scopes, IsClassScope
<1>8. QED BY <1>2, <1>5, <1>6, <1>7 DEF Shape

LEMMA LeaveAScope ==
  ASSUME Shape, Stacks, CurrentScope # Root, LeaveScopeRestoring, LeaveTable,
         UNCHANGED <<tables, members>>,
         \A c \in Classes : classType'[c].decl \in 0..Len(tables)
  PROVE  Shape' /\ Stacks' /\ current'.scope = CurrentScope'
<1> DEFINE d == Len(scopeStack)
<1>1. /\ CurrentScope = scopeStack[d] /\ d \in Nat \ {0} /\ CurrentScope \in Scopes
      /\ saved \in Seq(ScopedStmtRef) /\ Len(saved) = d - 1
  BY VisitFacts DEF Stacks, Shape, NumTypeOK
<1>2. d # 1
  <2> SUFFICES ASSUME d = 1 PROVE FALSE
    OBVIOUS
  <2>1. tables[scopeStack[1]].parent = NoScope
    BY DEF Shape, ScopesAgree
  <2>2. CurrentScope = Root
    BY <1>1, <2>1 DEF Shape, TreeInv
  <2>3. QED BY <2>2
<1>3. saved # <<>>
  BY <1>1, <1>2, EmptySeq
<1>4. /\ current' \in ScopedStmtRef /\ current' = saved[d - 1]
      /\ saved' \in Seq(ScopedStmtRef) /\ Len(saved') = d - 2
      /\ \A i \in 1..(d - 2) : saved'[i] = saved[i]
  BY <1>1, <1>2, <1>3, LastProperties, FrontProperties DEF LeaveScopeRestoring
<1>5. /\ Shape'
      /\ Len(scopeStack') = d - 1
      /\ \A i \in 1..(d - 1) : scopeStack'[i] = scopeStack[i]
  BY <1>4, PopStacks DEF LeaveScopeRestoring
<1>6. scopeStack' # <<>>
  BY <1>1, <1>2, <1>5, EmptySeq DEF Shape
<1>7. Stacks'
  BY <1>1, <1>2, <1>4, <1>5, <1>6 DEF Stacks
<1>8. CurrentScope' = scopeStack'[d - 1]
  BY <1>5 DEF CurrentScope, Last
<1>9. current'.scope = CurrentScope'
  BY <1>1, <1>2, <1>4, <1>5, <1>8 DEF Stacks
<1>10. QED BY <1>5, <1>7, <1>9

-----------------------------------------------------------------------------
(* What a visit registers: errors, uses *)

LEMMA ReportRejectedType ==
  ASSUME errors \subseteq ErrorType, NEW s \in Nat, NEW id \in Nat, NEW n \in Names,
         ReportRejected(s, id, n)
  PROVE  errors' \subseteq ErrorType
<1>1. \A what \in {"duplicate", "shadowing"} :
        [what |-> what, scope |-> s, id |-> id, name |-> n] \in ErrorType
  BY DEF ErrorType
<1>2. QED BY <1>1 DEF ReportRejected, AddError

LEMMA KeepUses ==
  ASSUME tables \in Seq(TableType), tables' \in Seq(TableType),
         Len(tables) <= Len(tables'), uses \in Seq(UseType), UseInv, UNCHANGED uses
  PROVE  (uses \in Seq(UseType))' /\ UseInv'
<1>1. uses' \in Seq(UseType)
  OBVIOUS
<1>2. Scopes \subseteq Scopes'
  BY DEF Scopes
<1>3. UseInv'
  BY <1>2 DEF UseInv
<1>4. QED BY <1>1, <1>3

LEMMA VisitExpressionUses ==
  ASSUME tables \in Seq(TableType), tables' \in Seq(TableType),
         Len(tables) <= Len(tables'), uses \in Seq(UseType), UseInv,
         CurrentScope \in Scopes, NEW e \in Expressions,
         NEW ref \in ScopedStmtRef, ref.scope = CurrentScope, VisitExpression(e, ref)
  PROVE  (uses \in Seq(UseType))' /\ UseInv'
<1>1. CASE e = NoUse
  BY <1>1, KeepUses DEF VisitExpression
<1>2. CASE e # NoUse
  <2> DEFINE use == [form |-> e, scope |-> CurrentScope, ref |-> ref,
                     before |-> {s \in 1..Len(tables) : <<s, e.name>> \in complete}]
  <2>1. CurrentScope \in Nat /\ {s \in 1..Len(tables) : <<s, e.name>> \in complete} \subseteq Nat
    BY DEF Scopes
  <2>2. use \in UseType
    BY <1>2, <2>1 DEF Expressions, UseType
  <2>3. use.scope = CurrentScope /\ use.ref = ref /\ uses' = Append(uses, use)
    BY <1>2 DEF VisitExpression
  <2> HIDE DEF use
  <2>4. /\ uses' \in Seq(UseType) /\ Len(uses') = Len(uses) + 1
        /\ \A i \in 1..Len(uses) : uses'[i] = uses[i]
        /\ uses'[Len(uses) + 1] = use
    BY <2>2, <2>3, AppendType
  <2>5. Scopes \subseteq Scopes'
    BY DEF Scopes
  <2>6. UseInv'
    <3> SUFFICES ASSUME NEW i \in 1..(Len(uses) + 1)
                 PROVE  uses'[i].scope \in Scopes' /\ uses'[i].ref.scope = uses'[i].scope
      BY <2>4 DEF UseInv
    <3>1. CASE i \in 1..Len(uses)
      BY <3>1, <2>4, <2>5 DEF UseInv
    <3>2. CASE i = Len(uses) + 1
      BY <3>2, <2>3, <2>4, <2>5
    <3>3. QED BY <3>1, <3>2
  <2>7. QED BY <2>4, <2>6
<1>3. QED BY <1>1, <1>2

-----------------------------------------------------------------------------
(* The visits *)

\* What IInv says while the program is visited.
LEMMA Visiting ==
  ASSUME IInv, phase = "visit"
  PROVE  /\ Shape /\ Stacks /\ TableTypeOK /\ SymbolInv /\ ClassTypeOK /\ BuilderTypeOK /\ UseInv
         /\ tables \in Seq(TableType) /\ errors \subseteq ErrorType /\ uses \in Seq(UseType)
         /\ Len(tables) \in Nat /\ Len(members) = Len(tables)
  BY DEF IInv, TypeOK, TableTypeOK, BuilderTypeOK, Shape, Stacks, VisitInv, ScopesAgree

\* What a visit has to show for IInv.
LEMMA VisitStep ==
  ASSUME IInv, phase = "visit", UNCHANGED resolverVars,
         Shape', (errors \subseteq ErrorType)', ClassTypeOK', BuilderTypeOK', UseInv',
         phase' \in {"visit", "resolve"},
         phase' = "visit" => Stacks' /\ (elseTail' => current'.scope = CurrentScope')
  PROVE  IInv'
<1>1. step' = "next" /\ cursor' = 0
  BY DEF IInv, VisitInv, resolverVars
<1>2. TypeOK'
  <2>1. ResolverTypeOK'
    BY DEF IInv, TypeOK, ResolverTypeOK, resolverVars
  <2>2. QED BY <2>1 DEF TypeOK, Shape, TableTypeOK
<1>3. VisitInv'
  BY <1>1 DEF VisitInv, Stacks
<1>4. WalkInv'
  <2>1. 0 <= Len(uses')
    BY DEF BuilderTypeOK
  <2>2. QED BY <1>1, <2>1 DEF WalkInv
<1>5. QED BY <1>2, <1>3, <1>4 DEF IInv, Shape, ProjectionNeverFails

LEMMA SymbolTypeOf ==
  ASSUME NEW kind \in SymbolKinds, NEW ref, NEW type \in Classes \cup {NoClass},
         ref.scope \in Nat, ref.id \in Nat
  PROVE  Symbol(kind, ref, type) \in SymbolType /\ Symbol(kind, ref, type).scope = ref.scope
  BY DEF Symbol, SymbolType

\* The names and the types the visits choose are those of the constants.
LEMMA Chosen ==
  /\ VarNames \subseteq Names
  /\ VarTypes \subseteq Classes \cup {NoClass}
  BY BuilderAssumption

\* BuilderTypeOK' for a visit that adds a statement and completes (s, n).
LEMMA BuilderTypeAfter ==
  ASSUME BuilderTypeOK, phase' \in {"visit", "resolve"}, elseTail' \in BOOLEAN,
         statements' \in Nat, (uses \in Seq(UseType))',
         \/ UNCHANGED complete
         \/ \E s \in Nat, n \in Names \cup Classes \cup {NoClass} : Completed(s, n)
  PROVE  BuilderTypeOK'
<1>1. complete' \subseteq (Nat \X (Names \cup Classes \cup {NoClass}))
  <2>1. CASE UNCHANGED complete
    BY <2>1 DEF BuilderTypeOK
  <2>2. CASE \E s \in Nat, n \in Names \cup Classes \cup {NoClass} : Completed(s, n)
    <3>1. PICK s \in Nat, n \in Names \cup Classes \cup {NoClass} : Completed(s, n)
      BY <2>2
    <3>2. complete' = complete \cup {<<s, n>>}
      BY <3>1 DEF Completed
    <3>3. <<s, n>> \in Nat \X (Names \cup Classes \cup {NoClass})
      OBVIOUS
    <3>4. QED BY <3>2, <3>3 DEF BuilderTypeOK
  <2>3. QED BY <2>1, <2>2
<1>2. phase' \in {"visit", "resolve"} \cup Ends
  OBVIOUS
<1>3. QED BY <1>1, <1>2 DEF BuilderTypeOK, Ends

LEMMA TakenStatement ==
  ASSUME BuilderTypeOK, TakeStatement
  PROVE  phase = "visit" /\ statements' \in Nat /\ elseTail' \in BOOLEAN /\ ~elseTail'
<1>1. phase = "visit" /\ statements' \in Nat
  BY DEF BuilderTypeOK, TakeStatement
<1>2. elseTail' \in BOOLEAN /\ ~elseTail'
  BY Zenon DEF TakeStatement
<1>3. QED BY <1>1, <1>2

\* AcquireStatement, and symbols added to the current tables.
LEMMA LeafStatement ==
  ASSUME IInv, TakeStatement, AcquireStatement, SameTree(tables'),
         UNCHANGED <<scopeStack, classType, phase>>, Len(members') = Len(members),
         ClassTypeOK', errors' \subseteq ErrorType,
         NEW e \in Expressions, VisitExpression(e, NextStmtRef),
         \/ UNCHANGED complete
         \/ \E s \in Nat, n \in Names \cup Classes \cup {NoClass} : Completed(s, n),
         UNCHANGED resolverVars
  PROVE  IInv'
<1>1. phase = "visit" /\ statements' \in Nat /\ elseTail' \in BOOLEAN /\ ~elseTail'
  BY TakenStatement DEF IInv, TypeOK
<1>2. /\ Shape /\ Stacks /\ BuilderTypeOK /\ UseInv
      /\ tables \in Seq(TableType) /\ uses \in Seq(UseType)
  BY <1>1, Visiting
<1>3. /\ CurrentScope \in Scopes /\ NextStmtRef \in ScopedStmtRef
      /\ NextStmtRef.scope = CurrentScope
      /\ CountersAfterAcquire \in Seq(Nat) /\ Len(CountersAfterAcquire) = Len(nextIds)
  BY <1>2, VisitFacts
<1>4. Shape' /\ Stacks'
  BY <1>2, <1>3, StayInScope DEF AcquireStatement
<1>5. (uses \in Seq(UseType))' /\ UseInv'
  <2>1. tables' \in Seq(TableType) /\ Len(tables) <= Len(tables')
    BY <1>2 DEF SameTree
  <2>2. QED BY <1>2, <1>3, <2>1, VisitExpressionUses
<1>6. BuilderTypeOK'
  BY <1>1, <1>2, <1>5, BuilderTypeAfter
<1>7. QED BY <1>1, <1>4, <1>5, <1>6, VisitStep

\* A node that opens a scope, with the number ref, after the symbols in tabs.
LEMMA ScopeStatement ==
  ASSUME IInv, phase = "visit", UNCHANGED <<phase, classType, complete>>,
         statements' \in Nat, elseTail' \in BOOLEAN, ~elseTail',
         NEW tabs, SameTree(tabs),
         NEW ref \in ScopedStmtRef, ref.scope = CurrentScope,
         NEW ids \in Seq(Nat), Len(ids) = Len(nextIds), EnterScopeAt(ref, ids),
         NEW owner \in Owners, NEW name \in Names \cup Classes \cup {NoClass},
         owner = "class" => name \in Classes, EnterTable(tabs, owner, name),
         ClassTypeOK', Len(members') = Len(members) + 1, errors' \subseteq ErrorType,
         NEW e \in Expressions, VisitExpression(e, ref), UNCHANGED resolverVars
  PROVE  IInv'
<1>1. /\ Shape /\ Stacks /\ BuilderTypeOK /\ UseInv
      /\ tables \in Seq(TableType) /\ uses \in Seq(UseType)
  BY Visiting
<1>2. Shape' /\ Stacks'
  BY <1>1, EnterAScope
<1>3. (uses \in Seq(UseType))' /\ UseInv'
  <2>1. tables' \in Seq(TableType) /\ Len(tables) <= Len(tables')
    <3>1. tables' \in Seq(TableType)
      BY <1>2 DEF Shape
    <3>2. Len(tables') = Len(tabs) + 1 /\ Len(tabs) = Len(tables)
      BY DEF EnterTable, SameTree
    <3>3. QED BY <1>1, <3>1, <3>2
  <2>2. CurrentScope \in Scopes
    BY <1>1, VisitFacts
  <2>3. QED BY <1>1, <2>1, <2>2, VisitExpressionUses
<1>4. BuilderTypeOK'
  BY <1>1, <1>3, BuilderTypeAfter
<1>5. QED BY <1>2, <1>3, <1>4, VisitStep

LEMMA MemberTypes ==
  ASSUME ClassTypeOK, NEW s \in 1..Len(members), NEW n \in Names, NEW member \in MemberType
  PROVE  /\ MembersAfterAdd(s, n, member) \in Seq([Names -> MemberType])
         /\ Len(MembersAfterAdd(s, n, member)) = Len(members)
<1> DEFINE row == [members[s] EXCEPT ![n] = member]
<1>1. members \in Seq([Names -> MemberType]) /\ members[s] \in [Names -> MemberType]
  BY ElementOfSeq DEF ClassTypeOK
<1>2. row \in [Names -> MemberType]
  BY <1>1
<1>3. /\ [members EXCEPT ![s] = row] \in Seq([Names -> MemberType])
      /\ Len([members EXCEPT ![s] = row]) = Len(members)
  <2> HIDE DEF row
  <2>1. QED BY <1>1, <1>2, ExceptSeq
<1>4. [members EXCEPT ![s][n] = member] = [members EXCEPT ![s] = row]
  OBVIOUS
<1>5. QED BY <1>1, <1>3, <1>4 DEF MembersAfterAdd

LEMMA NoMembersType ==
  ASSUME NEW mems \in Seq([Names -> MemberType])
  PROVE  /\ Append(mems, NoMembers) \in Seq([Names -> MemberType])
         /\ Len(Append(mems, NoMembers)) = Len(mems) + 1
<1>1. NoMembers \in [Names -> MemberType]
  BY DEF NoMembers, NoMember, MemberType
<1>2. QED BY <1>1, AppendType

-----------------------------------------------------------------------------
(* One lemma per action of ScopeBuilder *)

LEMMA DeclareVariableStep ==
  ASSUME IInv, UNCHANGED resolverVars, NEW n \in VarNames, NEW type \in VarTypes,
         NEW e \in Expressions, DeclareVariable(n, type, e)
  PROVE  IInv'
<1> USE Chosen
<1>1. TakeStatement /\ phase = "visit"
  BY DEF DeclareVariable, TakeStatement
<1>2. /\ CurrentScope \in Scopes /\ CurrentScope \in Nat /\ NextStmtRef.scope = CurrentScope
      /\ NextStmtRef \in ScopedStmtRef /\ NextStmtRef.id \in Nat
  BY <1>1, Visiting, VisitFacts DEF Scopes, ScopedStmtRef
<1>3. SameTree(tables')
  BY <1>1, <1>2, Visiting, SymbolTypeOf, TablesAfterAddSameTree DEF DeclareVariable, SymbolKinds
<1>4. errors' \subseteq ErrorType
  BY <1>1, <1>2, Visiting, ReportRejectedType DEF DeclareVariable
<1>5. ClassTypeOK' /\ Len(members') = Len(members)
  BY <1>1, Visiting DEF DeclareVariable, classVars, ClassTypeOK
<1>6. QED BY <1>1, <1>2, <1>3, <1>4, <1>5, LeafStatement DEF DeclareVariable, classVars

LEMMA DeclareFieldStep ==
  ASSUME IInv, UNCHANGED resolverVars, NEW n \in VarNames, NEW type \in VarTypes,
         NEW e \in Expressions, DeclareField(n, type, e)
  PROVE  IInv'
<1> USE Chosen
<1>1. TakeStatement /\ phase = "visit"
  BY DEF DeclareField, TakeStatement
<1>2. /\ CurrentScope \in Scopes /\ CurrentScope \in Nat /\ NextStmtRef.scope = CurrentScope
      /\ NextStmtRef \in ScopedStmtRef /\ NextStmtRef.id \in Nat
  BY <1>1, Visiting, VisitFacts DEF Scopes, ScopedStmtRef
<1>3. SameTree(tables')
  BY <1>1, <1>2, Visiting, SymbolTypeOf, TablesAfterAddSameTree DEF DeclareField, SymbolKinds
<1>4. errors' \subseteq ErrorType
  BY <1>1, <1>2, Visiting, ReportRejectedType DEF DeclareField
<1>5. ClassTypeOK' /\ Len(members') = Len(members)
  <2>1. [kind |-> "Field", id |-> NextStmtRef.id, type |-> type] \in MemberType
    BY <1>2 DEF MemberType, MemberKinds
  <2>2. CurrentScope \in 1..Len(members)
    BY <1>1, <1>2, Visiting DEF Scopes
  <2>3. /\ members' \in Seq([Names -> MemberType]) /\ Len(members') = Len(members)
        /\ UNCHANGED classType
    BY <1>1, <2>1, <2>2, Visiting, MemberTypes DEF DeclareField
  <2>4. QED BY <1>1, <2>3, Visiting DEF ClassTypeOK
<1>6. QED BY <1>1, <1>2, <1>3, <1>4, <1>5, LeafStatement DEF DeclareField

LEMMA VisitUseStep ==
  ASSUME IInv, UNCHANGED resolverVars, NEW e \in UseForms, VisitUse(e)
  PROVE  IInv'
<1>1. TakeStatement /\ phase = "visit" /\ e \in Expressions
  BY DEF VisitUse, TakeStatement, Expressions
<1>2. SameTree(tables')
  BY <1>1, Visiting, SameTreeItself DEF VisitUse, tableVars
<1>3. ClassTypeOK' /\ errors' \subseteq ErrorType
  BY <1>1, Visiting DEF VisitUse, classVars, tableVars, ClassTypeOK
<1>4. QED BY <1>1, <1>2, <1>3, LeafStatement DEF VisitUse, classVars, tableVars

LEMMA DeclareParameterStep ==
  ASSUME IInv, UNCHANGED resolverVars, NEW n \in VarNames, NEW type \in VarTypes,
         DeclareParameter(n, type)
  PROVE  IInv'
<1> USE Chosen
<1> DEFINE ref == [scope |-> CurrentScope, id |-> 0]
<1>1. phase = "visit"
  BY DEF DeclareParameter
<1>2. CurrentScope \in Scopes /\ CurrentScope \in Nat /\ ref.scope = CurrentScope
  BY <1>1, Visiting, VisitFacts DEF Scopes
<1>3. SameTree(tables')
  BY <1>1, <1>2, Visiting, SymbolTypeOf, TablesAfterAddSameTree DEF DeclareParameter, SymbolKinds
<1>4. errors' \subseteq ErrorType
  BY <1>1, <1>2, Visiting, ReportRejectedType DEF DeclareParameter
<1>5. UNCHANGED <<anchors, anchorStack, nextIds, current, saved, scopeStack, classType, members,
                  phase, statements, elseTail, uses>>
  BY DEF DeclareParameter, numVars, classVars
<1>6. Shape' /\ Stacks'
  BY <1>1, <1>3, <1>5, Visiting, StayInScope DEF Shape, NumTypeOK
<1>7. (uses \in Seq(UseType))' /\ UseInv'
  <2>1. tables' \in Seq(TableType) /\ Len(tables) <= Len(tables')
    BY <1>1, <1>3, Visiting DEF SameTree
  <2>2. QED BY <1>1, <1>5, <2>1, Visiting, KeepUses
<1>8. BuilderTypeOK'
  <2>1. statements' \in Nat /\ elseTail' \in BOOLEAN
    BY <1>1, <1>5, Visiting DEF BuilderTypeOK
  <2>2. QED BY <1>1, <1>2, <1>5, <1>7, <2>1, Visiting, BuilderTypeAfter DEF DeclareParameter
<1>9. ClassTypeOK'
  BY <1>1, <1>5, Visiting DEF ClassTypeOK
<1>10. elseTail' => current'.scope = CurrentScope'
  BY <1>1, <1>5 DEF IInv, VisitInv, CurrentScope
<1>11. QED BY <1>1, <1>4, <1>5, <1>6, <1>7, <1>8, <1>9, <1>10, VisitStep

\* AddFunctionAndEnterBody, with what the class keeps of a method in mems.
LEMMA FunctionStep ==
  ASSUME IInv, UNCHANGED resolverVars, TakeStatement, NEW n \in Names, AddFunctionAndEnterBody(n),
         NEW mems \in Seq([Names -> MemberType]), Len(mems) = Len(members),
         members' = Append(mems, NoMembers)
  PROVE  IInv'
<1> DEFINE tabs == TablesAfterAdd(CurrentScope, n, Symbol("Function", NextStmtRef, NoClass))
<1>1. /\ phase = "visit" /\ statements' \in Nat /\ elseTail' \in BOOLEAN /\ ~elseTail'
      /\ UNCHANGED <<phase, classType, complete, uses>>
  BY TakenStatement DEF IInv, TypeOK, AddFunctionAndEnterBody
<1>2. /\ CurrentScope \in Scopes /\ CurrentScope \in Nat /\ NextStmtRef.scope = CurrentScope
      /\ NextStmtRef \in ScopedStmtRef /\ NextStmtRef.id \in Nat
      /\ CountersAfterAcquire \in Seq(Nat) /\ Len(CountersAfterAcquire) = Len(nextIds)
  BY <1>1, Visiting, VisitFacts DEF Scopes, ScopedStmtRef
<1>3. SameTree(tabs)
  BY <1>1, <1>2, Visiting, SymbolTypeOf, TablesAfterAddSameTree DEF SymbolKinds
<1>4. /\ EnterScopeAt(NextStmtRef, CountersAfterAcquire)
      /\ EnterTable(tabs, "function", n)
      /\ ReportRejected(CurrentScope, NextStmtRef.id, n)
  BY DEF AddFunctionAndEnterBody, AcquireAndEnterScope
<1> HIDE DEF tabs
<1>5. errors' \subseteq ErrorType
  BY <1>1, <1>2, <1>4, Visiting, ReportRejectedType
<1>6. ClassTypeOK' /\ Len(members') = Len(members) + 1
  <2>1. members' \in Seq([Names -> MemberType]) /\ Len(members') = Len(members) + 1
    BY NoMembersType
  <2>2. QED BY <1>1, <2>1, Visiting DEF ClassTypeOK
<1>7. NoUse \in Expressions /\ VisitExpression(NoUse, NextStmtRef)
  BY <1>1 DEF Expressions, VisitExpression
<1>8. "function" \in Owners
  BY DEF Owners
<1>9. QED BY <1>1, <1>2, <1>3, <1>4, <1>5, <1>6, <1>7, <1>8, ScopeStatement

LEMMA DeclareFunctionStep ==
  ASSUME IInv, UNCHANGED resolverVars, NEW n \in Names, DeclareFunction(n)
  PROVE  IInv'
<1>1. phase = "visit"
  BY DEF DeclareFunction, TakeStatement
<1>2. members \in Seq([Names -> MemberType])
  BY <1>1, Visiting DEF ClassTypeOK
<1>3. QED BY <1>2, FunctionStep DEF DeclareFunction

LEMMA DeclareMethodStep ==
  ASSUME IInv, UNCHANGED resolverVars, NEW n \in Names, DeclareMethod(n)
  PROVE  IInv'
<1> DEFINE member == [kind |-> "Method", id |-> NextStmtRef.id, type |-> NoClass]
           mems == MembersAfterAdd(CurrentScope, n, member)
<1>1. phase = "visit"
  BY DEF DeclareMethod, TakeStatement
<1>2. CurrentScope \in Scopes /\ NextStmtRef.id \in Nat
  BY <1>1, Visiting, VisitFacts DEF ScopedStmtRef
<1>3. member \in MemberType /\ CurrentScope \in 1..Len(members)
  BY <1>1, <1>2, Visiting DEF MemberType, MemberKinds, Scopes
<1>4. mems \in Seq([Names -> MemberType]) /\ Len(mems) = Len(members)
  <2> HIDE DEF member
  <2>1. QED BY <1>1, <1>3, Visiting, MemberTypes
<1>5. QED BY <1>4, FunctionStep DEF DeclareMethod

\* A scope without a symbol of its own: a class, a block, an if, an else.
LEMMA PlainScopeStep ==
  ASSUME IInv, phase = "visit", UNCHANGED <<resolverVars, errors, phase, classType, complete>>,
         statements' \in Nat, elseTail' \in BOOLEAN, ~elseTail',
         NEW ref \in ScopedStmtRef, ref.scope = CurrentScope,
         NEW ids \in Seq(Nat), Len(ids) = Len(nextIds), EnterScopeAt(ref, ids),
         NEW owner \in Owners, NEW name \in Names \cup Classes \cup {NoClass},
         owner = "class" => name \in Classes, EnterTable(tables, owner, name),
         members' = Append(members, NoMembers),
         NEW e \in Expressions, VisitExpression(e, ref)
  PROVE  IInv'
<1>1. SameTree(tables) /\ errors' \subseteq ErrorType
  BY Visiting, SameTreeItself
<1>2. ClassTypeOK' /\ Len(members') = Len(members) + 1
  <2>1. members' \in Seq([Names -> MemberType]) /\ Len(members') = Len(members) + 1
    BY Visiting, NoMembersType DEF ClassTypeOK
  <2>2. QED BY <2>1, Visiting DEF ClassTypeOK
<1>3. QED BY <1>1, <1>2, ScopeStatement

\* The facts PlainScopeStep needs of a statement with a number of its own.
LEMMA OwnNumber ==
  ASSUME IInv, TakeStatement
  PROVE  /\ phase = "visit" /\ statements' \in Nat /\ elseTail' \in BOOLEAN /\ ~elseTail'
         /\ NextStmtRef \in ScopedStmtRef /\ NextStmtRef.scope = CurrentScope
         /\ CountersAfterAcquire \in Seq(Nat) /\ Len(CountersAfterAcquire) = Len(nextIds)
  BY TakenStatement, Visiting, VisitFacts DEF IInv, TypeOK

LEMMA DeclareClassStep ==
  ASSUME IInv, UNCHANGED resolverVars, NEW c \in Classes, DeclareClass(c)
  PROVE  IInv'
<1>1. /\ "class" \in Owners /\ NoUse \in Expressions
      /\ UNCHANGED uses => VisitExpression(NoUse, NextStmtRef)
  BY DEF Owners, Expressions, VisitExpression
<1>2. QED BY <1>1, OwnNumber, PlainScopeStep DEF DeclareClass, AcquireAndEnterScope

LEMMA VisitBlockStep ==
  ASSUME IInv, UNCHANGED resolverVars, VisitBlock
  PROVE  IInv'
<1>1. /\ "block" \in Owners /\ NoUse \in Expressions
      /\ UNCHANGED uses => VisitExpression(NoUse, NextStmtRef)
  BY DEF Owners, BlockOwners, Expressions, VisitExpression
<1>2. QED BY <1>1, OwnNumber, PlainScopeStep DEF VisitBlock, AcquireAndEnterScope

LEMMA VisitIfStep ==
  ASSUME IInv, UNCHANGED resolverVars, NEW e \in Expressions, VisitIf(e)
  PROVE  IInv'
<1>1. "then" \in Owners
  BY DEF Owners, BlockOwners
<1>2. QED BY <1>1, OwnNumber, PlainScopeStep DEF VisitIf, AcquireAndEnterScope

LEMMA VisitElseStep ==
  ASSUME IInv, UNCHANGED resolverVars, NEW owner \in {"then", "else"}, NEW e \in Expressions,
         VisitElse(owner, e)
  PROVE  IInv'
<1>1. phase = "visit" /\ elseTail
  BY DEF VisitElse
<1>2. current \in ScopedStmtRef /\ current.scope = CurrentScope /\ nextIds \in Seq(Nat)
  BY <1>1 DEF IInv, TypeOK, NumTypeOK, VisitInv
<1>3. statements' \in Nat /\ elseTail' \in BOOLEAN /\ ~elseTail'
  <2>1. statements' \in Nat
    BY <1>1, Visiting DEF VisitElse, BuilderTypeOK
  <2>2. elseTail' \in BOOLEAN /\ ~elseTail'
    BY Zenon DEF VisitElse
  <2>3. QED BY <2>1, <2>2
<1>4. owner \in Owners /\ owner # "class"
  BY DEF Owners, BlockOwners
<1>5. QED BY <1>1, <1>2, <1>3, <1>4, PlainScopeStep DEF VisitElse, EnterScopeInStatement

LEMMA LeaveScopeStep ==
  ASSUME IInv, UNCHANGED resolverVars, NEW base \in Classes \cup {NoClass}, LeaveScope(base)
  PROVE  IInv'
<1>1. /\ phase = "visit" /\ CurrentScope # Root /\ LeaveScopeRestoring /\ LeaveTable
      /\ UNCHANGED <<tables, errors, members, phase, statements, uses>>
  BY DEF LeaveScope
<1>2. /\ CurrentScope \in Scopes /\ CurrentScope \in 1..Len(tables)
      /\ tables[CurrentScope] \in TableType
  BY <1>1, Visiting, VisitFacts, ElementOfSeq DEF Scopes
<1>3. /\ tables[CurrentScope].parent \in Nat
      /\ tables[CurrentScope].name \in Names \cup Classes \cup {NoClass}
  BY <1>2 DEF TableType
<1>4. ClassTypeOK' /\ \A c \in Classes : classType'[c].decl \in 0..Len(tables)
  <2>1. classType \in [Classes -> [decl : Nat, base : Classes \cup {NoClass}]]
    BY <1>1, Visiting DEF ClassTypeOK
  <2>2. CASE Owner = "class"
    <3>1. classType' = [classType EXCEPT ![tables[CurrentScope].name] =
                          [decl |-> CurrentScope, base |-> base]]
      BY <2>2 DEF LeaveScope, SyncClassType
    <3>2. [decl |-> CurrentScope, base |-> base] \in [decl : Nat, base : Classes \cup {NoClass}]
      BY <1>2
    <3>3. classType' \in [Classes -> [decl : Nat, base : Classes \cup {NoClass}]]
      BY <2>1, <3>1, <3>2
    <3>4. \A c \in Classes : classType'[c].decl \in 0..Len(tables)
      BY <1>1, <1>2, <2>1, <3>1, Visiting DEF Shape, TreeInv
    <3>5. QED BY <1>1, <3>3, <3>4, Visiting DEF ClassTypeOK
  <2>3. CASE Owner # "class"
    <3>1. UNCHANGED classType
      BY <2>3 DEF LeaveScope
    <3>2. QED BY <1>1, <3>1, Visiting DEF ClassTypeOK, Shape, TreeInv
  <2>4. QED BY <2>2, <2>3
<1>5. Shape' /\ Stacks' /\ current'.scope = CurrentScope'
  BY <1>1, <1>4, Visiting, LeaveAScope
<1>6. (uses \in Seq(UseType))' /\ UseInv'
  <2>1. tables' \in Seq(TableType) /\ Len(tables) <= Len(tables')
    BY <1>1, Visiting
  <2>2. QED BY <1>1, <2>1, Visiting, KeepUses
<1>7. BuilderTypeOK'
  <2>1. statements' \in Nat
    BY <1>1, Visiting DEF BuilderTypeOK
  <2>2. elseTail' \in BOOLEAN
    <3>1. elseTail' = (Owner = "then")
      BY DEF LeaveScope
    <3>2. QED BY <3>1, Zenon
  <2>3. \/ UNCHANGED complete
        \/ \E s \in Nat, n \in Names \cup Classes \cup {NoClass} : Completed(s, n)
    BY <1>3 DEF LeaveScope
  <2>4. QED BY <1>1, <1>6, <2>1, <2>2, <2>3, Visiting, BuilderTypeAfter
<1>8. QED BY <1>1, <1>4, <1>5, <1>6, <1>7, Visiting, VisitStep

LEMMA EndProgramStep ==
  ASSUME IInv, UNCHANGED resolverVars, EndProgram
  PROVE  IInv'
<1>1. /\ phase = "visit" /\ phase' = "resolve" /\ LeaveRootScope /\ LeaveTable
      /\ UNCHANGED <<tables, errors, classType, members, statements, uses, complete>>
  BY DEF EndProgram, classVars
<1>2. Shape'
  <2>1. current' \in ScopedStmtRef /\ saved' \in Seq(ScopedStmtRef)
    BY <1>1, Visiting DEF LeaveRootScope, NoRef, NoScope, ScopedStmtRef, Shape, NumTypeOK
  <2>2. \A c \in Classes : classType'[c].decl \in 0..Len(tables)
    BY <1>1, Visiting DEF Shape, TreeInv
  <2>3. QED BY <1>1, <2>1, <2>2, Visiting, PopStacks DEF LeaveRootScope
<1>3. (uses \in Seq(UseType))' /\ UseInv'
  <2>1. tables' \in Seq(TableType) /\ Len(tables) <= Len(tables')
    BY <1>1, Visiting
  <2>2. QED BY <1>1, <2>1, Visiting, KeepUses
<1>4. BuilderTypeOK'
  <2>1. statements' \in Nat
    BY <1>1, Visiting DEF BuilderTypeOK
  <2>2. elseTail' \in BOOLEAN
    BY Zenon DEF EndProgram
  <2>3. QED BY <1>1, <1>3, <2>1, <2>2, Visiting, BuilderTypeAfter
<1>5. ClassTypeOK' /\ errors' \subseteq ErrorType
  BY <1>1, Visiting DEF ClassTypeOK
<1>6. QED BY <1>1, <1>2, <1>3, <1>4, <1>5, VisitStep

-----------------------------------------------------------------------------
(* The resolver: what its steps are made of *)

\* What a step of the resolver has to show for IInv.
LEMMA ResolveStep ==
  ASSUME IInv, phase = "resolve", UNCHANGED programVars,
         phase' \in {"resolve", "done", "assertion failed"},
         errors' \subseteq ErrorType, ResolverTypeOK', WalkInv'
  PROVE  IInv'
<1>1. /\ UNCHANGED <<anchors, anchorStack, nextIds, current, saved, tables, scopeStack>>
      /\ UNCHANGED <<classType, members, statements, elseTail, uses, complete>>
  BY DEF programVars, numVars, classVars
<1>2. NumTypeOK' /\ TableTypeOK' /\ ClassTypeOK'
  BY <1>1 DEF IInv, TypeOK, NumTypeOK, TableTypeOK, ClassTypeOK
<1>3. BuilderTypeOK'
  <2>1. phase' \in {"visit", "resolve"} \cup Ends
    BY DEF Ends
  <2>2. QED BY <1>1, <2>1 DEF IInv, TypeOK, BuilderTypeOK, Ends
<1>4. ScopesAgree' /\ TreeInv' /\ SymbolInv' /\ UseInv'
  BY <1>1 DEF IInv, ScopesAgree, TreeInv, SymbolInv, UseInv, Scopes, IsClassScope
<1>5. VisitInv' /\ ProjectionNeverFails'
  BY DEF VisitInv, ProjectionNeverFails
<1>6. QED BY <1>2, <1>3, <1>4, <1>5 DEF IInv, TypeOK

\* The use in hand.
LEMMA UseFacts ==
  ASSUME IInv, cursor > 0
  PROVE  /\ Use.form.name \in Names /\ Use.form.member \in Names
         /\ Use.scope \in Scopes /\ Use.scope \in Nat
         /\ Use.ref \in ScopedStmtRef /\ Use.ref.id \in Nat /\ Use.ref.scope = Use.scope
<1>1. uses \in Seq(UseType) /\ cursor \in 1..Len(uses)
  BY DEF IInv, TypeOK, BuilderTypeOK, ResolverTypeOK, WalkInv
<1>2. Use \in UseType
  BY <1>1, ElementOfSeq DEF Use
<1>3. Use.form \in AllUseForms
  BY <1>2, BuilderAssumption DEF UseType
<1>4. Use.form.name \in Names /\ Use.form.member \in Names
  BY <1>3 DEF AllUseForms
<1>5. Use.scope \in Nat /\ Use.ref \in ScopedStmtRef /\ Use.ref.id \in Nat
  BY <1>2 DEF UseType, ScopedStmtRef
<1>6. Use.scope \in Scopes /\ Use.ref.scope = Use.scope
  BY <1>1 DEF IInv, UseInv, Use
<1>7. QED BY <1>4, <1>5, <1>6

\* The table in hand.
LEMMA WalkFacts ==
  ASSUME IInv, step \in {"scope", "project", "fallback"}
  PROVE  /\ cursor > 0 /\ walk \in Scopes /\ walk \in trail /\ trail \subseteq Scopes
         /\ Use.scope \in trail /\ \A s \in trail : s = walk \/ tables[s].parent \in trail
         /\ tables[walk] \in TableType /\ tables[walk].parent \in Nat
         /\ tables[walk].parent < walk
         /\ SymbolHere \in SymbolType
         /\ SymbolHere # NoSymbol => SymbolHere.scope = walk
         /\ IsClassScope(walk) => tables[walk].name \in Classes
<1>1. /\ cursor > 0 /\ walk \in Scopes /\ walk \in trail /\ trail \subseteq Scopes
      /\ Use.scope \in trail /\ \A s \in trail : s = walk \/ tables[s].parent \in trail
  BY DEF IInv, WalkInv
<1>2. tables[walk] \in TableType
  BY <1>1, ElementOfSeq DEF IInv, TypeOK, TableTypeOK, Scopes
<1>3. tables[walk].parent \in Nat /\ tables[walk].symbols \in [Names -> SymbolType]
  BY <1>2 DEF TableType
<1>4. SymbolHere \in SymbolType
  BY <1>1, <1>3, UseFacts DEF SymbolHere
<1>5. tables[walk].parent < walk /\ (IsClassScope(walk) => tables[walk].name \in Classes)
  BY <1>1 DEF IInv, ScopesAgree, TreeInv
<1>6. SymbolHere # NoSymbol => SymbolHere.scope = walk
  BY <1>1, UseFacts DEF IInv, SymbolInv, SymbolHere
<1>7. QED BY <1>1, <1>2, <1>3, <1>4, <1>5, <1>6

LEMMA ErrorOfUse ==
  ASSUME IInv, cursor > 0, NEW n \in Names,
         NEW what \in {"use before def", "not a function", "not a class object",
                       "unknown class", "unknown member"},
         AddError(what, Use.scope, Use.ref.id, n)
  PROVE  errors' \subseteq ErrorType
<1>1. errors \subseteq ErrorType
  BY DEF IInv, TypeOK, TableTypeOK
<1>2. [what |-> what, scope |-> Use.scope, id |-> Use.ref.id, name |-> n] \in ErrorType
  BY UseFacts DEF ErrorType
<1>3. QED BY <1>1, <1>2 DEF AddError

LEMMA AdvanceKeeps ==
  ASSUME IInv, Advance, UNCHANGED <<cursor, uses>>, resolved' \in Seq(SymbolType)
  PROVE  ResolverTypeOK' /\ WalkInv'
<1>1. step' = "next" /\ UNCHANGED <<walk, proj, lookup, trail>>
  BY DEF Advance
<1>2. ResolverTypeOK'
  BY <1>1 DEF IInv, TypeOK, ResolverTypeOK, Steps
<1>3. WalkInv'
  BY <1>1 DEF IInv, WalkInv
<1>4. QED BY <1>2, <1>3

LEMMA NoSymbolType == NoSymbol \in SymbolType
  BY DEF NoSymbol, SymbolType

LEMMA WalkOnKeeps ==
  ASSUME IInv, step \in {"scope", "project", "fallback"}, UNCHANGED <<cursor, programVars>>,
         WalkOn
  PROVE  errors' \subseteq ErrorType /\ ResolverTypeOK' /\ WalkInv'
<1> DEFINE parent == tables[walk].parent
<1>1. UNCHANGED <<uses, tables>>
  BY DEF programVars
<1>2. CASE parent = NoScope
  <2>1. resolved' \in Seq(SymbolType)
    <3>1. resolved' = Append(resolved, NoSymbol)
      BY <1>2 DEF WalkOn
    <3>2. QED BY <3>1, NoSymbolType, AppendType DEF IInv, TypeOK, ResolverTypeOK
  <2>2. errors' \subseteq ErrorType
    BY <1>2, WalkFacts, UseFacts, ErrorOfUse DEF WalkOn
  <2>3. QED BY <1>1, <1>2, <2>1, <2>2, AdvanceKeeps DEF WalkOn
<1>3. CASE parent # NoScope
  <2>1. /\ walk' = parent /\ trail' = trail \cup {parent} /\ step' = "scope"
        /\ UNCHANGED <<proj, lookup, resolved, errors>>
    BY <1>3 DEF WalkOn
  <2>2. parent \in Scopes /\ parent \in Nat
    BY <1>3, WalkFacts DEF Scopes, NoScope
  <2>3. ResolverTypeOK'
    BY <2>1, <2>2 DEF IInv, TypeOK, ResolverTypeOK, Steps
  <2>4. WalkInv'
    <3>1. /\ walk' \in trail' /\ trail' \subseteq Scopes' /\ Use'.scope \in trail'
          /\ \A s \in trail' : s = walk' \/ tables'[s].parent \in trail'
      BY <1>1, <2>1, <2>2, WalkFacts DEF Scopes, Use
    <3>2. cursor' <= Len(uses') /\ cursor' > 0
      BY <1>1, WalkFacts DEF IInv, WalkInv
    <3>3. QED BY <2>1, <3>1, <3>2 DEF WalkInv
  <2>5. QED BY <2>1, <2>3, <2>4 DEF IInv, TypeOK, TableTypeOK
<1>4. QED BY <1>2, <1>3

LEMMA NotHereKeeps ==
  ASSUME IInv, step \in {"scope", "project"}, UNCHANGED <<cursor, programVars>>, NotHere
  PROVE  errors' \subseteq ErrorType /\ ResolverTypeOK' /\ WalkInv'
<1>1. CASE IsClassScope(walk) /\ Use.form.kind = "call"
  <2>1. /\ step' = "fallback" /\ lookup' = StartLookup(tables[walk].name)
        /\ UNCHANGED <<walk, proj, trail, resolved, errors, uses, tables>>
    BY <1>1 DEF NotHere, programVars
  <2>2. /\ tables[walk].name \in Classes
        /\ lookup' = [class |-> tables[walk].name, visited |-> {tables[walk].name}]
    BY <1>1, <2>1, WalkFacts DEF StartLookup
  <2>3. ResolverTypeOK'
    BY <2>1, <2>2 DEF IInv, TypeOK, ResolverTypeOK, Steps
  <2>4. WalkInv'
    <3>1. /\ walk' \in trail' /\ trail' \subseteq Scopes' /\ Use'.scope \in trail'
          /\ \A s \in trail' : s = walk' \/ tables'[s].parent \in trail'
      BY <2>1, WalkFacts DEF Scopes, Use
    <3>2. cursor' <= Len(uses') /\ cursor' > 0 /\ lookup'.class \in Classes
      BY <2>1, <2>2, WalkFacts DEF IInv, WalkInv
    <3>3. QED BY <2>1, <3>1, <3>2 DEF WalkInv
  <2>5. QED BY <2>1, <2>3, <2>4 DEF IInv, TypeOK, TableTypeOK
<1>2. CASE ~(IsClassScope(walk) /\ Use.form.kind = "call")
  BY <1>2, WalkOnKeeps DEF NotHere
<1>3. QED BY <1>1, <1>2

LEMMA BindKeeps ==
  ASSUME IInv, step \in {"scope", "project", "fallback"}, UNCHANGED <<cursor, programVars>>,
         NEW symbol \in SymbolType, Bind(symbol)
  PROVE  errors' \subseteq ErrorType /\ ResolverTypeOK' /\ WalkInv'
<1>1. resolved' \in Seq(SymbolType)
  BY AppendType DEF Bind, IInv, TypeOK, ResolverTypeOK
<1>2. cursor > 0 /\ UNCHANGED <<uses, tables>> /\ errors \subseteq ErrorType
  BY WalkFacts DEF programVars, IInv, TypeOK, TableTypeOK
<1>3. symbol.type \in Classes \cup {NoClass}
  BY DEF SymbolType
<1> DEFINE report(what) == AddError(what, Use.scope, Use.ref.id, Use.form.name)
           receive == /\ step' = "receiver"
                      /\ lookup' = StartLookup(symbol.type)
                      /\ UNCHANGED <<walk, proj, trail, errors>>
<1>4. \/ report("not a function") /\ Advance
      \/ report("not a class object") /\ Advance
      \/ report("unknown class") /\ Advance
      \/ UNCHANGED errors /\ Advance
      \/ symbol.type # NoClass /\ receive
  BY DEF Bind
<1>5. CASE Advance
  <2>1. errors' \subseteq ErrorType
    BY <1>2, <1>4, UseFacts, ErrorOfUse
  <2>2. QED BY <1>1, <1>2, <1>5, <2>1, AdvanceKeeps
<1>6. CASE symbol.type # NoClass /\ receive
  <2>1. lookup' = [class |-> symbol.type, visited |-> {symbol.type}] /\ symbol.type \in Classes
    BY <1>3, <1>6 DEF StartLookup
  <2>2. ResolverTypeOK'
    BY <1>1, <1>6, <2>1 DEF IInv, TypeOK, ResolverTypeOK, Steps
  <2>3. cursor' <= Len(uses') /\ cursor' > 0 /\ lookup'.class \in Classes
    BY <1>2, <2>1 DEF IInv, WalkInv
  <2>4. WalkInv'
    BY <1>6, <2>3 DEF WalkInv
  <2>5. QED BY <1>2, <1>6, <2>2, <2>4
<1>7. QED BY <1>4, <1>5, <1>6

-----------------------------------------------------------------------------
(* One lemma per action of Resolver *)

LEMMA BeginUseStep ==
  ASSUME IInv, BeginUse
  PROVE  IInv'
<1>1. /\ phase = "resolve" /\ phase' = "resolve" /\ UNCHANGED programVars
      /\ UNCHANGED <<tables, uses, proj, lookup, resolved, errors>>
      /\ cursor < Len(uses) /\ cursor' = cursor + 1 /\ step' = "scope"
      /\ walk' = uses[cursor + 1].scope /\ trail' = {uses[cursor + 1].scope}
  BY DEF BeginUse, Resolving, programVars
<1>2. cursor \in Nat /\ Len(uses) \in Nat /\ cursor + 1 \in 1..Len(uses)
  BY <1>1 DEF IInv, TypeOK, ResolverTypeOK, BuilderTypeOK
<1>3. uses[cursor + 1].scope \in Scopes /\ uses[cursor + 1].scope \in Nat
  BY <1>2 DEF IInv, UseInv, Scopes
<1>4. ResolverTypeOK'
  BY <1>1, <1>2, <1>3 DEF IInv, TypeOK, ResolverTypeOK, Steps
<1>5. WalkInv'
  BY <1>1, <1>2, <1>3 DEF WalkInv, Use, Scopes
<1>6. QED BY <1>1, <1>4, <1>5, ResolveStep DEF IInv, TypeOK, TableTypeOK

LEMMA LookInTableStep ==
  ASSUME IInv, LookInTable
  PROVE  IInv'
<1>1. /\ phase = "resolve" /\ phase' = "resolve" /\ step = "scope"
      /\ UNCHANGED programVars /\ UNCHANGED cursor
  BY DEF LookInTable, Resolving
<1>2. SUFFICES errors' \subseteq ErrorType /\ ResolverTypeOK' /\ WalkInv'
  BY <1>1, ResolveStep
<1>3. CASE NotHere
  BY <1>1, <1>3, NotHereKeeps
<1>4. CASE Bind(SymbolHere)
  BY <1>1, <1>4, WalkFacts, BindKeeps
<1>5. CASE /\ SymbolHere # NoSymbol
           /\ step' = "project" /\ proj' = Use.ref
           /\ UNCHANGED <<walk, lookup, trail, resolved, errors>>
  <2>1. UNCHANGED <<uses, tables>> /\ cursor > 0
    BY <1>1, WalkFacts DEF programVars
  <2>2. ResolverTypeOK'
    BY <1>1, <1>5, <2>1, UseFacts DEF IInv, TypeOK, ResolverTypeOK, Steps
  <2>3. WalkInv'
    <3>1. /\ walk' \in trail' /\ trail' \subseteq Scopes' /\ Use'.scope \in trail'
          /\ \A s \in trail' : s = walk' \/ tables'[s].parent \in trail'
      BY <1>1, <1>5, <2>1, WalkFacts DEF Scopes, Use
    <3>2. cursor' <= Len(uses') /\ cursor' > 0
      BY <1>1, <2>1 DEF IInv, WalkInv
    <3>3. proj'.scope \in trail' /\ SymbolHere' # NoSymbol
      BY <1>1, <1>5, <2>1, UseFacts, WalkFacts DEF SymbolHere, Use
    <3>4. QED BY <1>5, <3>1, <3>2, <3>3 DEF WalkInv
  <2>4. QED BY <1>5, <2>2, <2>3 DEF IInv, TypeOK, TableTypeOK
<1>6. QED BY <1>3, <1>4, <1>5 DEF LookInTable

\* The step the theorem on the projection is about: the climb never runs out
\* of parents, because it stays on the tables the walk has looked at, and the
\* table in hand is where it stops.
LEMMA ClimbStep ==
  ASSUME IInv, Climb
  PROVE  IInv'
<1>1. /\ phase = "resolve" /\ step = "project" /\ UNCHANGED programVars
      /\ proj.scope # SymbolHere.scope
  BY DEF Climb, Resolving
<1>2. /\ walk \in Scopes /\ trail \subseteq Scopes /\ cursor > 0
      /\ \A s \in trail : s = walk \/ tables[s].parent \in trail
      /\ proj.scope \in trail /\ SymbolHere # NoSymbol /\ SymbolHere.scope = walk
  BY <1>1, WalkFacts DEF IInv, WalkInv
<1>3. proj.scope \in Scopes /\ proj.scope # NoScope /\ proj.scope # walk
  <2>1. proj.scope \in Scopes
    BY <1>2
  <2>2. QED BY <1>1, <1>2, <2>1 DEF Scopes, NoScope
<1>4. proj' = anchors[proj.scope]
      /\ UNCHANGED <<cursor, step, walk, lookup, trail, resolved, errors, phase>>
  BY <1>3 DEF Climb
<1>5. anchors[proj.scope].scope = tables[proj.scope].parent
      /\ tables[proj.scope].parent \in trail
  BY <1>2, <1>3 DEF IInv, ScopesAgree
<1>6. proj' \in ScopedStmtRef
  <2>1. anchors \in Seq(ScopedStmtRef) /\ proj.scope \in 1..Len(anchors)
    BY <1>3 DEF IInv, TypeOK, NumTypeOK, ScopesAgree, Scopes
  <2>2. QED BY <1>4, <2>1, ElementOfSeq
<1>7. UNCHANGED <<uses, tables>>
  BY <1>1 DEF programVars
<1>8. ResolverTypeOK'
  BY <1>4, <1>6 DEF IInv, TypeOK, ResolverTypeOK
<1>9. WalkInv'
  <2>1. /\ walk' \in trail' /\ trail' \subseteq Scopes' /\ Use'.scope \in trail'
        /\ \A s \in trail' : s = walk' \/ tables'[s].parent \in trail'
    BY <1>1, <1>4, <1>7, WalkFacts DEF Scopes, Use
  <2>2. cursor' <= Len(uses') /\ cursor' > 0
    BY <1>2, <1>4, <1>7 DEF IInv, WalkInv
  <2>3. proj'.scope \in trail' /\ SymbolHere' # NoSymbol
    BY <1>2, <1>4, <1>5, <1>7 DEF SymbolHere, Use
  <2>4. QED BY <1>1, <1>4, <2>1, <2>2, <2>3 DEF WalkInv
<1>10. QED BY <1>1, <1>4, <1>8, <1>9, ResolveStep DEF IInv, TypeOK, TableTypeOK

LEMMA CompareNumbersStep ==
  ASSUME IInv, CompareNumbers
  PROVE  IInv'
<1>1. /\ phase = "resolve" /\ phase' = "resolve" /\ step = "project"
      /\ UNCHANGED programVars /\ UNCHANGED cursor
  BY DEF CompareNumbers, Resolving
<1>2. Bind(SymbolHere) \/ NotHere
  BY DEF CompareNumbers
<1>3. errors' \subseteq ErrorType /\ ResolverTypeOK' /\ WalkInv'
  BY <1>1, <1>2, WalkFacts, BindKeeps, NotHereKeeps
<1>4. QED BY <1>1, <1>3, ResolveStep

\* What a lookup of a member finds, and where it goes on.
LEMMA LookupFacts ==
  ASSUME IInv, step \in {"fallback", "receiver"}
  PROVE  /\ cursor > 0 /\ Wanted \in Names /\ lookup.class \in Classes
         /\ DeclOf(lookup) \in Nat /\ BaseOf(lookup) \in Classes \cup {NoClass}
         /\ FoundMember(lookup, Wanted) \in MemberType
         /\ FoundMember(lookup, Wanted).id \in Nat
<1>1. cursor > 0 /\ lookup.class \in Classes
  BY DEF IInv, WalkInv
<1>2. Wanted \in Names
  BY <1>1, UseFacts DEF Wanted
<1>3. classType[lookup.class] \in [decl : Nat, base : Classes \cup {NoClass}]
  BY <1>1 DEF IInv, TypeOK, ClassTypeOK
<1>4. DeclOf(lookup) \in 0..Len(members) /\ members \in Seq([Names -> MemberType])
  BY <1>1 DEF DeclOf, IInv, TypeOK, ClassTypeOK, TreeInv, ScopesAgree
<1>5. FoundMember(lookup, Wanted) \in MemberType
  <2>1. CASE DeclOf(lookup) = 0
    BY <2>1 DEF FoundMember, NoMember, MemberType
  <2>2. CASE DeclOf(lookup) # 0
    <3>1. DeclOf(lookup) \in 1..Len(members)
      BY <1>4, <2>2
    <3>2. members[DeclOf(lookup)] \in [Names -> MemberType]
      BY <1>4, <3>1, ElementOfSeq
    <3>3. QED BY <1>2, <2>2, <3>2 DEF FoundMember
  <2>3. QED BY <2>1, <2>2
<1>6. FoundMember(lookup, Wanted).id \in Nat
  BY <1>5 DEF MemberType
<1>7. QED BY <1>1, <1>2, <1>3, <1>5, <1>6 DEF DeclOf, BaseOf

LEMMA BindBaseMethodStep ==
  ASSUME IInv, BindBaseMethod
  PROVE  IInv'
<1>1. /\ phase = "resolve" /\ phase' = "resolve" /\ step = "fallback"
      /\ UNCHANGED programVars /\ UNCHANGED cursor
  BY DEF BindBaseMethod, Resolving
<1> DEFINE ref == [scope |-> DeclOf(lookup), id |-> FoundMember(lookup, Wanted).id]
<1>2. Symbol("Function", ref, NoClass) \in SymbolType
  BY <1>1, LookupFacts, SymbolTypeOf DEF SymbolKinds
<1>3. Bind(Symbol("Function", ref, NoClass))
  BY DEF BindBaseMethod
<1> HIDE DEF ref
<1>4. errors' \subseteq ErrorType /\ ResolverTypeOK' /\ WalkInv'
  BY <1>1, <1>2, <1>3, BindKeeps
<1>5. QED BY <1>1, <1>4, ResolveStep

LEMMA NoBaseMethodStep ==
  ASSUME IInv, NoBaseMethod
  PROVE  IInv'
<1>1. /\ phase = "resolve" /\ phase' = "resolve" /\ step = "fallback"
      /\ UNCHANGED programVars /\ UNCHANGED cursor /\ WalkOn
  BY DEF NoBaseMethod, Resolving
<1>2. errors' \subseteq ErrorType /\ ResolverTypeOK' /\ WalkInv'
  BY <1>1, WalkOnKeeps
<1>3. QED BY <1>1, <1>2, ResolveStep

LEMMA CheckMemberStep ==
  ASSUME IInv, CheckMember
  PROVE  IInv'
<1>1. /\ phase = "resolve" /\ phase' = "resolve" /\ step = "receiver" /\ Advance
      /\ UNCHANGED programVars /\ UNCHANGED <<cursor, resolved, uses>>
      /\ UNCHANGED errors \/ AddError("unknown member", Use.scope, Use.ref.id, Wanted)
  BY DEF CheckMember, Resolving, programVars
<1>2. errors' \subseteq ErrorType
  BY <1>1, LookupFacts, ErrorOfUse DEF IInv, TypeOK, TableTypeOK
<1>3. ResolverTypeOK' /\ WalkInv'
  BY <1>1, AdvanceKeeps DEF IInv, TypeOK, ResolverTypeOK
<1>4. QED BY <1>1, <1>2, <1>3, ResolveStep

LEMMA LookInBaseStep ==
  ASSUME IInv, LookInBase
  PROVE  IInv'
<1>1. /\ phase = "resolve" /\ phase' = "resolve" /\ step \in {"fallback", "receiver"}
      /\ UNCHANGED programVars
      /\ UNCHANGED <<uses, tables, cursor, step, walk, proj, trail, resolved, errors>>
      /\ LookupContinues(lookup, Wanted, CurrentClassOnly)
      /\ lookup' = NextLookup(lookup)
  BY DEF LookInBase, programVars
<1>2. BaseOf(lookup) \in Classes
  BY <1>1, LookupFacts DEF LookupContinues, LookupFails
<1>3. lookup' \in [class : Classes \cup {NoClass}, visited : SUBSET Classes]
      /\ lookup'.class \in Classes
  BY <1>1, <1>2 DEF NextLookup, IInv, TypeOK, ResolverTypeOK
<1>4. ResolverTypeOK'
  BY <1>1, <1>3 DEF IInv, TypeOK, ResolverTypeOK
<1>5. WalkInv'
  BY <1>1, <1>3 DEF IInv, WalkInv, Scopes, Use
<1>6. QED BY <1>1, <1>4, <1>5, ResolveStep DEF IInv, TypeOK, TableTypeOK

\* The steps after which the compilation is over.
LEMMA EndStep ==
  ASSUME IInv, CyclicInheritance \/ FinishResolve
  PROVE  IInv'
<1>1. /\ phase = "resolve" /\ phase' \in {"done", "assertion failed"}
      /\ UNCHANGED <<programVars, resolverVars, errors>>
  BY DEF CyclicInheritance, FinishResolve, Resolving, Abort
<1>2. ResolverTypeOK'
  BY <1>1 DEF IInv, TypeOK, ResolverTypeOK, resolverVars
<1>3. WalkInv'
  BY <1>1 DEF IInv, WalkInv, resolverVars, programVars, Scopes, Use, SymbolHere
<1>4. QED BY <1>1, <1>2, <1>3, ResolveStep DEF IInv, TypeOK, TableTypeOK

-----------------------------------------------------------------------------
(* The invariant *)

LEMMA InitIInv == Init => IInv
<1> SUFFICES ASSUME Init PROVE IInv
  OBVIOUS
<1> USE DEF Init, InitBuilder, EnterRootScope, InitTables, InitClassTypes, NoScope, Root, NoRef
<1>1. NewTable(0, "program", NoClass) \in TableType
  BY NewTableType DEF Owners
<1>2. tables = <<NewTable(0, "program", NoClass)>> /\ tables \in Seq(TableType) /\ Len(tables) = 1
  BY <1>1
<1>3. /\ tables[1].parent = 0 /\ tables[1].owner = "program"
      /\ \A n \in Names : tables[1].symbols[n] = NoSymbol
  BY DEF NewTable
<1>4. Scopes = {1}
  BY <1>2 DEF Scopes
<1>5. TypeOK
  <2>1. NumTypeOK
    BY DEF NumTypeOK, ScopedStmtRef
  <2>2. TableTypeOK
    BY <1>2 DEF TableTypeOK
  <2>3. ClassTypeOK
    BY NoMembersType DEF ClassTypeOK, NoMembers, NoMember, MemberType
  <2>4. BuilderTypeOK
    <3>1. elseTail \in BOOLEAN
      BY Zenon
    <3>2. QED BY <3>1 DEF BuilderTypeOK
  <2>5. ResolverTypeOK
    BY DEF ResolverTypeOK, Steps, NoLookup, ScopedStmtRef
  <2>6. QED BY <2>1, <2>2, <2>3, <2>4, <2>5 DEF TypeOK
<1>6. ScopesAgree
  BY <1>2, <1>3, <1>4 DEF ScopesAgree
<1>7. TreeInv /\ SymbolInv
  BY <1>2, <1>3, <1>4 DEF TreeInv, SymbolInv, IsClassScope
<1>8. VisitInv /\ UseInv /\ WalkInv
  BY DEF VisitInv, UseInv, WalkInv
<1>9. QED BY <1>5, <1>6, <1>7, <1>8 DEF IInv, ProjectionNeverFails

LEMMA NextIInv == IInv /\ [Next]_vars => IInv'
<1> SUFFICES ASSUME IInv, [Next]_vars PROVE IInv'
  OBVIOUS
<1>1. CASE BuildDeclaration
  BY <1>1, DeclareVariableStep, DeclareFieldStep, DeclareFunctionStep, DeclareMethodStep,
     DeclareParameterStep, DeclareClassStep DEF BuildDeclaration, VisitDeclaration
<1>2. CASE BuildStatement
  BY <1>2, VisitUseStep, VisitBlockStep, VisitIfStep, VisitElseStep
     DEF BuildStatement, VisitStatement
<1>3. CASE BuildScopeEnd
  BY <1>3, LeaveScopeStep, EndProgramStep DEF BuildScopeEnd, VisitScopeEnd
<1>4. CASE Resolve
  BY <1>4, BeginUseStep, LookInTableStep, ClimbStep, CompareNumbersStep, BindBaseMethodStep,
     NoBaseMethodStep, CheckMemberStep, LookInBaseStep, EndStep DEF Resolve
<1>5. CASE UNCHANGED vars
  <2>1. /\ UNCHANGED <<anchors, anchorStack, nextIds, current, saved, tables, scopeStack, errors>>
        /\ UNCHANGED <<classType, members, phase, statements, elseTail, uses, complete>>
        /\ UNCHANGED <<cursor, step, walk, proj, lookup, trail, resolved>>
    BY <1>5 DEF vars, numVars, tableVars, classVars, builderVars, resolverVars
  <2>2. TypeOK'
    BY <2>1 DEF IInv, TypeOK, NumTypeOK, TableTypeOK, ClassTypeOK, BuilderTypeOK, ResolverTypeOK,
                Ends
  <2>3. ScopesAgree' /\ TreeInv' /\ SymbolInv' /\ UseInv'
    BY <2>1 DEF IInv, ScopesAgree, TreeInv, SymbolInv, UseInv, Scopes, IsClassScope
  <2>4. VisitInv'
    BY <2>1 DEF IInv, VisitInv, CurrentScope
  <2>5. WalkInv' /\ ProjectionNeverFails'
    BY <2>1 DEF IInv, WalkInv, ProjectionNeverFails, Scopes, Use, SymbolHere
  <2>6. QED BY <2>2, <2>3, <2>4, <2>5 DEF IInv
<1>6. QED BY <1>1, <1>2, <1>3, <1>4, <1>5 DEF Next, Ended

\* The inductive invariant holds in every reachable state of the numbering, the
\* symbol table builder and the resolver.
THEOREM Invariant == Spec => []IInv
BY InitIInv, NextIInv, PTL DEF Spec

\* Every variable of the passes has its type.
THEOREM TypeCorrect == Spec => []TypeOK
<1>1. IInv => TypeOK
  BY DEF IInv
<1>2. QED BY <1>1, Invariant, PTL

\* BuildStatementNumerizer and BuildSymbolTable build one and the same tree of
\* scopes, for every program.
THEOREM SameTreeOfScopes == Spec => []ScopesAgree
<1>1. IInv => ScopesAgree
  BY DEF IInv
<1>2. QED BY <1>1, Invariant, PTL

\* ResolveUse never throws "statement numerizer is incorrect for this program":
\* a use always projects to the scope of a declaration its tables lead to.
THEOREM ProjectionSucceeds == Spec => []ProjectionNeverFails
<1>1. IInv => ProjectionNeverFails
  BY DEF IInv
<1>2. QED BY <1>1, Invariant, PTL

-----------------------------------------------------------------------------
(* Symbols stay *)

Keeps(tabs) ==
  \A s \in Scopes, n \in Names :
    tables[s].symbols[n] # NoSymbol => tabs[s].symbols[n] = tables[s].symbols[n]

\* AddSymbolInfo refuses a name the table has.
LEMMA AddKeeps ==
  ASSUME tables \in Seq(TableType), NEW s \in Scopes, NEW n \in Names, NEW symbol
  PROVE  Keeps(TablesAfterAdd(s, n, symbol))
<1> DEFINE row == [tables[s] EXCEPT !.symbols[n] = symbol]
           added == [tables EXCEPT ![s] = row]
<1>1. tables[s] \in TableType /\ s \in DOMAIN tables
  BY ElementOfSeq DEF Scopes
<1>2. \A m \in Names : m # n => row.symbols[m] = tables[s].symbols[m]
  BY <1>1 DEF TableType
<1> HIDE DEF row
<1>3. \A t \in Scopes : added[t] = IF t = s THEN row ELSE tables[t]
  BY <1>1 DEF Scopes
<1>4. tables[s].symbols[n] = NoSymbol => Keeps(added)
  BY <1>2, <1>3 DEF Keeps
<1>5. [tables EXCEPT ![s].symbols[n] = symbol] = added
  BY DEF row
<1>6. QED BY <1>4, <1>5 DEF TablesAfterAdd, IsDuplicate, Keeps

LEMMA EnterKeeps ==
  ASSUME tables \in Seq(TableType), CurrentScope \in Nat, NEW tabs, SameTree(tabs), Keeps(tabs),
         NEW owner \in Owners, NEW name \in Names \cup Classes \cup {NoClass},
         EnterTable(tabs, owner, name)
  PROVE  Keeps(tables')
<1>1. \A s \in Scopes : tables'[s] = tabs[s]
  BY NewTableType, AppendType DEF EnterTable, SameTree, Scopes
<1>2. QED BY <1>1 DEF Keeps

LEMMA ResolveKeepsTables == Resolve => UNCHANGED tables
BY DEF Resolve, BeginUse, LookInTable, Climb, CompareNumbers, BindBaseMethod, NoBaseMethod,
       CheckMember, LookInBase, CyclicInheritance, FinishResolve, Resolving, programVars

LEMMA BuildVisits == BuildDeclaration \/ BuildStatement \/ BuildScopeEnd => phase = "visit"
BY DEF BuildDeclaration, VisitDeclaration, DeclareVariable, DeclareField, DeclareFunction,
       DeclareMethod, DeclareParameter, DeclareClass, BuildStatement, VisitStatement, VisitUse,
       VisitBlock, VisitIf, VisitElse, BuildScopeEnd, VisitScopeEnd, LeaveScope, EndProgram,
       TakeStatement

\* Once a name is in a table, no later visit and no step of the resolver
\* changes its symbol.
THEOREM SymbolsStay == Spec => FirstDeclarationStays
<1>1. IInv /\ [Next]_vars => Keeps(tables')
  <2> SUFFICES ASSUME IInv, [Next]_vars PROVE Keeps(tables')
    OBVIOUS
  <2>1. CASE UNCHANGED tables
    BY <2>1 DEF Keeps
  <2>2. CASE phase = "visit"
    <3>1. /\ tables \in Seq(TableType) /\ CurrentScope \in Scopes /\ CurrentScope \in Nat
          /\ NextStmtRef.scope = CurrentScope /\ NextStmtRef.id \in Nat
          /\ SameTree(tables) /\ Keeps(tables)
      BY <2>2, Visiting, VisitFacts, SameTreeItself DEF Scopes, ScopedStmtRef, Keeps
    <3>2. ASSUME NEW n \in VarNames, NEW symbol,
                 tables' = TablesAfterAdd(CurrentScope, n, symbol)
          PROVE  Keeps(tables')
      BY <3>1, <3>2, Chosen, AddKeeps
    <3>3. ASSUME NEW n \in Names, AddFunctionAndEnterBody(n) PROVE Keeps(tables')
      <4> DEFINE symbol == Symbol("Function", NextStmtRef, NoClass)
                 tabs == TablesAfterAdd(CurrentScope, n, symbol)
      <4>1. symbol \in SymbolType /\ symbol.scope = CurrentScope
        BY <3>1, SymbolTypeOf DEF SymbolKinds
      <4> HIDE DEF symbol
      <4>2. SameTree(tabs) /\ Keeps(tabs)
        BY <2>2, <3>1, <4>1, Visiting, TablesAfterAddSameTree, AddKeeps
      <4>3. EnterTable(tabs, "function", n) /\ "function" \in Owners
        BY <3>3 DEF AddFunctionAndEnterBody, symbol, Owners
      <4> HIDE DEF tabs
      <4>4. QED BY <3>1, <4>2, <4>3, EnterKeeps
    <3>4. ASSUME NEW owner \in Owners, NEW name \in Names \cup Classes \cup {NoClass},
                 EnterTable(tables, owner, name)
          PROVE  Keeps(tables')
      BY <3>1, <3>4, EnterKeeps
    <3>5. CASE BuildDeclaration
      BY <3>2, <3>3, <3>4, <3>5 DEF BuildDeclaration, VisitDeclaration, DeclareVariable,
         DeclareField, DeclareParameter, DeclareFunction, DeclareMethod, DeclareClass, Owners
    <3>6. CASE BuildStatement
      BY <2>1, <3>4, <3>6 DEF BuildStatement, VisitStatement, VisitUse, VisitBlock, VisitIf,
         VisitElse, tableVars, Owners, BlockOwners
    <3>7. CASE BuildScopeEnd
      BY <2>1, <3>7 DEF BuildScopeEnd, VisitScopeEnd, LeaveScope, EndProgram
    <3>8. QED BY <2>1, <2>2, <3>5, <3>6, <3>7, ResolveKeepsTables DEF Next, Ended, vars, tableVars
  <2>3. CASE phase # "visit"
    BY <2>1, <2>3, ResolveKeepsTables, BuildVisits DEF Next, Ended, vars, tableVars
  <2>4. QED BY <2>2, <2>3
<1>2. IInv /\ [Next]_vars =>
        [\A s \in Scopes, n \in Names :
           tables[s].symbols[n] # NoSymbol => tables'[s].symbols[n] = tables[s].symbols[n]]_vars
  BY <1>1 DEF Keeps
<1>3. QED BY <1>2, Invariant, PTL DEF Spec, FirstDeclarationStays

-----------------------------------------------------------------------------
(* Recursion along the tree of scopes *)

\* Scopes are numbered in the order they are opened.
Tree ==
  /\ Len(tables) \in Nat
  /\ \A s \in Scopes : tables[s].parent \in 0..(s - 1) /\ (tables[s].parent = NoScope <=> s = Root)

\* The scopes around a scope are itself and those around its parent.
LEMMA EnclosingEquation ==
  Tree => /\ Enclosing[0] = {}
          /\ \A s \in Scopes : Enclosing[s] = {s} \cup Enclosing[tables[s].parent]
<1> SUFFICES ASSUME Tree
             PROVE  /\ Enclosing[0] = {}
                    /\ \A s \in Scopes : Enclosing[s] = {s} \cup Enclosing[tables[s].parent]
  OBVIOUS
<1> DEFINE n == Len(tables)
           p == [s \in 1..n |-> tables[s].parent]
           V == SUBSET (0..n)
           g == [s \in 1..n |-> [v \in V |-> {s} \cup v]]
           Eq(f) == f = [s \in 0..n |-> IF s = NoScope THEN {} ELSE {s} \cup f[tables[s].parent]]
<1>1. n \in Nat /\ Scopes = 1..n
  BY DEF Tree, Scopes
<1>2. \A s \in 1..n : p[s] \in 0..(s - 1) /\ p[s] = tables[s].parent
  BY <1>1 DEF Tree
<1>3. {} \in V /\ g \in [1..n -> [V -> V]] /\ \A s \in 1..n, v \in V : g[s][v] = {s} \cup v
  BY <1>1
<1>4. \E f : FollowsParents(f, n, p, V, {}, g)
  <2> HIDE DEF V, g, p, n
  <2>1. QED BY <1>1, <1>2, <1>3, ParentRecursionExists
<1>5. PICK f : FollowsParents(f, n, p, V, {}, g)
  BY <1>4
<1>6. f \in [0..n -> V] /\ f[0] = {} /\ \A s \in 1..n : f[s] = {s} \cup f[tables[s].parent]
  <2>1. f \in [0..n -> V] /\ f[0] = {} /\ \A s \in 1..n : f[s] = g[s][f[p[s]]]
    BY <1>5 DEF FollowsParents
  <2>2. \A s \in 1..n : p[s] \in 0..n
    BY <1>1, <1>2
  <2>3. \A s \in 1..n : p[s] \in 0..n /\ f[p[s]] \in V
    BY <2>1, <2>2
  <2> HIDE DEF V, g, p
  <2>4. QED BY <2>1, <2>3, <1>2, <1>3
<1>7. Eq(f)
  <2>1. DOMAIN f = 0..n /\ f = [s \in 0..n |-> f[s]]
    BY <1>6
  <2>2. \A s \in 0..n : f[s] = IF s = NoScope THEN {} ELSE {s} \cup f[tables[s].parent]
    BY <1>1, <1>6 DEF NoScope
  <2> HIDE DEF n, V
  <2>3. QED BY <2>1, <2>2
<1>8. Enclosing = CHOOSE h : Eq(h)
  BY DEF Enclosing
<1>9. Eq(Enclosing)
  <2> HIDE DEF Eq
  <2>1. QED BY <1>7, <1>8
<1>10. \A s \in 0..n :
         Enclosing[s] = IF s = NoScope THEN {} ELSE {s} \cup Enclosing[tables[s].parent]
  <2>1. Enclosing = [s \in 0..n |->
                       IF s = NoScope THEN {} ELSE {s} \cup Enclosing[tables[s].parent]]
    BY <1>9
  <2> HIDE DEF n, Eq
  <2>2. QED BY <2>1
<1>11. \A s \in Scopes : s \in 0..n /\ s # NoScope
  BY <1>1 DEF NoScope
<1>12. 0 \in 0..n
  BY <1>1
<1>13. QED
  <2> HIDE DEF n, Eq
  <2>1. QED BY <1>10, <1>11, <1>12 DEF NoScope

\* The table that gives a name its meaning in s is that of s or of its parent.
LEMMA HolderEquation ==
  Tree => \A n \in Names :
    /\ HolderOf(n)[0] = 0
    /\ \A s \in Scopes :
         HolderOf(n)[s] = IF Declared(s, n) THEN s ELSE HolderOf(n)[tables[s].parent]
<1> SUFFICES ASSUME Tree, NEW n \in Names
             PROVE  /\ HolderOf(n)[0] = 0
                    /\ \A s \in Scopes : HolderOf(n)[s] =
                         IF Declared(s, n) THEN s ELSE HolderOf(n)[tables[s].parent]
  OBVIOUS
<1> DEFINE k == Len(tables)
           p == [s \in 1..k |-> tables[s].parent]
           V == 0..k
           Pick(s, v) == IF Declared(s, n) THEN s ELSE v
           g == [s \in 1..k |-> [v \in V |-> Pick(s, v)]]
           Eq(f) == f = [s \in 0..k |-> IF s = 0 \/ tables[s].symbols[n] # NoSymbol THEN s
                                         ELSE f[tables[s].parent]]
<1>1. k \in Nat /\ Scopes = 1..k
  BY DEF Tree, Scopes
<1>2. \A s \in 1..k : p[s] \in 0..(s - 1) /\ p[s] = tables[s].parent
  BY <1>1 DEF Tree
<1>3. 0 \in V /\ g \in [1..k -> [V -> V]] /\ \A s \in 1..k, v \in V : g[s][v] = Pick(s, v)
  BY <1>1
<1>4. \E f : FollowsParents(f, k, p, V, 0, g)
  <2> HIDE DEF V, g, p, k
  <2>1. QED BY <1>1, <1>2, <1>3, ParentRecursionExists
<1>5. PICK f : FollowsParents(f, k, p, V, 0, g)
  BY <1>4
<1>6. f \in [0..k -> V] /\ f[0] = 0 /\ \A s \in 1..k : f[s] = Pick(s, f[tables[s].parent])
  <2>1. f \in [0..k -> V] /\ f[0] = 0 /\ \A s \in 1..k : f[s] = g[s][f[p[s]]]
    BY <1>5 DEF FollowsParents
  <2>2. \A s \in 1..k : p[s] \in 0..k
    BY <1>1, <1>2
  <2>3. \A s \in 1..k : p[s] \in 0..k /\ f[p[s]] \in V
    BY <2>1, <2>2
  <2> HIDE DEF V, g, p, Pick
  <2>4. QED BY <2>1, <2>3, <1>2, <1>3
<1>7. Eq(f)
  <2>1. DOMAIN f = 0..k /\ f = [s \in 0..k |-> f[s]]
    BY <1>6
  <2>2. \A s \in 0..k : f[s] = IF s = 0 \/ tables[s].symbols[n] # NoSymbol THEN s
                                ELSE f[tables[s].parent]
    BY <1>1, <1>6 DEF Declared
  <2> HIDE DEF k, V
  <2>3. QED BY <2>1, <2>2
<1>8. HolderOf(n) = CHOOSE h : Eq(h)
  BY DEF HolderOf
<1>9. Eq(HolderOf(n))
  <2> HIDE DEF Eq
  <2>1. QED BY <1>7, <1>8
<1> DEFINE H == HolderOf(n)
<1>10. \A s \in 0..k : H[s] = IF s = 0 \/ tables[s].symbols[n] # NoSymbol THEN s
                               ELSE H[tables[s].parent]
  <2>1. H = [s \in 0..k |-> IF s = 0 \/ tables[s].symbols[n] # NoSymbol THEN s
                            ELSE H[tables[s].parent]]
    BY <1>9
  <2> HIDE DEF k, Eq, H
  <2>2. QED BY <2>1
<1>11. \A s \in Scopes : s \in 0..k /\ s # 0
  BY <1>1
<1>12. 0 \in 0..k
  BY <1>1
<1>13. QED
  <2> HIDE DEF k, Eq, H
  <2>1. H[0] = 0 /\ \A s \in Scopes : H[s] = IF Declared(s, n) THEN s ELSE H[tables[s].parent]
    BY <1>10, <1>11, <1>12 DEF Declared
  <2>2. QED BY <2>1 DEF H

\* The statement of a around s is that of the scope on the way that opens in a.
LEMMA AroundEquation ==
  Tree /\ (\A s \in Scopes : anchors[s].id \in Nat) => \A a :
    \A s \in Scopes :
      /\ tables[s].parent = a => StatementAround(s, a) = anchors[s].id
      /\ tables[s].parent # a /\ s # Root =>
           StatementAround(s, a) = StatementAround(tables[s].parent, a)
<1> SUFFICES ASSUME Tree, \A s \in Scopes : anchors[s].id \in Nat, NEW a
             PROVE  \A s \in Scopes :
                      /\ tables[s].parent = a => StatementAround(s, a) = anchors[s].id
                      /\ tables[s].parent # a /\ s # Root =>
                           StatementAround(s, a) = StatementAround(tables[s].parent, a)
  OBVIOUS
<1> DEFINE k == Len(tables)
           p == [s \in 1..k |-> tables[s].parent]
           Pick(s, v) == IF tables[s].parent = a THEN anchors[s].id ELSE v
           g == [s \in 1..k |-> [v \in Nat |-> Pick(s, v)]]
           Eq(f) == f = [s \in 0..k |-> IF s = NoScope \/ tables[s].parent = a
                                         THEN (IF s = NoScope THEN 0 ELSE anchors[s].id)
                                         ELSE f[tables[s].parent]]
<1>1. k \in Nat /\ Scopes = 1..k
  BY DEF Tree, Scopes
<1>2. \A s \in 1..k : p[s] \in 0..(s - 1) /\ p[s] = tables[s].parent
  BY <1>1 DEF Tree
<1>3. g \in [1..k -> [Nat -> Nat]] /\ \A s \in 1..k, v \in Nat : g[s][v] = Pick(s, v)
  BY <1>1
<1>4. \E f : FollowsParents(f, k, p, Nat, 0, g)
  <2> HIDE DEF g, p, k
  <2>1. QED BY <1>1, <1>2, <1>3, ParentRecursionExists
<1>5. PICK f : FollowsParents(f, k, p, Nat, 0, g)
  BY <1>4
<1>6. f \in [0..k -> Nat] /\ f[0] = 0 /\ \A s \in 1..k : f[s] = Pick(s, f[tables[s].parent])
  <2>1. f \in [0..k -> Nat] /\ f[0] = 0 /\ \A s \in 1..k : f[s] = g[s][f[p[s]]]
    BY <1>5 DEF FollowsParents
  <2>2. \A s \in 1..k : p[s] \in 0..k
    BY <1>1, <1>2
  <2>3. \A s \in 1..k : p[s] \in 0..k /\ f[p[s]] \in Nat
    BY <2>1, <2>2
  <2> HIDE DEF g, p, k
  <2>4. \A s \in 1..k : g[s][f[p[s]]] = Pick(s, f[p[s]])
    BY <2>3, <1>3
  <2> HIDE DEF Pick
  <2>5. \A s \in 1..k : f[s] = Pick(s, f[p[s]])
    BY <2>1, <2>4
  <2>6. QED BY <2>1, <2>5, <1>2
<1>7. Eq(f)
  <2>1. DOMAIN f = 0..k /\ f = [s \in 0..k |-> f[s]]
    BY <1>6
  <2>2. \A s \in 0..k : f[s] = IF s = NoScope \/ tables[s].parent = a
                                THEN (IF s = NoScope THEN 0 ELSE anchors[s].id)
                                ELSE f[tables[s].parent]
    BY <1>1, <1>6 DEF NoScope
  <2> HIDE DEF k
  <2>3. QED BY <2>1, <2>2
<1> DEFINE H == CHOOSE h : Eq(h)
<1>8. \A s : StatementAround(s, a) = H[s]
  BY DEF StatementAround
<1>9. Eq(H)
  <2> HIDE DEF Eq
  <2>1. QED BY <1>7
<1>10. \A s \in 0..k : H[s] = IF s = NoScope \/ tables[s].parent = a
                              THEN (IF s = NoScope THEN 0 ELSE anchors[s].id)
                              ELSE H[tables[s].parent]
  <2>1. H = [s \in 0..k |-> IF s = NoScope \/ tables[s].parent = a
                            THEN (IF s = NoScope THEN 0 ELSE anchors[s].id)
                            ELSE H[tables[s].parent]]
    BY <1>9
  <2> HIDE DEF k, Eq, H
  <2>2. QED BY <2>1
<1>11. \A s \in Scopes : s \in 0..k /\ s # NoScope
  BY <1>1 DEF NoScope
<1>12. QED
  <2> HIDE DEF k, Eq, H
  <2>1. QED BY <1>8, <1>10, <1>11

\* EnclosingEquation of the next state.
LEMMA EnclosingEquationNext ==
  (Tree => /\ Enclosing[0] = {}
          /\ \A s \in Scopes : Enclosing[s] = {s} \cup Enclosing[tables[s].parent])'
BY EnclosingEquation, PTL

\* The passes keep the scopes a tree.
LEMMA TreeOf ==
  TypeOK /\ ScopesAgree /\ TreeInv => Tree /\ \A s \in Scopes : anchors[s] \in ScopedStmtRef
<1> SUFFICES ASSUME TypeOK, ScopesAgree, TreeInv
             PROVE  Tree /\ \A s \in Scopes : anchors[s] \in ScopedStmtRef
  OBVIOUS
<1>1. tables \in Seq(TableType) /\ Len(tables) \in Nat /\ Len(anchors) = Len(tables)
  BY DEF TypeOK, TableTypeOK, ScopesAgree
<1>2. \A s \in Scopes : tables[s] \in TableType /\ tables[s].parent \in Nat
  <2>1. \A s \in Scopes : tables[s] \in TableType
    BY <1>1, ElementOfSeq DEF Scopes
  <2>2. QED BY <2>1 DEF TableType
<1>3. \A s \in Scopes : tables[s].parent \in 0..(s - 1) /\ (tables[s].parent = NoScope <=> s = Root)
  BY <1>2 DEF ScopesAgree, TreeInv, Scopes
<1>4. \A s \in Scopes : anchors[s] \in ScopedStmtRef
  BY <1>1, ElementOfSeq DEF Scopes, TypeOK, NumTypeOK
<1>5. QED BY <1>1, <1>3, <1>4 DEF Tree

\* The scopes around s are older than s, and closed under their parents.
LEMMA EnclosingFacts ==
  Tree => \A s \in Scopes :
            /\ s \in Enclosing[s] /\ Enclosing[s] \subseteq Scopes
            /\ \A a \in Enclosing[s] : a <= s /\ Enclosing[a] \subseteq Enclosing[s]
            /\ s # Root => tables[s].parent \in Scopes
<1> SUFFICES ASSUME Tree
             PROVE  \A s \in Scopes :
                      /\ s \in Enclosing[s] /\ Enclosing[s] \subseteq Scopes
                      /\ \A a \in Enclosing[s] : a <= s /\ Enclosing[a] \subseteq Enclosing[s]
                      /\ s # Root => tables[s].parent \in Scopes
  OBVIOUS
<1> DEFINE T == {s \in Nat : s \in Scopes =>
                   /\ Enclosing[s] \subseteq Scopes
                   /\ \A a \in Enclosing[s] : a <= s /\ Enclosing[a] \subseteq Enclosing[s]}
<1>1. \A s \in Scopes : s \in Enclosing[s] /\ Enclosing[s] = {s} \cup Enclosing[tables[s].parent]
  BY EnclosingEquation
<1>2. Enclosing[0] = {}
  BY EnclosingEquation
<1>3. \A s \in Scopes : s # Root => tables[s].parent \in Scopes /\ tables[s].parent < s
  BY DEF Tree, Scopes, NoScope
<1>4. Root \in Scopes => tables[Root].parent = 0
  BY DEF Tree, NoScope
<1>5. ASSUME NEW s \in Nat, \A m \in Nat : m < s => m \in T
      PROVE  s \in T
  <2> SUFFICES ASSUME s \in Scopes
               PROVE  /\ Enclosing[s] \subseteq Scopes
                      /\ \A a \in Enclosing[s] : a <= s /\ Enclosing[a] \subseteq Enclosing[s]
    OBVIOUS
  <2>1. CASE s = Root
    BY <2>1, <1>1, <1>2, <1>4
  <2>2. CASE s # Root
    <3> DEFINE q == tables[s].parent
    <3>1. q \in Scopes /\ q < s /\ q \in Nat
      BY <2>2, <1>3 DEF Scopes
    <3>2. q \in T
      BY <3>1, <1>5
    <3>3. /\ Enclosing[q] \subseteq Scopes
          /\ \A a \in Enclosing[q] : a <= q /\ Enclosing[a] \subseteq Enclosing[q]
      BY <3>1, <3>2
    <3>4. Enclosing[s] = {s} \cup Enclosing[q]
      BY <1>1
    <3>5. \A a \in Enclosing[q] : a \in Nat
      BY <3>3 DEF Scopes
    <3> HIDE DEF q
    <3>6. QED BY <3>1, <3>3, <3>4, <3>5
  <2>3. QED BY <2>1, <2>2
<1>6. \A s \in Nat : s \in T
  <2> HIDE DEF T
  <2>1. QED BY <1>5, StrongInduction
<1>7. \A s \in Scopes : s \in Nat
  BY DEF Scopes
<1>8. QED BY <1>1, <1>3, <1>6, <1>7

-----------------------------------------------------------------------------
(* The tree grows: scopes are added to it and stay where they are *)

Grows ==
  /\ Tree /\ Tree' /\ Len(tables) <= Len(tables')
  /\ \A s \in Scopes : tables'[s].parent = tables[s].parent

\* New scopes leave the scopes around an old one as they were.
LEMMA EnclosingStays ==
  ASSUME Grows
  PROVE  \A s \in 0..Len(tables) : Enclosing'[s] = Enclosing[s]
<1> DEFINE T == {s \in Nat : s \in 0..Len(tables) => Enclosing'[s] = Enclosing[s]}
<1>1. /\ Enclosing[0] = {} /\ Enclosing'[0] = {}
      /\ \A s \in Scopes : Enclosing[s] = {s} \cup Enclosing[tables[s].parent]
      /\ \A s \in Scopes' : Enclosing'[s] = {s} \cup Enclosing'[tables'[s].parent]
  BY EnclosingEquation, EnclosingEquationNext DEF Grows
<1>2. Scopes \subseteq Scopes' /\ Len(tables) \in Nat
  BY DEF Grows, Scopes, Tree
<1>3. ASSUME NEW s \in Nat, \A m \in Nat : m < s => m \in T
      PROVE  s \in T
  <2>1. CASE s = 0
    BY <2>1, <1>1
  <2>2. CASE s \in Scopes
    <3>1. tables[s].parent \in 0..(s - 1) /\ tables'[s].parent = tables[s].parent
      BY <2>2 DEF Grows, Tree
    <3> DEFINE q == tables[s].parent
    <3>2. q \in 0..Len(tables) /\ q \in Nat /\ q < s
      BY <3>1, <2>2, <1>2 DEF Scopes
    <3>3. Enclosing'[q] = Enclosing[q]
      <4> HIDE DEF q
      <4>1. QED BY <3>2, <1>3
    <3>4. Enclosing[s] = {s} \cup Enclosing[q]
      BY <2>2, <1>1
    <3>5. Enclosing'[s] = {s} \cup Enclosing'[q]
      BY <2>2, <1>1, <1>2, <3>1
    <3> HIDE DEF q
    <3>6. QED BY <3>3, <3>4, <3>5
  <2>3. s \in 0..Len(tables) => s = 0 \/ s \in Scopes
    BY <1>2 DEF Scopes
  <2>4. QED BY <2>1, <2>2, <2>3
<1>4. \A s \in Nat : s \in T
  <2> HIDE DEF T
  <2>1. QED BY <1>3, StrongInduction
<1>5. QED BY <1>4

AnchorsTyped == \A s \in Scopes : anchors[s].id \in Nat

\* AroundEquation of the next state.
LEMMA AroundEquationNext ==
  (Tree /\ AnchorsTyped => \A a :
    \A s \in Scopes :
      /\ tables[s].parent = a => StatementAround(s, a) = anchors[s].id
      /\ tables[s].parent # a /\ s # Root =>
           StatementAround(s, a) = StatementAround(tables[s].parent, a))'
<1>1. Tree /\ AnchorsTyped => \A a :
        \A s \in Scopes :
          /\ tables[s].parent = a => StatementAround(s, a) = anchors[s].id
          /\ tables[s].parent # a /\ s # Root =>
               StatementAround(s, a) = StatementAround(tables[s].parent, a)
  BY AroundEquation DEF AnchorsTyped
<1>2. QED BY <1>1, PTL

\* HolderEquation of the next state.
LEMMA HolderEquationNext ==
  (Tree => \A n \in Names :
    /\ HolderOf(n)[0] = 0
    /\ \A s \in Scopes :
         HolderOf(n)[s] = IF Declared(s, n) THEN s ELSE HolderOf(n)[tables[s].parent])'
BY HolderEquation, PTL

\* New scopes leave the statements around an old one, and each is the anchor of
\* a scope that opens in a.
LEMMA AroundStays ==
  ASSUME Grows, AnchorsTyped, AnchorsTyped', \A s \in Scopes : anchors'[s] = anchors[s],
         NEW a \in Scopes
  PROVE  \A s \in Scopes : a \in Enclosing[s] \ {s} =>
           /\ StatementAround(s, a)' = StatementAround(s, a)
           /\ \E t \in Scopes : tables[t].parent = a /\ StatementAround(s, a) = anchors[t].id
<1> DEFINE P(s) == a \in Enclosing[s] \ {s} =>
             /\ StatementAround(s, a)' = StatementAround(s, a)
             /\ \E t \in Scopes : tables[t].parent = a /\ StatementAround(s, a) = anchors[t].id
           T == {s \in Nat : s \in Scopes => P(s)}
<1>1. /\ Enclosing[0] = {}
      /\ \A s \in Scopes : Enclosing[s] = {s} \cup Enclosing[tables[s].parent]
  BY EnclosingEquation DEF Grows
<1>2. Scopes \subseteq Scopes'
  BY DEF Grows, Scopes, Tree
<1>3. ASSUME NEW s \in Nat, \A m \in Nat : m < s => m \in T
      PROVE  s \in T
  <2> SUFFICES ASSUME s \in Scopes, a \in Enclosing[s] \ {s}
               PROVE  /\ StatementAround(s, a)' = StatementAround(s, a)
                      /\ \E t \in Scopes : tables[t].parent = a /\
                          StatementAround(s, a) = anchors[t].id
    OBVIOUS
  <2>1. a \in Enclosing[tables[s].parent]
    BY <1>1
  <2>2. s # Root
    BY <2>1, <1>1 DEF Grows, Tree, NoScope
  <2>3. s \in Scopes' /\ tables'[s].parent = tables[s].parent /\ anchors'[s] = anchors[s]
    BY <1>2 DEF Grows
  <2>4. CASE tables[s].parent = a
    <3>1. StatementAround(s, a) = anchors[s].id
      BY <2>4, AroundEquation DEF Grows, AnchorsTyped
    <3>2. StatementAround(s, a)' = anchors'[s].id
      BY <2>3, <2>4, AroundEquationNext DEF Grows
    <3>3. QED BY <3>1, <3>2, <2>3, <2>4
  <2>5. CASE tables[s].parent # a
    <3> DEFINE q == tables[s].parent
    <3>1. StatementAround(s, a) = StatementAround(q, a)
      BY <2>2, <2>5, AroundEquation DEF Grows, AnchorsTyped
    <3>2. StatementAround(s, a)' = StatementAround(q, a)'
      <4>1. StatementAround(s, a)' = StatementAround(tables[s].parent, a)'
        BY <2>2, <2>3, <2>5, AroundEquationNext DEF Grows
      <4>2. QED BY <4>1, <2>3
    <3>3. q \in Scopes /\ q \in Nat /\ q < s
      BY <2>2, EnclosingFacts DEF Grows, Tree, Scopes
    <3>4. P(q)
      <4>1. q \in T
        BY <3>3, <1>3
      <4> HIDE DEF P, q
      <4>2. QED BY <4>1, <3>3
    <3>5. QED BY <3>1, <3>2, <3>4, <2>1, <2>5
  <2>6. QED BY <2>4, <2>5
<1>4. \A s \in Nat : s \in T
  <2> HIDE DEF T
  <2>1. QED BY <1>3, StrongInduction
<1>5. \A s \in Scopes : s \in Nat
  BY DEF Scopes
<1>6. QED BY <1>4, <1>5

-----------------------------------------------------------------------------
(* The table that holds a name *)

\* A scope on the way out from scope t that has the name is the holder or is
\* around it, and is around t and the holder at the same statement.
LEMMA HolderFacts ==
  ASSUME Tree, AnchorsTyped, NEW n \in Names
  PROVE  \A t \in 0..Len(tables) :
           /\ HolderOf(n)[t] # 0 =>
                HolderOf(n)[t] \in Enclosing[t] /\ Declared(HolderOf(n)[t], n)
           /\ \A a \in Enclosing[t] : Declared(a, n) =>
                /\ HolderOf(n)[t] # 0
                /\ HolderOf(n)[t] # a =>
                     /\ a \in Enclosing[HolderOf(n)[t]]
                     /\ StatementAround(t, a) = StatementAround(HolderOf(n)[t], a)
<1> DEFINE H == HolderOf(n)
           P(t) ==
             /\ H[t] # 0 => H[t] \in Enclosing[t] /\ Declared(H[t], n)
             /\ \A a \in Enclosing[t] : Declared(a, n) =>
                  /\ H[t] # 0
                  /\ H[t] # a => a \in Enclosing[H[t]] /\
                      StatementAround(t, a) = StatementAround(H[t], a)
           T == {t \in Nat : t \in 0..Len(tables) => P(t)}
<1>1. /\ Enclosing[0] = {}
      /\ \A s \in Scopes : Enclosing[s] = {s} \cup Enclosing[tables[s].parent]
  BY EnclosingEquation
<1>2. /\ H[0] = 0
      /\ \A s \in Scopes : H[s] = IF Declared(s, n) THEN s ELSE H[tables[s].parent]
  BY HolderEquation
<1>3. \A s \in Scopes : s \in Enclosing[s] /\ s # 0
  BY EnclosingFacts DEF Scopes
<1>4. ASSUME NEW t \in Nat, \A m \in Nat : m < t => m \in T
      PROVE  t \in T
  <2> HIDE DEF H
  <2>1. CASE t = 0
    BY <2>1, <1>1, <1>2
  <2>2. CASE t \in Scopes /\ Declared(t, n)
    <3>1. H[t] = t /\ t # 0 /\ t \in Enclosing[t]
      BY <2>2, <1>2, <1>3
    <3>2. QED BY <3>1, <2>2
  <2>3. CASE t \in Scopes /\ ~Declared(t, n)
    <3> DEFINE q == tables[t].parent
    <3>1. H[t] = H[q] /\ Enclosing[t] = {t} \cup Enclosing[q]
      BY <2>3, <1>1, <1>2
    <3>2. q \in 0..Len(tables) /\ q \in Nat /\ q < t
      BY <2>3 DEF Tree, Scopes
    <3>3. P(q)
      <4>1. q \in T
        BY <3>2, <1>4
      <4> HIDE DEF P, q
      <4>2. QED BY <4>1, <3>2
    <3>4. H[t] # 0 => H[t] \in Enclosing[t] /\ Declared(H[t], n)
      <4> HIDE DEF q
      <4>1. QED BY <3>1, <3>3
    <3>5. ASSUME NEW a \in Enclosing[t], Declared(a, n)
          PROVE  /\ H[t] # 0
                 /\ H[t] # a => a \in Enclosing[H[t]] /\
                     StatementAround(t, a) = StatementAround(H[t], a)
      <4>1. a \in Enclosing[q] /\ a # t
        BY <2>3, <3>1, <3>5
      <4>2. /\ H[q] # 0
            /\ H[q] # a => a \in Enclosing[H[q]] /\ StatementAround(q, a) = StatementAround(H[q], a)
        <5> HIDE DEF q
        <5>1. QED BY <3>3, <3>5, <4>1
      <4>3. ASSUME H[t] # a PROVE StatementAround(t, a) = StatementAround(q, a)
        <5>1. q # a
          <6>1. a \in Scopes
            <7>1. q \in Scopes
              BY <4>1, <1>1, <3>2 DEF Scopes
            <7>2. QED BY <4>1, <7>1, EnclosingFacts
          <6>2. H[a] = a
            BY <6>1, <1>2, <3>5
          <6>3. QED BY <6>2, <3>1, <4>3
        <5>2. t # Root
          <6>1. q # 0
            BY <4>1, <1>1
          <6>2. QED BY <2>3, <6>1 DEF Tree, NoScope
        <5>3. QED BY <2>3, <5>1, <5>2, AroundEquation DEF AnchorsTyped
      <4> HIDE DEF q
      <4>4. QED BY <4>2, <4>3, <3>1
    <3>6. QED BY <3>4, <3>5
  <2>4. t \in 0..Len(tables) => t = 0 \/ t \in Scopes
    BY DEF Tree, Scopes
  <2> HIDE DEF P
  <2>5. QED BY <2>1, <2>2, <2>3, <2>4
<1>5. \A t \in Nat : t \in T
  <2> HIDE DEF T
  <2>1. QED BY <1>4, StrongInduction
<1>6. \A t \in 0..Len(tables) : P(t)
  <2> HIDE DEF P
  <2>1. QED BY <1>5
<1>7. QED BY <1>6

\* A name must not be shadowed in s when around s it is that of a function.
LEMMA IllegalMeans ==
  \A s, n : IsIllegalShadowing(s, n) <=>
    /\ HolderOf(n)[tables[s].parent] # 0
    /\ tables[HolderOf(n)[tables[s].parent]].symbols[n].kind = "Function"
BY DEF IsIllegalShadowing, CanBeShadowed, VisibleSymbolInParents, NoSymbol

\* IllegalMeans of the next state.
LEMMA IllegalMeansNext ==
  (\A s, n : IsIllegalShadowing(s, n) <=>
    /\ HolderOf(n)[tables[s].parent] # 0
    /\ tables[HolderOf(n)[tables[s].parent]].symbols[n].kind = "Function")'
BY IllegalMeans, PTL

\* A step of the visits adds at most one symbol, where no function of that name
\* is visible.
AddsAtMost(c, m) ==
  \A s \in Scopes, n \in Names :
    \/ tables'[s].symbols[n] = tables[s].symbols[n]
    \/ s = c /\ n = m /\ ~Declared(s, n) /\ ~IsIllegalShadowing(s, n)

\* What is refused because it shadows a function stays refused.
LEMMA ShadowingStays ==
  ASSUME Grows, AnchorsTyped, AnchorsTyped', NEW c \in Scopes, NEW m, AddsAtMost(c, m),
         NEW s \in Scopes, NEW n \in Names, IsIllegalShadowing(s, n)
  PROVE  IsIllegalShadowing(s, n)'
<1> DEFINE H == HolderOf(n)
           G == HolderOf(n)'
           P(t) == G[t] = H[t] \/ (G[t] = c /\ n = m /\ H[t] = H[tables[c].parent]
                                     /\ ~Declared(c, n) /\ ~IsIllegalShadowing(c, n))
           T == {t \in Nat : t \in 0..Len(tables) => P(t)}
<1>1. /\ H[0] = 0
      /\ \A t \in Scopes : H[t] = IF Declared(t, n) THEN t ELSE H[tables[t].parent]
  BY HolderEquation DEF Grows
<1>2. /\ G[0] = 0
      /\ \A t \in Scopes' : G[t] = IF Declared(t, n)' THEN t ELSE G[tables'[t].parent]
  BY HolderEquationNext DEF Grows
<1>3. Scopes \subseteq Scopes'
  BY DEF Grows, Scopes, Tree
<1>4. ASSUME NEW t \in Nat, \A k \in Nat : k < t => k \in T
      PROVE  t \in T
  <2>1. CASE t = 0
    BY <2>1, <1>1, <1>2
  <2>2. CASE t \in Scopes
    <3> DEFINE q == tables[t].parent
    <3>1. /\ H[t] = IF Declared(t, n) THEN t ELSE H[q]
          /\ G[t] = IF Declared(t, n)' THEN t ELSE G[q]
      <4>1. tables'[t].parent = q
        BY <2>2 DEF Grows
      <4> HIDE DEF H, G
      <4>2. QED BY <2>2, <1>1, <1>2, <1>3, <4>1
    <3>2. P(q)
      <4>1. q \in 0..Len(tables) /\ q \in Nat /\ q < t
        BY <2>2 DEF Grows, Tree, Scopes
      <4>2. q \in T
        BY <4>1, <1>4
      <4> HIDE DEF P, q
      <4>3. QED BY <4>1, <4>2
    <3>3. CASE tables'[t].symbols[n] = tables[t].symbols[n]
      <4>1. Declared(t, n)' <=> Declared(t, n)
        BY <3>3 DEF Declared
      <4> HIDE DEF H, G, q
      <4>2. QED BY <3>1, <3>2, <4>1
    <3>4. CASE t = c /\ n = m /\ ~Declared(t, n) /\ ~IsIllegalShadowing(t, n)
      <4>1. H[c] = H[tables[c].parent]
        BY <3>1, <3>4
      <4> HIDE DEF H, G
      <4>2. QED BY <3>1, <3>2, <3>4, <4>1
    <3>5. QED BY <2>2, <3>3, <3>4 DEF AddsAtMost
  <2>3. t \in 0..Len(tables) => t = 0 \/ t \in Scopes
    BY DEF Grows, Tree, Scopes
  <2> HIDE DEF P
  <2>4. QED BY <2>1, <2>2, <2>3
<1>5. \A t \in Nat : t \in T
  <2> HIDE DEF T
  <2>1. QED BY <1>4, StrongInduction
<1> DEFINE p == tables[s].parent
<1>6. p \in 0..Len(tables) /\ p \in Nat /\ tables'[s].parent = p
  BY DEF Grows, Tree, Scopes
<1>7. P(p)
  <2> HIDE DEF P, p
  <2>1. QED BY <1>5, <1>6
<1>8. H[p] # 0 /\ tables[H[p]].symbols[n].kind = "Function"
  BY IllegalMeans
<1>9. H[p] \in Scopes /\ Declared(H[p], n)
  <2>1. H[p] \in Enclosing[p] /\ Declared(H[p], n)
    BY <1>6, <1>8, HolderFacts DEF Grows
  <2>2. p \in Scopes
    BY <1>1, <1>6, <1>8 DEF Scopes
  <2>3. QED BY <2>1, <2>2, EnclosingFacts DEF Grows
<1>10. G[p] = H[p]
  <2> SUFFICES ASSUME H[p] = H[tables[c].parent], ~IsIllegalShadowing(c, n) PROVE FALSE
    BY <1>7
  <2>1. QED BY <1>8, IllegalMeans
<1>11. tables'[H[p]].symbols[n] = tables[H[p]].symbols[n]
  BY <1>9 DEF AddsAtMost
<1>12. G[tables'[s].parent] # 0 /\ tables'[G[tables'[s].parent]].symbols[n].kind = "Function"
  BY <1>6, <1>8, <1>10, <1>11
<1>13. QED BY <1>12, IllegalMeansNext

-----------------------------------------------------------------------------
(* Functions are shadowed by later ones only *)

\* The visits add no symbol to the scopes they enter.
NewScopesEmpty ==
  \A s \in Scopes' \ Scopes, n \in Names : ~Declared(s, n)'

\* Functions are declared at statements that follow all scopes in their scope.
LEMMA OnlyLaterStays ==
  ASSUME Grows, AnchorsTyped, AnchorsTyped', \A s \in Scopes : anchors'[s] = anchors[s],
         OnlyLaterFunctionsShadowed, NewScopesEmpty, NEW c \in Scopes, NEW m, AddsAtMost(c, m),
         \A t \in Scopes : tables[t].parent = c /\ m \in Names /\ ~Declared(c, m) /\
             tables'[c].symbols[m] # NoSymbol =>
                             anchors[t].id < tables'[c].symbols[m].id
  PROVE  OnlyLaterFunctionsShadowed'
<1> SUFFICES ASSUME NEW s \in Scopes', NEW a \in Scopes', NEW n \in Names, ShadowsFunction(s, a, n)'
             PROVE  StatementAround(s, a)' < tables'[a].symbols[n].id
  BY DEF OnlyLaterFunctionsShadowed
<1>1. /\ s \in Scopes /\ Enclosing'[s] = Enclosing[s] /\ a \in Enclosing[s] \ {s}
      /\ a \in Scopes /\ Declared(s, n)' /\ tables'[a].symbols[n].kind = "Function"
  <2>1. Declared(s, n)' /\ a \in Enclosing'[s] \ {s} /\ tables'[a].symbols[n].kind = "Function"
    BY DEF ShadowsFunction, Declared
  <2>2. s \in Scopes
    BY <2>1 DEF NewScopesEmpty
  <2>3. s \in 0..Len(tables)
    BY <2>2 DEF Scopes
  <2>4. Enclosing'[s] = Enclosing[s]
    BY <2>3, EnclosingStays
  <2>5. a \in Scopes
    BY <2>1, <2>2, <2>4, EnclosingFacts DEF Grows
  <2>6. QED BY <2>1, <2>2, <2>4, <2>5
<1>2. StatementAround(s, a)' = StatementAround(s, a)
  BY <1>1, AroundStays
<1>3. PICK t \in Scopes : tables[t].parent = a /\ StatementAround(s, a) = anchors[t].id
  BY <1>1, AroundStays
<1>4. CASE tables'[a].symbols[n] # tables[a].symbols[n]
  <2>1. a = c /\ n = m /\ ~Declared(c, m)
    BY <1>1, <1>4 DEF AddsAtMost
  <2>2. tables'[c].symbols[m] # NoSymbol
    BY <1>1, <2>1 DEF Declared, NoSymbol
  <2>3. QED BY <1>2, <1>3, <2>1, <2>2
<1>5. CASE tables'[a].symbols[n] = tables[a].symbols[n] /\
    tables'[s].symbols[n] = tables[s].symbols[n]
  <2>1. ShadowsFunction(s, a, n)
    BY <1>1, <1>5 DEF ShadowsFunction, Declared
  <2>2. QED BY <1>1, <1>2, <1>5, <2>1 DEF OnlyLaterFunctionsShadowed
<1>6. CASE tables'[a].symbols[n] = tables[a].symbols[n] /\
    tables'[s].symbols[n] # tables[s].symbols[n]
  <2> DEFINE p == tables[s].parent
             h == HolderOf(n)[p]
  <2>1. ~IsIllegalShadowing(s, n)
    BY <1>1, <1>6 DEF AddsAtMost
  <2>2. Declared(a, n) /\ tables[a].symbols[n].kind = "Function"
    BY <1>1, <1>6 DEF Declared, NoSymbol
  <2>3. p \in 0..Len(tables) /\ Enclosing[s] = {s} \cup Enclosing[p]
    BY <1>1, EnclosingEquation DEF Grows, Tree, Scopes
  <2>4. a \in Enclosing[p]
    BY <1>1, <2>3
  <2>5. /\ h # 0 /\ h \in Enclosing[p] /\ Declared(h, n)
        /\ h # a => a \in Enclosing[h] /\ StatementAround(p, a) = StatementAround(h, a)
    BY <2>2, <2>3, <2>4, HolderFacts DEF Grows
  <2>6. h # a
    BY <2>1, <2>2, <2>5, IllegalMeans
  <2>7. p \in Scopes
    <3>1. p # 0
      BY <2>4, EnclosingEquation DEF Grows
    <3>2. QED BY <2>3, <3>1 DEF Scopes
  <2>8. h \in Scopes
    BY <2>5, <2>7, EnclosingFacts DEF Grows
  <2>9. p # a
    <3>1. HolderOf(n)[a] = a
      BY <1>1, <2>2, HolderEquation DEF Grows
    <3>2. QED BY <2>6, <3>1
  <2>10. StatementAround(s, a) = StatementAround(p, a)
    <3>1. s # Root
      BY <1>1, <2>7 DEF Grows, Tree, NoScope, Scopes
    <3>2. QED BY <1>1, <2>9, <3>1, AroundEquation DEF Grows, AnchorsTyped
  <2>11. ShadowsFunction(h, a, n)
    BY <2>2, <2>5, <2>6 DEF ShadowsFunction, Declared
  <2>12. StatementAround(h, a) < tables[a].symbols[n].id
    BY <1>1, <2>8, <2>11 DEF OnlyLaterFunctionsShadowed
  <2>13. QED BY <1>2, <1>6, <2>5, <2>6, <2>10, <2>12
<1>7. QED BY <1>4, <1>5, <1>6

-----------------------------------------------------------------------------
(* The stack of scopes while the program is visited *)

\* While the program is visited the stack holds the scopes around the current
\* one, each the parent of the next, with their counters.
LEMMA StackFacts ==
  ASSUME IInv, phase = "visit"
  PROVE  /\ Tree /\ AnchorsTyped /\ Len(scopeStack) \in Nat \ {0}
         /\ CurrentScope = scopeStack[Len(scopeStack)] /\ CurrentScope \in Scopes
         /\ Last(nextIds) = nextIds[Len(nextIds)] /\ nextIds \in Seq(Nat)
         /\ Len(nextIds) = Len(scopeStack) /\ Len(saved) = Len(scopeStack) - 1
         /\ \A j \in 1..Len(scopeStack) :
              scopeStack[j] \in Scopes /\ nextIds[j] \in Nat
         /\ \A j \in 1..(Len(scopeStack) - 1) :
              /\ tables[scopeStack[j + 1]].parent = scopeStack[j]
              /\ scopeStack[j] # CurrentScope
         /\ \A i, j \in 1..Len(scopeStack) : scopeStack[i] = scopeStack[j] => i = j
         /\ \A t \in Enclosing[CurrentScope] \ {Root} : \E j \in 1..(Len(scopeStack) - 1) :
              t = scopeStack[j + 1] /\ tables[t].parent = scopeStack[j]
<1> DEFINE d == Len(scopeStack)
           S == scopeStack
<1>1. Tree /\ AnchorsTyped
  BY TreeOf DEF IInv, AnchorsTyped, ScopedStmtRef
<1>2. Shape /\ Stacks
  BY Visiting
<1>3. /\ d \in Nat \ {0} /\ CurrentScope = S[d] /\ CurrentScope \in Scopes
      /\ nextIds \in Seq(Nat) /\ nextIds # <<>> /\ Len(nextIds) = d /\ Len(saved) = d - 1
  BY <1>2, VisitFacts DEF Shape, NumTypeOK, ScopesAgree, Stacks
<1>4. Last(nextIds) = nextIds[Len(nextIds)]
  BY <1>3, LastProperties
<1>5. \A j \in 1..d : S[j] \in Scopes /\ tables[S[j]].parent = IF j = 1 THEN NoScope ELSE S[j - 1]
  BY <1>2 DEF Shape, ScopesAgree
<1>6. \A j \in 1..d : nextIds[j] \in Nat
  BY <1>3
<1>7. \A j \in 1..(d - 1) : tables[S[j + 1]].parent = S[j] /\ S[j] < S[j + 1]
  <2> TAKE j \in 1..(d - 1)
  <2>1. j + 1 \in 1..d /\ j + 1 # 1 /\ (j + 1) - 1 = j
    BY <1>3
  <2>2. tables[S[j + 1]].parent = S[j] /\ S[j + 1] \in Scopes
    <3> HIDE DEF S, d
    <3>1. tables[S[j + 1]].parent = S[(j + 1) - 1] /\ S[j + 1] \in Scopes
      BY <2>1, <1>5
    <3>2. QED BY <3>1, <2>1
  <2>3. QED BY <2>2, <1>1 DEF Tree, Scopes
<1>8. \A j \in 1..d : S[j] \in Nat
  BY <1>5 DEF Scopes
<1>9. \A j \in 1..d, i \in 1..d : i < j => S[i] < S[j]
  <2> DEFINE T == {j \in Nat : j \in 1..d => \A i \in 1..d : i < j => S[i] < S[j]}
  <2> HIDE DEF S, d
  <2>1. 0 \in T
    OBVIOUS
  <2>2. ASSUME NEW j \in Nat, j \in T PROVE j + 1 \in T
    <3> SUFFICES ASSUME j + 1 \in 1..d, NEW i \in 1..d, i < j + 1 PROVE S[i] < S[j + 1]
      OBVIOUS
    <3>1. CASE j = 0
      BY <3>1
    <3>2. CASE j # 0
      <4>1. j \in 1..d /\ j \in 1..(d - 1) /\ S[j] < S[j + 1] /\ S[j] \in Nat /\ S[i] \in Nat /\
          S[j + 1] \in Nat
        <5>1. j \in 1..(d - 1) /\ j \in 1..d
          BY <3>2, <1>3
        <5>2. QED BY <5>1, <1>7, <1>8
      <4>2. i = j \/ i < j
        OBVIOUS
      <4>3. i < j => S[i] < S[j]
        BY <4>1, <2>2
      <4>4. QED BY <4>1, <4>2, <4>3
    <3>3. QED BY <3>1, <3>2
  <2>3. \A j \in Nat : j \in T
    <3> HIDE DEF T
    <3>1. QED BY <2>1, <2>2, Induction
  <2>4. QED BY <2>3
<1>10. \A i, j \in 1..d : S[i] = S[j] => i = j
  <2> HIDE DEF S, d
  <2> TAKE i, j \in 1..d
  <2>1. i < j \/ j < i \/ i = j
    OBVIOUS
  <2>2. S[i] \in Nat /\ S[j] \in Nat
    BY <1>8
  <2>3. QED BY <2>1, <2>2, <1>9
<1>11. \A j \in 1..(d - 1) : S[j] # CurrentScope
  <2> HIDE DEF S, d
  <2> TAKE j \in 1..(d - 1)
  <2>1. j \in 1..d /\ d \in 1..d /\ j # d
    BY <1>3
  <2>2. QED BY <2>1, <1>3, <1>10
<1>12. \A k \in Nat : k \in 1..d => \A t \in Enclosing[S[k]] : \E j \in 1..d : t = S[j]
  <2> DEFINE T == {k \in Nat : k \in 1..d => \A t \in Enclosing[S[k]] : \E j \in 1..d : t = S[j]}
  <2> HIDE DEF S, d
  <2>1. 0 \in T
    OBVIOUS
  <2>2. ASSUME NEW k \in Nat, k \in T PROVE k + 1 \in T
    <3> SUFFICES ASSUME k + 1 \in 1..d, NEW t \in Enclosing[S[k + 1]] PROVE \E j \in 1..d : t = S[j]
      OBVIOUS
    <3>1. /\ S[k + 1] \in Scopes
          /\ Enclosing[S[k + 1]] = {S[k + 1]} \cup Enclosing[tables[S[k + 1]].parent]
      BY <1>1, <1>5, EnclosingEquation
    <3>2. CASE k = 0
      <4>1. tables[S[k + 1]].parent = NoScope
        BY <3>2, <1>5
      <4>2. Enclosing[0] = {}
        BY <1>1, EnclosingEquation
      <4>3. QED BY <3>1, <4>1, <4>2 DEF NoScope
    <3>3. CASE k # 0
      <4>1. k \in 1..d /\ k \in 1..(d - 1)
        BY <3>3, <1>3
      <4>2. tables[S[k + 1]].parent = S[k]
        BY <4>1, <1>7
      <4>3. QED BY <3>1, <4>1, <4>2, <2>2
    <3>4. QED BY <3>2, <3>3
  <2>3. \A k \in Nat : k \in T
    <3> HIDE DEF T
    <3>1. QED BY <2>1, <2>2, Induction
  <2>4. QED BY <2>3
<1>13. \A t \in Enclosing[CurrentScope] \ {Root} : \E j \in 1..(d - 1) :
         t = S[j + 1] /\ tables[t].parent = S[j]
  <2> TAKE t \in Enclosing[CurrentScope] \ {Root}
  <2> HIDE DEF S, d
  <2>1. PICK i \in 1..d : t = S[i]
    BY <1>3, <1>12
  <2>2. i # 1
    <3>1. i = 1 => tables[t].parent = NoScope /\ t \in Scopes
      BY <1>5, <2>1
    <3>2. QED BY <3>1, <1>1 DEF Tree
  <2>3. i - 1 \in 1..(d - 1) /\ (i - 1) + 1 = i
    BY <2>2, <1>3
  <2>4. tables[t].parent = S[i - 1]
    BY <2>1, <2>2, <1>5
  <2>5. QED BY <2>1, <2>3, <2>4
<1>14. QED BY <1>1, <1>3, <1>4, <1>5, <1>6, <1>7, <1>10, <1>11, <1>13

-----------------------------------------------------------------------------
(* What a visit adds, and where *)

\* The number a new symbol gets: that of the next statement, or 0 before the first.
NewNumber(number) == number = Last(nextIds) \/ (number = 0 /\ Last(nextIds) = 1)

\* tabs are the tables with at most one more symbol, n in the current scope.
Added(tabs, n, number) ==
  \A s \in Scopes, m \in Names :
    \/ tabs[s].symbols[m] = tables[s].symbols[m]
    \/ /\ s = CurrentScope /\ m = n /\ ~Declared(s, m) /\ ~IsIllegalShadowing(s, m)
       /\ tabs[s].symbols[m] # NoSymbol /\ tabs[s].symbols[m].id = number

\* n was added, or refused.
Taken(tabs, n) == tabs[CurrentScope].symbols[n] # NoSymbol \/ IsIllegalShadowing(CurrentScope, n)

\* A visit that adds no symbol.
LEMMA NothingAdded == \A n, number : Added(tables, n, number)
  BY DEF Added

\* A visit that tries to add n to the current scope: n is then declared there or
\* forbidden.
LEMMA AddedTables ==
  ASSUME IInv, phase = "visit", NEW n \in Names, NEW kind \in SymbolKinds, NEW number \in Nat,
         NEW type \in Classes \cup {NoClass}, NEW ref, ref.scope = CurrentScope, ref.id = number
  PROVE  LET tabs == TablesAfterAdd(CurrentScope, n, Symbol(kind, ref, type))
         IN  SameTree(tabs) /\ Added(tabs, n, number) /\ Taken(tabs, n)
<1> DEFINE symbol == Symbol(kind, ref, type)
           c == CurrentScope
           tabs == TablesAfterAdd(c, n, symbol)
           row == [tables[c] EXCEPT !.symbols[n] = symbol]
           more == [tables EXCEPT ![c] = row]
<1>1. c \in Scopes /\ c \in Nat /\ TableTypeOK /\ SymbolInv
  BY StackFacts, Visiting DEF Scopes
<1>2. symbol \in SymbolType /\ symbol.scope = c /\ symbol.id = number
  BY <1>1, SymbolTypeOf DEF Symbol
<1>3. SameTree(tabs)
  <2> HIDE DEF symbol
  <2>1. QED BY <1>1, <1>2, TablesAfterAddSameTree
<1>4. symbol # NoSymbol
  BY DEF Symbol, NoSymbol, SymbolKinds
<1>5. tables[c] \in TableType /\ c \in DOMAIN tables
  BY <1>1, ElementOfSeq DEF Scopes, TableTypeOK
<1> HIDE DEF symbol, c
<1>6. row.symbols[n] = symbol /\ \A m \in Names : m # n => row.symbols[m] = tables[c].symbols[m]
  BY <1>5 DEF TableType
<1>7. more[c] = row /\ \A s \in Scopes : s # c => more[s] = tables[s]
  <2> HIDE DEF row
  <2>1. QED BY <1>5 DEF Scopes
<1>8. [tables EXCEPT ![c].symbols[n] = symbol] = more
  OBVIOUS
<1> HIDE DEF row, more
<1>9. Added(tabs, n, number) /\ Taken(tabs, n)
  <2>1. CASE IsDuplicate(c, n) \/ IsIllegalShadowing(c, n)
    <3>1. tabs = tables
      BY <2>1 DEF TablesAfterAdd
    <3>2. QED BY <2>1, <3>1 DEF Added, Taken, IsDuplicate, c
  <2>2. CASE ~(IsDuplicate(c, n) \/ IsIllegalShadowing(c, n))
    <3>1. tabs = more
      BY <2>2, <1>8 DEF TablesAfterAdd
    <3> HIDE DEF tabs
    <3>2. Added(more, n, number)
      <4> SUFFICES ASSUME NEW s \in Scopes, NEW m \in Names
                   PROVE  \/ more[s].symbols[m] = tables[s].symbols[m]
                          \/ /\ s = c /\ m = n /\ ~Declared(s, m) /\ ~IsIllegalShadowing(s, m)
                             /\ more[s].symbols[m] # NoSymbol /\ more[s].symbols[m].id = number
        BY DEF Added, c
      <4>1. CASE s = c /\ m = n
        <5>1. more[s].symbols[m] = symbol
          BY <4>1, <1>6, <1>7
        <5>2. QED BY <4>1, <5>1, <2>2, <1>2, <1>4 DEF IsDuplicate, Declared
      <4>2. CASE s = c /\ m # n
        BY <4>2, <1>6, <1>7
      <4>3. CASE s # c
        BY <4>3, <1>7
      <4>4. QED BY <4>1, <4>2, <4>3
    <3>3. Taken(more, n)
      BY <1>4, <1>6, <1>7 DEF Taken, c
    <3>4. QED BY <3>1, <3>2, <3>3
  <2>3. QED BY <2>1, <2>2
<1>10. QED BY <1>3, <1>9 DEF symbol, c

-----------------------------------------------------------------------------
(* The parts of LexicalInv for what is in the tables before a visit *)

\* A visit keeps the scopes where they are and adds at most one symbol.
Keeping(n, number) ==
  /\ Grows /\ AnchorsTyped /\ AnchorsTyped' /\ NewNumber(number) /\ NewScopesEmpty
  /\ \A s \in Scopes : anchors'[s] = anchors[s]
  /\ \A s \in Scopes : tables'[s].owner = tables[s].owner /\ tables'[s].name = tables[s].name
  /\ Added(tables', n, number)

\* A visit adds at most n, changes no symbol, and lets a function be shadowed only
\* in scopes that open before it.
LEMMA KeepingAdds ==
  ASSUME IInv, phase = "visit", LexicalInv, NEW n, NEW number, Keeping(n, number)
  PROVE  /\ AddsAtMost(CurrentScope, n)
         /\ \A s \in Scopes, m \in Names : Declared(s, m) =>
             tables'[s].symbols[m] = tables[s].symbols[m]
         /\ OnlyLaterFunctionsShadowed'
<1>1. AddsAtMost(CurrentScope, n)
  BY DEF Keeping, Added, AddsAtMost
<1>2. \A s \in Scopes, m \in Names : Declared(s, m) => tables'[s].symbols[m] = tables[s].symbols[m]
  BY DEF Keeping, Added
<1> DEFINE d == Len(scopeStack)
<1>3. /\ CurrentScope \in Scopes /\ CurrentScope = scopeStack[d] /\ d \in 1..Len(scopeStack)
      /\ Last(nextIds) = nextIds[d] /\ nextIds[d] \in Nat
  BY StackFacts
<1>4. ASSUME NEW t \in Scopes, tables[t].parent = CurrentScope, n \in Names,
             ~Declared(CurrentScope, n), tables'[CurrentScope].symbols[n] # NoSymbol
      PROVE  anchors[t].id < tables'[CurrentScope].symbols[n].id
  <2>1. tables'[CurrentScope].symbols[n].id = number
    BY <1>3, <1>4 DEF Keeping, Added, Declared
  <2>2. anchors[t].id < Last(nextIds)
    BY <1>3, <1>4 DEF LexicalInv, NumbersInv
  <2>3. t # Root /\ anchors[t].id >= 1
    <3>1. t # Root
      BY <1>3, <1>4 DEF Keeping, Grows, Tree, NoScope, Scopes
    <3>2. QED BY <3>1 DEF LexicalInv, NumbersInv
  <2>4. anchors[t].id \in Nat
    BY DEF Keeping, AnchorsTyped
  <2>5. QED BY <1>3, <2>1, <2>2, <2>3, <2>4 DEF Keeping, NewNumber
<1>5. OnlyLaterFunctionsShadowed'
  <2>1. CurrentScope \in Scopes /\ OnlyLaterFunctionsShadowed
    BY <1>3 DEF LexicalInv
  <2>2. \A t \in Scopes :
          tables[t].parent = CurrentScope /\ n \in Names /\ ~Declared(CurrentScope, n) /\
              tables'[CurrentScope].symbols[n] # NoSymbol =>
            anchors[t].id < tables'[CurrentScope].symbols[n].id
    BY <1>4
  <2>3. QED BY <1>1, <2>1, <2>2, OnlyLaterStays DEF Keeping
<1>6. QED BY <1>1, <1>2, <1>5

\* Every declaration in the current scope is behind the visit.
LEMMA TopIsComplete ==
  ASSUME IInv, phase = "visit", LexicalInv, NEW n \in Names, Declared(CurrentScope, n)
  PROVE  <<CurrentScope, n>> \in complete /\ NumberOf(CurrentScope, n) < Last(nextIds)
<1>1. CurrentScope \in Scopes /\ \A j \in 1..(Len(scopeStack) - 1) : scopeStack[j] # CurrentScope
  BY StackFacts
<1>2. <<CurrentScope, n>> \in complete
  BY <1>1 DEF LexicalInv, CompleteInv
<1>3. CurrentScope = scopeStack[Len(scopeStack)] /\ Len(scopeStack) \in 1..Len(scopeStack)
      /\ Last(nextIds) = nextIds[Len(scopeStack)]
  BY StackFacts
<1>4. QED BY <1>2, <1>3 DEF LexicalInv, NumbersInv

\* Nothing the visits complete was in no table and free to be taken.
LEMMA NewIsNotComplete ==
  ASSUME LexicalInv, NEW s \in Scopes, NEW n \in Names, ~Declared(s, n), ~IsIllegalShadowing(s, n)
  PROVE  <<s, n>> \notin complete
BY DEF LexicalInv, CompleteInv, Settled, Scopes

\* What BeforeInv says of one use.
BeforeFits(use) ==
  LET n == use.form.name
  IN  /\ \A s \in use.before : <<s, n>> \in complete
      /\ Declared(use.scope, n) =>
           (use.scope \in use.before <=> NumberOf(use.scope, n) < use.ref.id)
      /\ \A t \in Enclosing[use.scope] \ {Root} :
           Declared(tables[t].parent, n) =>
             (tables[t].parent \in use.before <=> NumberOf(tables[t].parent, n) < anchors[t].id)

\* A symbol that is added later does not change what was behind an earlier use.
LEMMA OldUses ==
  ASSUME IInv, phase = "visit", LexicalInv, NEW n, NEW number, Keeping(n, number),
         complete \subseteq complete', NEW use \in UseType, NEW i \in 1..Len(uses), use = uses[i]
  PROVE  BeforeFits(use)'
<1> DEFINE m == use.form.name
           c == CurrentScope
<1>1. m \in Names /\ use.scope \in Scopes /\ use.ref.id \in Nat
  <2>1. m \in Names /\ use.ref.id \in Nat
    BY BuilderAssumption DEF UseType, AllUseForms, ScopedStmtRef
  <2>2. QED BY <2>1 DEF IInv, UseInv
<1>2. BeforeFits(use)
  BY DEF LexicalInv, BeforeInv, BeforeFits
<1>3. /\ Grows /\ Scopes \subseteq Scopes'
      /\ \A s \in Scopes : anchors'[s] = anchors[s] /\ tables'[s].parent = tables[s].parent
  BY DEF Keeping, Grows, Scopes, Tree
<1>4. Enclosing'[use.scope] = Enclosing[use.scope] /\ Enclosing[use.scope] \subseteq Scopes
  <2>1. use.scope \in 0..Len(tables)
    BY <1>1 DEF Scopes
  <2>2. QED BY <1>1, <1>3, <2>1, EnclosingStays, EnclosingFacts DEF Grows
<1>5. \A s \in use.before : <<s, m>> \in complete'
  BY <1>2 DEF BeforeFits
<1>6. /\ c \in Scopes /\ c = scopeStack[Len(scopeStack)] /\ Len(scopeStack) \in 1..Len(scopeStack)
      /\ Last(nextIds) = nextIds[Len(scopeStack)] /\ Last(nextIds) \in Nat
  BY StackFacts
<1>7. ASSUME NEW s \in Scopes, tables'[s].symbols[m] # NoSymbol, NEW x \in Nat, x >= 1,
             s = c => x < Last(nextIds),
             Declared(s, m) => (s \in use.before <=> NumberOf(s, m) < x)
      PROVE  s \in use.before <=> tables'[s].symbols[m].id < x
  <2>1. CASE tables'[s].symbols[m] = tables[s].symbols[m]
    BY <1>7, <2>1 DEF Declared, NumberOf
  <2>2. CASE /\ s = c /\ m = n /\ ~Declared(s, m) /\ ~IsIllegalShadowing(s, m)
             /\ tables'[s].symbols[m].id = number
    <3>1. s \notin use.before
      BY <1>1, <1>2, <2>2, NewIsNotComplete DEF BeforeFits
    <3>2. ~(number < x)
      BY <1>6, <1>7, <2>2 DEF Keeping, NewNumber
    <3>3. QED BY <2>2, <3>1, <3>2
  <2>3. QED BY <1>1, <2>1, <2>2 DEF Keeping, Added
<1>8. Declared(use.scope, m)' =>
        (use.scope \in use.before <=> NumberOf(use.scope, m)' < use.ref.id)
  <2>1. use.ref.id >= 1
    BY DEF LexicalInv, NumbersInv
  <2>2. use.scope = c => use.ref.id < Last(nextIds)
    BY <1>6 DEF LexicalInv, NumbersInv
  <2>3. Declared(use.scope, m) => (use.scope \in use.before <=> NumberOf(use.scope, m) < use.ref.id)
    BY <1>2 DEF BeforeFits
  <2> HIDE DEF m, c
  <2>4. QED BY <1>1, <1>7, <2>1, <2>2, <2>3 DEF Declared, NumberOf
<1>9. ASSUME NEW t \in Enclosing[use.scope] \ {Root},
             tables'[tables[t].parent].symbols[m] # NoSymbol
      PROVE  tables[t].parent \in use.before <=>
               tables'[tables[t].parent].symbols[m].id < anchors[t].id
  <2> DEFINE s == tables[t].parent
             x == anchors[t].id
  <2>1. t \in Scopes /\ s \in Scopes
    BY <1>3, <1>4, EnclosingFacts DEF Grows
  <2>2. x \in Nat /\ x >= 1
    BY <2>1 DEF Keeping, AnchorsTyped, LexicalInv, NumbersInv
  <2>3. s = c => x < Last(nextIds)
    BY <1>6, <2>1 DEF LexicalInv, NumbersInv
  <2>4. Declared(s, m) => (s \in use.before <=> NumberOf(s, m) < x)
    BY <1>2 DEF BeforeFits
  <2> HIDE DEF m, c, s, x
  <2>5. tables'[s].symbols[m] # NoSymbol
    BY <1>9 DEF s
  <2>6. s \in use.before <=> tables'[s].symbols[m].id < x
    BY <1>7, <2>1, <2>2, <2>3, <2>4, <2>5
  <2>7. QED BY <2>6 DEF s, x
<1>10. \A t \in Enclosing[use.scope] : anchors'[t] = anchors[t] /\
    tables'[t].parent = tables[t].parent
  BY <1>3, <1>4
<1>11. QED
  <2>1. \A t \in Enclosing'[use.scope] \ {Root} :
          tables'[tables'[t].parent].symbols[m] # NoSymbol =>
            (tables'[t].parent \in use.before <=>
               tables'[tables'[t].parent].symbols[m].id < anchors'[t].id)
    <3> HIDE DEF m
    <3>1. QED BY <1>4, <1>9, <1>10
  <2>2. QED BY <1>5, <1>8, <2>1 DEF BeforeFits, Declared, NumberOf

\* Where a use or a scope may be put into the current scope: at a statement all
\* declarations of the scope precede, when the counters go on to ids.
Position(ref, ids) ==
  /\ ref \in ScopedStmtRef /\ ref.scope = CurrentScope /\ ref.id >= 1
  /\ ids \in Seq(Nat) /\ Len(ids) = Len(nextIds)
  /\ \A j \in 1..(Len(nextIds) - 1) : ids[j] = nextIds[j]
  /\ ids[Len(nextIds)] = ref.id + 1 /\ Last(nextIds) <= ids[Len(nextIds)]
  /\ \A n \in Names : Declared(CurrentScope, n) => NumberOf(CurrentScope, n) < ref.id

\* The number of the next statement.
LEMMA NextPosition ==
  ASSUME IInv, phase = "visit", LexicalInv
  PROVE  Position(NextStmtRef, CountersAfterAcquire) /\ NextStmtRef.id = Last(nextIds)
<1> DEFINE d == Len(nextIds)
<1>1. /\ NextStmtRef \in ScopedStmtRef /\ NextStmtRef.scope = CurrentScope
      /\ CountersAfterAcquire \in Seq(Nat) /\ Len(CountersAfterAcquire) = d
  BY Visiting, VisitFacts
<1>2. /\ nextIds \in Seq(Nat) /\ Last(nextIds) = nextIds[d] /\ d \in 1..d /\ Last(nextIds) \in Nat
  BY StackFacts
<1>3. NextStmtRef.id = Last(nextIds) /\ Last(nextIds) >= 1
  BY <1>2 DEF NextStmtRef, LexicalInv, NumbersInv
<1>4. /\ \A j \in 1..(d - 1) : CountersAfterAcquire[j] = nextIds[j]
      /\ CountersAfterAcquire[d] = nextIds[d] + 1
  BY <1>2 DEF CountersAfterAcquire
<1>5. \A n \in Names : Declared(CurrentScope, n) => NumberOf(CurrentScope, n) < Last(nextIds)
  BY TopIsComplete
<1>6. QED BY <1>1, <1>2, <1>3, <1>4, <1>5 DEF Position

\* The number of an else branch is that of its if.
LEMMA ElsePosition ==
  ASSUME IInv, phase = "visit", LexicalInv, elseTail
  PROVE  Position(current, nextIds)
<1> DEFINE d == Len(nextIds)
<1>1. current \in ScopedStmtRef /\ current.scope = CurrentScope
  BY DEF IInv, TypeOK, NumTypeOK, VisitInv
<1>2. /\ nextIds \in Seq(Nat) /\ Last(nextIds) = nextIds[d] /\ d \in 1..d /\ Last(nextIds) \in Nat
  BY StackFacts
<1>3. /\ current.id = Last(nextIds) - 1 /\ current.id >= 1
      /\ \A n \in Names : Declared(CurrentScope, n) => NumberOf(CurrentScope, n) < current.id
  BY DEF LexicalInv, ElseInv
<1>4. current.id \in Nat
  BY <1>1 DEF ScopedStmtRef
<1>5. QED BY <1>1, <1>2, <1>3, <1>4 DEF Position

\* A use registered at such a position.
LEMMA NewUse ==
  ASSUME IInv, phase = "visit", LexicalInv, NEW n, NEW number, Keeping(n, number),
         complete \subseteq complete', NEW ref, NEW ids, Position(ref, ids),
         \A m \in Names : tables'[CurrentScope].symbols[m] = tables[CurrentScope].symbols[m]
                             \/ number = ref.id,
         NEW use, use.form.name \in Names, use.scope = CurrentScope, use.ref = ref,
         use.before = {s \in 1..Len(tables) : <<s, use.form.name>> \in complete}
  PROVE  BeforeFits(use)'
<1> DEFINE m == use.form.name
           c == CurrentScope
<1>1. /\ m \in Names /\ ref.id \in Nat
      /\ \A s \in Scopes : s \in use.before <=> <<s, m>> \in complete
      /\ \A s \in use.before : <<s, m>> \in complete'
  BY DEF Position, ScopedStmtRef, Scopes
<1>2. c \in Scopes /\ Enclosing'[c] = Enclosing[c] /\ Enclosing[c] \subseteq Scopes
  <2>1. c \in Scopes
    BY StackFacts
  <2>2. c \in 0..Len(tables)
    BY <2>1 DEF Scopes
  <2>3. QED BY <2>1, <2>2, EnclosingStays, EnclosingFacts DEF Keeping, Grows
<1>3. tables'[c].symbols[m] # NoSymbol =>
        (c \in use.before <=> tables'[c].symbols[m].id < ref.id)
  <2>1. CASE tables'[c].symbols[m] = tables[c].symbols[m]
    <3>1. Declared(c, m) => <<c, m>> \in complete /\ NumberOf(c, m) < ref.id
      BY <1>1, TopIsComplete DEF Position
    <3>2. QED BY <1>1, <1>2, <2>1, <3>1 DEF Declared, NumberOf
  <2>2. CASE /\ ~Declared(c, m) /\ ~IsIllegalShadowing(c, m)
             /\ tables'[c].symbols[m].id = number /\ number = ref.id
    <3>1. <<c, m>> \notin complete
      BY <1>1, <1>2, <2>2, NewIsNotComplete
    <3>2. QED BY <1>1, <1>2, <2>2, <3>1
  <2>3. QED BY <1>1, <1>2, <2>1, <2>2 DEF Keeping, Added
<1>4. ASSUME NEW t \in Enclosing[c] \ {Root}
      PROVE  /\ tables'[t].parent = tables[t].parent /\ anchors'[t] = anchors[t]
             /\ tables'[tables[t].parent].symbols[m] # NoSymbol =>
                  (tables[t].parent \in use.before <=>
                     tables'[tables[t].parent].symbols[m].id < anchors[t].id)
  <2>1. PICK j \in 1..(Len(scopeStack) - 1) :
               t = scopeStack[j + 1] /\ tables[t].parent = scopeStack[j]
    BY StackFacts
  <2> DEFINE s == scopeStack[j]
  <2>2. s \in Scopes /\ s # c
    BY StackFacts
  <2>3. t \in Scopes
    BY <1>2
  <2>4. tables'[t].parent = tables[t].parent /\ anchors'[t] = anchors[t]
    BY <2>3 DEF Keeping, Grows
  <2>5. tables'[s].symbols[m] = tables[s].symbols[m]
    BY <1>1, <2>2 DEF Keeping, Added
  <2>6. Declared(s, m) => (<<s, m>> \in complete <=> NumberOf(s, m) < anchors[t].id)
    BY <1>1, <2>1 DEF LexicalInv, CompleteInv, NumbersInv
  <2>7. s \in use.before <=> <<s, m>> \in complete
    BY <1>1, <2>2
  <2> HIDE DEF m, c, s
  <2>8. tables'[s].symbols[m] # NoSymbol =>
          (s \in use.before <=> tables'[s].symbols[m].id < anchors[t].id)
    BY <2>5, <2>6, <2>7 DEF Declared, NumberOf
  <2>9. QED BY <2>1, <2>4, <2>8 DEF s
<1>5. QED
  <2>1. \A t \in Enclosing'[c] \ {Root} :
          tables'[tables'[t].parent].symbols[m] # NoSymbol =>
            (tables'[t].parent \in use.before <=>
               tables'[tables'[t].parent].symbols[m].id < anchors'[t].id)
    <3> HIDE DEF m, c
    <3>1. QED BY <1>2, <1>4
  <2>2. QED BY <1>1, <1>3, <2>1 DEF BeforeFits, Declared, NumberOf

-----------------------------------------------------------------------------
(* LexicalInv and a statement without a scope *)

\* IInv gives the tree the lemmas above need.
LEMMA TreeOfInv == IInv => Tree /\ AnchorsTyped
  BY TreeOf DEF IInv, AnchorsTyped, ScopedStmtRef

\* TreeOfInv of the next state.
LEMMA TreeOfInvNext == (IInv => Tree /\ AnchorsTyped)'
  BY TreeOfInv, PTL

\* A visit registers the use in e with the number of ref, no less than that of a
\* symbol it adds.
Registers(ref, ids, e, number) ==
  /\ Position(ref, ids) /\ e \in Expressions /\ VisitExpression(e, ref)
  /\ \A m \in Names : tables'[CurrentScope].symbols[m] = tables[CurrentScope].symbols[m]
                        \/ number = ref.id

\* The uses after a visit that registers at most one.
LEMMA UsesAfter ==
  ASSUME IInv, IInv', phase = "visit", LexicalInv, NEW n, NEW number, Keeping(n, number),
         complete \subseteq complete',
         uses' = uses \/ \E ref, ids, e : Registers(ref, ids, e, number)
  PROVE  BeforeInv'
<1>1. uses \in Seq(UseType) /\ uses' \in Seq(UseType)
  BY DEF IInv, TypeOK, BuilderTypeOK
<1>2. SUFFICES ASSUME NEW i \in 1..Len(uses'), NEW use \in UseType, use = uses'[i]
               PROVE  BeforeFits(use)'
  <2>1. \A i \in 1..Len(uses') : uses'[i] \in UseType
    BY <1>1, ElementOfSeq
  <2>2. \A i \in 1..Len(uses') : \A use \in UseType : use = uses'[i] => BeforeFits(use)'
    BY <1>2
  <2>3. QED BY <2>1, <2>2 DEF BeforeInv, BeforeFits
<1>3. CASE i \in 1..Len(uses) /\ uses'[i] = uses[i]
  BY <1>2, <1>3, OldUses
<1>4. CASE uses' = uses
  BY <1>2, <1>3, <1>4
<1>5. CASE uses' # uses
  <2>1. PICK ref, ids, e : Registers(ref, ids, e, number)
    BY <1>5
  <2> DEFINE u == [form |-> e, scope |-> CurrentScope, ref |-> ref,
                   before |-> {s \in 1..Len(tables) : <<s, e.name>> \in complete}]
  <2>2. uses' = Append(uses, u) /\ e \in UseForms
    BY <1>5, <2>1 DEF Registers, VisitExpression, Expressions
  <2>3. e.name \in Names
    BY <2>2, BuilderAssumption DEF AllUseForms
  <2>4. /\ Len(uses') = Len(uses) + 1 /\ Len(uses) \in Nat
        /\ \A k \in 1..Len(uses) : uses'[k] = uses[k]
        /\ uses'[Len(uses) + 1] = u
    <3> HIDE DEF u
    <3>1. QED BY <1>1, <2>2
  <2>5. CASE i \in 1..Len(uses)
    BY <1>3, <2>4, <2>5
  <2>6. CASE i = Len(uses) + 1
    <3>1. use = u
      BY <1>2, <2>4, <2>6
    <3>2. /\ use.form.name = e.name /\ use.scope = CurrentScope /\ use.ref = ref
          /\ use.before = {s \in 1..Len(tables) : <<s, use.form.name>> \in complete}
      BY <3>1
    <3> HIDE DEF u
    <3>3. QED BY <2>1, <2>3, <3>2, NewUse DEF Registers
  <2>7. QED BY <1>2, <2>4, <2>5, <2>6
<1>6. QED BY <1>4, <1>5

\* What was declared or refused for good stays so.
LEMMA SettledStays ==
  ASSUME IInv, phase = "visit", LexicalInv, NEW n, NEW number, Keeping(n, number),
         NEW s \in Scopes, NEW m \in Names, Settled(s, m)
  PROVE  Settled(s, m)'
<1>1. CASE Declared(s, m)
  <2>1. tables'[s].symbols[m] = tables[s].symbols[m]
    BY <1>1, KeepingAdds
  <2>2. QED BY <1>1, <2>1 DEF Settled, Declared
<1>2. CASE IsIllegalShadowing(s, m)
  <2>1. CurrentScope \in Scopes /\ AddsAtMost(CurrentScope, n)
    BY StackFacts, KeepingAdds
  <2>2. IsIllegalShadowing(s, m)'
    BY <1>2, <2>1, ShadowingStays DEF Keeping
  <2>3. QED BY <2>2 DEF Settled
<1>3. QED BY <1>1, <1>2 DEF Settled

\* Taken, seen from the tables after the visit.
LEMMA TakenSettles ==
  ASSUME IInv, phase = "visit", LexicalInv, NEW n \in Names, NEW number, Keeping(n, number),
         Taken(tables', n), NEW c, c = CurrentScope
  PROVE  Settled(c, n)'
<1>1. c \in Scopes
  BY StackFacts
<1>2. CASE tables'[c].symbols[n] # NoSymbol
  BY <1>2 DEF Settled, Declared
<1>3. CASE IsIllegalShadowing(c, n)
  BY <1>1, <1>3, SettledStays DEF Settled
<1>4. QED BY <1>2, <1>3 DEF Taken

\* The bodies of functions after a visit that enters none.
LEMMA BodiesStay ==
  ASSUME IInv, phase = "visit", LexicalInv, NEW n, NEW number, Keeping(n, number)
  PROVE  /\ \A t \in Scopes : tables'[t].owner = "function" => t # Root /\ tables'[t].name \in Names
         /\ \A t, s \in Scopes, m \in Names : IsBody(t, m)' /\ tables'[t].parent = s =>
             Settled(s, m)'
<1>1. \A t \in Scopes :
        /\ tables'[t].owner = tables[t].owner /\ tables'[t].name = tables[t].name
        /\ tables'[t].parent = tables[t].parent
  BY DEF Keeping, Grows
<1>2. \A t \in Scopes : tables'[t].owner = "function" => t # Root /\ tables'[t].name \in Names
  BY <1>1 DEF LexicalInv, CompleteInv
<1>3. ASSUME NEW t \in Scopes, NEW s \in Scopes, NEW m \in Names,
             IsBody(t, m)', tables'[t].parent = s
      PROVE  Settled(s, m)'
  <2>1. IsBody(t, m) /\ tables[t].parent = s
    BY <1>1, <1>3 DEF IsBody
  <2>2. Settled(s, m)
    BY <2>1 DEF LexicalInv, CompleteInv
  <2>3. QED BY <2>2, SettledStays
<1>4. QED BY <1>2, <1>3

-----------------------------------------------------------------------------
(* Staying in the scope *)

\* A statement that opens no scope.
LEMMA StayLexical ==
  ASSUME IInv, IInv', phase = "visit", LexicalInv, NEW n \in Names, SameTree(tables'),
         Added(tables', n, Last(nextIds)), AcquireStatement, ~elseTail',
         UNCHANGED <<scopeStack, classType>>, NEW e \in Expressions,
         VisitExpression(e, NextStmtRef),
         \/ UNCHANGED <<complete, tables>>
         \/ Completed(CurrentScope, n) /\ Taken(tables', n)
  PROVE  LexicalInv'
<1> DEFINE d == Len(scopeStack)
           c == CurrentScope
           ids == CountersAfterAcquire
<1>1. /\ Tree /\ AnchorsTyped /\ d \in Nat \ {0} /\ c = scopeStack[d] /\ c \in Scopes
      /\ Last(nextIds) = nextIds[d] /\ Len(nextIds) = d
      /\ \A j \in 1..d : scopeStack[j] \in Scopes /\ nextIds[j] \in Nat
      /\ \A j \in 1..(d - 1) : scopeStack[j] # c
      /\ \A j \in 1..d : scopeStack[j] = c => j = d
  <2>1. d \in 1..d
    BY StackFacts
  <2>2. QED BY <2>1, StackFacts
<1>2. Position(NextStmtRef, ids) /\ NextStmtRef.id = Last(nextIds)
  BY NextPosition
<1>3. /\ nextIds' = ids /\ UNCHANGED <<anchors, saved>>
      /\ Len(nextIds') = d /\ nextIds'[d] = nextIds[d] + 1
      /\ \A j \in 1..(d - 1) : nextIds'[j] = nextIds[j]
  BY <1>1, <1>2 DEF AcquireStatement, Position
<1>4. Scopes' = Scopes /\ c' = c
  BY DEF SameTree, Scopes, CurrentScope
<1>5. Keeping(n, Last(nextIds))
  <2>1. Grows
    BY TreeOfInvNext, <1>1, <1>4 DEF Grows, SameTree
  <2>2. AnchorsTyped'
    BY TreeOfInvNext
  <2>3. QED BY <1>1, <1>3, <1>4, <2>1, <2>2 DEF Keeping, NewNumber, NewScopesEmpty, SameTree
<1>6. complete \subseteq complete'
  BY DEF Completed
<1>7. BeforeInv' /\ OnlyLaterFunctionsShadowed'
  <2>1. Registers(NextStmtRef, ids, e, Last(nextIds))
    BY <1>2 DEF Registers
  <2> HIDE DEF ids
  <2>2. \E ref, k, f : Registers(ref, k, f, Last(nextIds))
    BY <2>1
  <2>3. BeforeInv'
    BY <1>5, <1>6, <2>2, UsesAfter
  <2>4. QED BY <1>5, <2>3, KeepingAdds
<1>8. uses' \in Seq(UseType) /\ uses \in Seq(UseType)
  BY DEF IInv, TypeOK, BuilderTypeOK
<1>9. \A s \in Scopes, m \in Names : tables'[s].symbols[m] # NoSymbol =>
        \/ tables[s].symbols[m] # NoSymbol /\ tables'[s].symbols[m] = tables[s].symbols[m]
        \/ s = c /\ m = n /\ tables'[s].symbols[m].id = Last(nextIds)
  BY DEF Added
<1>10. \A i \in 1..Len(uses') :
         \/ i \in 1..Len(uses) /\ uses'[i] = uses[i]
         \/ uses'[i].scope = c /\ uses'[i].ref = NextStmtRef
  <2>1. CASE e = NoUse
    BY <2>1 DEF VisitExpression
  <2>2. CASE e # NoUse
    <3> DEFINE u == [form |-> e, scope |-> CurrentScope, ref |-> NextStmtRef,
                     before |-> {s \in 1..Len(tables) : <<s, e.name>> \in complete}]
    <3>1. uses' = Append(uses, u) /\ u.scope = c /\ u.ref = NextStmtRef
      BY <2>2 DEF VisitExpression
    <3> HIDE DEF u, c
    <3>2. QED BY <1>8, <3>1
  <2>3. QED BY <2>1, <2>2
<1>11. NumbersInv'
  <2>1. \A j \in 1..d : nextIds'[j] >= 1 /\ nextIds[j] <= nextIds'[j]
    <3>1. \A j \in 1..d : nextIds[j] >= 1
      BY <1>1 DEF LexicalInv, NumbersInv
    <3>2. QED BY <1>1, <1>3, <3>1
  <2>2. \A i \in 1..Len(uses') : uses'[i].ref.id >= 1
    BY <1>2, <1>10 DEF LexicalInv, NumbersInv, Position
  <2>3. ASSUME NEW j \in 1..d
        PROVE  /\ \A s \in Scopes : tables'[s].parent = scopeStack[j] => anchors[s].id < nextIds'[j]
               /\ \A i \in 1..Len(uses') : uses'[i].scope = scopeStack[j] =>
                   uses'[i].ref.id < nextIds'[j]
               /\ \A m \in Names : tables'[scopeStack[j]].symbols[m] # NoSymbol =>
                    tables'[scopeStack[j]].symbols[m].id < nextIds'[j]
    <3>1. nextIds[j] \in Nat /\ nextIds'[j] \in Nat /\ nextIds[j] <= nextIds'[j]
      BY SMTT(60), <1>1, <1>3, <2>1 DEF IInv, TypeOK, NumTypeOK
    <3>2. \A s \in Scopes : tables'[s].parent = scopeStack[j] => anchors[s].id < nextIds'[j]
      <4>1. \A s \in Scopes : tables'[s].parent = tables[s].parent /\ anchors[s].id \in Nat
        BY <1>1 DEF SameTree, AnchorsTyped
      <4>2. QED BY <3>1, <4>1 DEF LexicalInv, NumbersInv
    <3>3. ASSUME NEW i \in 1..Len(uses'), uses'[i].scope = scopeStack[j]
          PROVE  uses'[i].ref.id < nextIds'[j]
      <4>1. CASE i \in 1..Len(uses) /\ uses'[i] = uses[i]
        <5>1. uses[i].ref.id < nextIds[j] /\ uses[i].ref.id \in Nat
          <6>1. uses[i] \in UseType
            BY <1>8, <4>1, ElementOfSeq
          <6>2. QED BY <3>3, <4>1, <6>1 DEF LexicalInv, NumbersInv, UseType, ScopedStmtRef
        <5>2. QED BY <3>1, <4>1, <5>1
      <4>2. CASE uses'[i].scope = c /\ uses'[i].ref = NextStmtRef
        <5>1. j = d
          BY <1>1, <3>3, <4>2
        <5>2. QED BY <1>1, <1>2, <1>3, <4>2, <5>1
      <4>3. QED BY <1>10, <4>1, <4>2
    <3>4. ASSUME NEW m \in Names, tables'[scopeStack[j]].symbols[m] # NoSymbol
          PROVE  tables'[scopeStack[j]].symbols[m].id < nextIds'[j]
      <4> DEFINE s == scopeStack[j]
      <4>1. s \in Scopes
        BY <1>1
      <4>2. CASE tables[s].symbols[m] # NoSymbol /\ tables'[s].symbols[m] = tables[s].symbols[m]
        <5>1. tables[s].symbols[m].id < nextIds[j]
          BY <4>2 DEF LexicalInv, NumbersInv, Declared, NumberOf
        <5>2. tables[s].symbols[m].id \in Nat
          <6>1. tables[s] \in TableType
            BY <4>1, ElementOfSeq DEF IInv, TypeOK, TableTypeOK, Scopes
          <6>2. QED BY <6>1 DEF TableType, SymbolType
        <5>3. QED BY <3>1, <4>2, <5>1, <5>2
      <4>3. CASE s = c /\ tables'[s].symbols[m].id = Last(nextIds)
        <5>1. j = d
          BY <1>1, <4>3
        <5>2. QED BY <1>1, <1>3, <4>3, <5>1
      <4>4. QED BY <1>9, <3>4, <4>1, <4>2, <4>3
    <3>5. QED BY <3>2, <3>3, <3>4
  <2>4. \A j \in 1..(d - 1) :
          saved'[j].id = nextIds'[j] - 1 /\ anchors'[scopeStack'[j + 1]].id = nextIds'[j] - 1
    BY <1>3 DEF LexicalInv, NumbersInv
  <2>5. \A s \in Scopes' \ {Root} : anchors'[s].id >= 1
    BY <1>3, <1>4 DEF LexicalInv, NumbersInv
  <2>6. QED BY <1>3, <1>4, <2>1, <2>2, <2>3, <2>4, <2>5 DEF NumbersInv, Declared, NumberOf
<1>12. CompleteInv'
  <2>1. ASSUME NEW s \in Nat, NEW m \in Names, <<s, m>> \in complete'
        PROVE  s \in Scopes /\ Settled(s, m)'
    <3>1. CASE <<s, m>> \in complete
      <4>1. s \in Scopes /\ Settled(s, m)
        BY <3>1 DEF LexicalInv, CompleteInv, Settled
      <4>2. QED BY <4>1, <1>5, SettledStays
    <3>2. CASE s = c /\ m = n /\ Taken(tables', n)
      BY <1>1, <1>5, <3>2, TakenSettles
    <3>3. QED BY <2>1, <3>1, <3>2 DEF Completed
  <2>2. /\ \A t \in Scopes' : tables'[t].owner = "function" => t # Root /\ tables'[t].name \in Names
        /\ \A t, s \in Scopes', m \in Names : IsBody(t, m)' /\ tables'[t].parent = s =>
            Settled(s, m)'
    BY <1>4, <1>5, BodiesStay
  <2>3. ASSUME NEW s \in Scopes, NEW m \in Names, tables'[s].symbols[m] # NoSymbol,
      <<s, m>> \notin complete'
        PROVE  \E j \in 1..(d - 1) : scopeStack[j] = s /\ IsBody(scopeStack[j + 1], m)
    <3>1. Declared(s, m)
      <4>1. CASE UNCHANGED tables
        BY <2>3, <4>1 DEF Declared
      <4>2. CASE Completed(c, n)
        <5>1. ~(s = c /\ m = n)
          BY <2>3, <4>2 DEF Completed
        <5>2. QED BY <2>3, <1>9, <5>1 DEF Declared
      <4>3. QED BY <4>1, <4>2
    <3>2. <<s, m>> \notin complete
      BY <2>3, <1>6
    <3>3. QED BY <3>1, <3>2 DEF LexicalInv, CompleteInv
  <2>4. ASSUME NEW j \in 1..(d - 1)
        PROVE  \A m : IsBody(scopeStack[j + 1], m)' <=> IsBody(scopeStack[j + 1], m)
    <3>1. scopeStack[j + 1] \in Scopes
      <4>1. j + 1 \in 1..d
        BY <1>1
      <4>2. QED BY <1>1, <4>1
    <3>2. QED BY <3>1 DEF IsBody, SameTree
  <2>5. ASSUME NEW j \in 1..(d - 1), NEW m \in Names, tables'[scopeStack[j]].symbols[m] # NoSymbol
        PROVE  /\ <<scopeStack[j], m>> \in complete' <=>
                    tables'[scopeStack[j]].symbols[m].id < nextIds'[j] - 1
               /\ <<scopeStack[j], m>> \in complete' \/ IsBody(scopeStack[j + 1], m)
    <3> DEFINE s == scopeStack[j]
    <3>1. s # c /\ s \in Scopes /\ nextIds'[j] = nextIds[j]
      BY <1>1, <1>3
    <3>2. tables[s].symbols[m] # NoSymbol /\ tables'[s].symbols[m] = tables[s].symbols[m]
      BY <1>9, <2>5, <3>1
    <3>3. <<s, m>> \in complete' <=> <<s, m>> \in complete
      BY <3>1 DEF Completed
    <3>4. /\ <<s, m>> \in complete <=> NumberOf(s, m) < nextIds[j] - 1
          /\ <<s, m>> \in complete \/ IsBody(scopeStack[j + 1], m)
      BY <3>2 DEF LexicalInv, CompleteInv, Declared
    <3> HIDE DEF s
    <3>5. QED BY <3>1, <3>2, <3>3, <3>4 DEF NumberOf, s
  <2>6. QED
    <3>1. \A s \in Scopes', m \in Names : Declared(s, m)' /\ <<s, m>> \notin complete' =>
            \E j \in 1..(d - 1) : scopeStack'[j] = s /\ IsBody(scopeStack[j + 1], m)'
      BY <1>4, <2>3, <2>4 DEF Declared
    <3>2. \A j \in 1..(d - 1), m \in Names : Declared(scopeStack[j], m)' =>
            /\ <<scopeStack'[j], m>> \in complete' <=> NumberOf(scopeStack[j], m)' < nextIds'[j] - 1
            /\ <<scopeStack'[j], m>> \in complete' \/ IsBody(scopeStack[j + 1], m)'
      BY <2>4, <2>5 DEF Declared, NumberOf
    <3>3. \A s \in Nat, m \in Names : <<s, m>> \in complete' => s \in Scopes' /\ Settled(s, m)'
      BY <1>4, <2>1
    <3>4. QED BY <2>2, <3>1, <3>2, <3>3 DEF CompleteInv
<1>13. ElseInv' /\ BaseInv'
  BY DEF ElseInv, LexicalInv, BaseInv
<1>14. QED BY <1>7, <1>11, <1>12, <1>13 DEF LexicalInv

-----------------------------------------------------------------------------
(* LexicalInv, scopes opened and left *)

\* A parameter: no statement of the body has been met.
LEMMA ParameterLexical ==
  ASSUME IInv, IInv', phase = "visit", LexicalInv, NEW n \in Names, SameTree(tables'),
         Added(tables', n, 0), Last(nextIds) = 1, Completed(CurrentScope, n), Taken(tables', n),
         UNCHANGED <<numVars, scopeStack, classType, elseTail, uses>>
  PROVE  LexicalInv'
<1> DEFINE d == Len(scopeStack)
           c == CurrentScope
<1>1. /\ Tree /\ AnchorsTyped /\ d \in Nat \ {0} /\ c = scopeStack[d] /\ c \in Scopes
      /\ Last(nextIds) = nextIds[d] /\ Len(nextIds) = d
      /\ \A j \in 1..d : scopeStack[j] \in Scopes /\ nextIds[j] \in Nat
      /\ \A j \in 1..(d - 1) : scopeStack[j] # c
      /\ \A j \in 1..d : scopeStack[j] = c => j = d
  <2>1. d \in 1..d
    BY StackFacts
  <2>2. QED BY <2>1, StackFacts
<1>2. UNCHANGED <<anchors, nextIds, current, saved>>
  BY DEF numVars
<1>3. Scopes' = Scopes /\ c' = c
  BY DEF SameTree, Scopes, CurrentScope
<1>4. Keeping(n, 0)
  <2>1. Grows
    BY TreeOfInvNext, <1>1, <1>3 DEF Grows, SameTree
  <2>2. AnchorsTyped'
    BY TreeOfInvNext
  <2>3. QED BY <1>1, <1>2, <1>3, <2>1, <2>2 DEF Keeping, NewNumber, NewScopesEmpty, SameTree
<1>5. complete \subseteq complete'
  BY DEF Completed
<1>6. BeforeInv' /\ OnlyLaterFunctionsShadowed'
  BY <1>4, <1>5, UsesAfter, KeepingAdds
<1>7. \A s \in Scopes, m \in Names : tables'[s].symbols[m] # NoSymbol =>
        \/ tables[s].symbols[m] # NoSymbol /\ tables'[s].symbols[m] = tables[s].symbols[m]
        \/ s = c /\ m = n /\ tables'[s].symbols[m].id = 0
  BY DEF Added
<1>8. ~elseTail
  <2>1. elseTail => current.id = 1 - 1 /\ current.id >= 1
    BY DEF LexicalInv, ElseInv
  <2>2. QED BY <2>1
<1>9. NumbersInv'
  <2>1. ASSUME NEW j \in 1..d, NEW m \in Names, tables'[scopeStack[j]].symbols[m] # NoSymbol
        PROVE  tables'[scopeStack[j]].symbols[m].id < nextIds[j]
    <3> DEFINE s == scopeStack[j]
    <3>1. s \in Scopes /\ nextIds[j] >= 1
      BY <1>1 DEF LexicalInv, NumbersInv
    <3>2. CASE tables[s].symbols[m] # NoSymbol /\ tables'[s].symbols[m] = tables[s].symbols[m]
      BY <3>2 DEF LexicalInv, NumbersInv, Declared, NumberOf
    <3>3. CASE tables'[s].symbols[m].id = 0
      BY <3>1, <3>3, <1>1
    <3>4. QED BY <1>7, <2>1, <3>1, <3>2, <3>3
  <2>2. \A s \in Scopes : tables'[s].parent = tables[s].parent
    BY DEF SameTree
  <2>3. QED BY <1>2, <1>3, <2>1, <2>2 DEF LexicalInv, NumbersInv, Declared, NumberOf
<1>10. CompleteInv'
  <2>1. ASSUME NEW s \in Nat, NEW m \in Names, <<s, m>> \in complete'
        PROVE  s \in Scopes /\ Settled(s, m)'
    <3>1. CASE <<s, m>> \in complete
      <4>1. s \in Scopes /\ Settled(s, m)
        BY <3>1 DEF LexicalInv, CompleteInv
      <4>2. QED BY <4>1, <1>4, SettledStays
    <3>2. CASE s = c /\ m = n
      BY <1>1, <1>4, <3>2, TakenSettles
    <3>3. QED BY <2>1, <3>1, <3>2 DEF Completed
  <2>2. /\ \A t \in Scopes' : tables'[t].owner = "function" => t # Root /\ tables'[t].name \in Names
        /\ \A t, s \in Scopes', m \in Names : IsBody(t, m)' /\ tables'[t].parent = s =>
            Settled(s, m)'
    BY <1>3, <1>4, BodiesStay
  <2>3. ASSUME NEW s \in Scopes, NEW m \in Names, tables'[s].symbols[m] # NoSymbol,
      <<s, m>> \notin complete'
        PROVE  \E j \in 1..(d - 1) : scopeStack[j] = s /\ IsBody(scopeStack[j + 1], m)
    <3>1. ~(s = c /\ m = n)
      BY <2>3 DEF Completed
    <3>2. Declared(s, m)
      BY <2>3, <1>7, <3>1 DEF Declared
    <3>3. <<s, m>> \notin complete
      BY <2>3, <1>5
    <3>4. QED BY <3>2, <3>3 DEF LexicalInv, CompleteInv
  <2>4. ASSUME NEW j \in 1..(d - 1)
        PROVE  \A m : IsBody(scopeStack[j + 1], m)' <=> IsBody(scopeStack[j + 1], m)
    <3>1. scopeStack[j + 1] \in Scopes
      <4>1. j + 1 \in 1..d
        BY <1>1
      <4>2. QED BY <1>1, <4>1
    <3>2. QED BY <3>1 DEF IsBody, SameTree
  <2>5. ASSUME NEW j \in 1..(d - 1), NEW m \in Names, tables'[scopeStack[j]].symbols[m] # NoSymbol
        PROVE  /\ <<scopeStack[j], m>> \in complete' <=>
                    tables'[scopeStack[j]].symbols[m].id < nextIds[j] - 1
               /\ <<scopeStack[j], m>> \in complete' \/ IsBody(scopeStack[j + 1], m)
    <3> DEFINE s == scopeStack[j]
    <3>1. s # c /\ s \in Scopes
      BY <1>1
    <3>2. tables[s].symbols[m] # NoSymbol /\ tables'[s].symbols[m] = tables[s].symbols[m]
      BY <1>7, <2>5, <3>1
    <3>3. <<s, m>> \in complete' <=> <<s, m>> \in complete
      BY <3>1 DEF Completed
    <3>4. /\ <<s, m>> \in complete <=> NumberOf(s, m) < nextIds[j] - 1
          /\ <<s, m>> \in complete \/ IsBody(scopeStack[j + 1], m)
      BY <3>2 DEF LexicalInv, CompleteInv, Declared
    <3> HIDE DEF s
    <3>5. QED BY <3>1, <3>2, <3>3, <3>4 DEF NumberOf, s
  <2>6. QED
    <3>1. \A s \in Scopes', m \in Names : Declared(s, m)' /\ <<s, m>> \notin complete' =>
            \E j \in 1..(d - 1) : scopeStack'[j] = s /\ IsBody(scopeStack[j + 1], m)'
      BY <1>3, <2>3, <2>4 DEF Declared
    <3>2. \A j \in 1..(d - 1), m \in Names : Declared(scopeStack[j], m)' =>
            /\ <<scopeStack'[j], m>> \in complete' <=> NumberOf(scopeStack[j], m)' < nextIds'[j] - 1
            /\ <<scopeStack'[j], m>> \in complete' \/ IsBody(scopeStack[j + 1], m)'
      BY <1>2, <2>4, <2>5 DEF Declared, NumberOf
    <3>3. \A s \in Nat, m \in Names : <<s, m>> \in complete' => s \in Scopes' /\ Settled(s, m)'
      BY <1>3, <2>1
    <3>4. QED BY <2>2, <3>1, <3>2, <3>3 DEF CompleteInv
<1>11. ElseInv' /\ BaseInv'
  BY <1>8 DEF ElseInv, LexicalInv, BaseInv
<1>12. QED BY <1>6, <1>9, <1>10, <1>11 DEF LexicalInv

-----------------------------------------------------------------------------
(* Entering a scope *)

\* What EnterScopeAt and EnterTable do, element by element.
LEMMA EnterFacts ==
  ASSUME IInv, phase = "visit", NEW tabs, SameTree(tabs), NEW ref, NEW ids, Position(ref, ids),
         NEW owner \in Owners, NEW name \in Names \cup Classes \cup {NoClass},
         EnterScopeAt(ref, ids), EnterTable(tabs, owner, name)
  PROVE  /\ Len(tables') = Len(tables) + 1 /\ Scopes' = Scopes \cup {Len(tables) + 1}
         /\ Len(tables) + 1 \notin Scopes
         /\ \A s \in Scopes : tables'[s] = tabs[s] /\ anchors'[s] = anchors[s]
         /\ tables'[Len(tables) + 1] = NewTable(CurrentScope, owner, name)
         /\ anchors'[Len(tables) + 1].id = ref.id
         /\ Len(scopeStack') = Len(scopeStack) + 1
         /\ \A j \in 1..Len(scopeStack) : scopeStack'[j] = scopeStack[j]
         /\ scopeStack'[Len(scopeStack) + 1] = Len(tables) + 1
         /\ Len(nextIds') = Len(scopeStack) + 1
         /\ \A j \in 1..(Len(scopeStack) - 1) : nextIds'[j] = nextIds[j] /\ saved'[j] = saved[j]
         /\ nextIds'[Len(scopeStack)] = ref.id + 1 /\ nextIds'[Len(scopeStack) + 1] = 1
         /\ saved'[Len(scopeStack)] = ref
<1> DEFINE new == NewTable(CurrentScope, owner, name)
           place == [scope |-> CurrentScopeAnchor, id |-> ref.id]
           k == Len(tables)
           d == Len(scopeStack)
<1>1. Shape /\ Stacks
  BY Visiting
<1>2. /\ CurrentScope \in 1..k /\ CurrentScopeAnchor = CurrentScope /\ d \in Nat \ {0}
  BY <1>1, VisitFacts DEF Scopes
<1>3. /\ k \in Nat /\ Len(anchors) = k /\ scopeStack = anchorStack /\ Len(nextIds) = d
      /\ Len(saved) = d - 1
  BY <1>1, StackFacts DEF Shape, ScopesAgree
<1>4. new \in TableType /\ place \in ScopedStmtRef
  BY <1>2, <1>3, NewTableType DEF ScopedStmtRef, Position
<1>5. /\ Len(tables') = k + 1 /\ \A s \in 1..k : tables'[s] = tabs[s]
      /\ tables'[k + 1] = new
  BY <1>4, AppendType DEF EnterTable, SameTree
<1>6. /\ \A s \in 1..k : anchors'[s] = anchors[s]
      /\ anchors'[k + 1] = place
  BY <1>1, <1>3, <1>4, AppendType DEF EnterScopeAt, Shape, NumTypeOK
<1>7. /\ Len(scopeStack') = d + 1
      /\ \A i \in 1..d : scopeStack'[i] = scopeStack[i]
      /\ scopeStack'[d + 1] = k + 1
  BY <1>1, <1>3, AppendType DEF EnterTable, Shape
<1>8. /\ Len(nextIds') = d + 1 /\ \A j \in 1..d : nextIds'[j] = ids[j] /\ nextIds'[d + 1] = 1
  BY <1>3, AppendType DEF EnterScopeAt, Position
<1>9. /\ \A i \in 1..Len(saved) : saved'[i] = saved[i]
      /\ saved'[Len(saved) + 1] = ref
  BY <1>1, AppendType DEF EnterScopeAt, Shape, NumTypeOK, Position
<1>10. \A j \in 1..(d - 1) : j \in 1..d /\ ids[j] = nextIds[j]
  BY <1>2, <1>3 DEF Position
<1>11. Scopes' = Scopes \cup {k + 1} /\ k + 1 \notin Scopes
  BY <1>3, <1>5 DEF Scopes
<1>12. ids[d] = ref.id + 1 /\ d \in 1..d /\ Len(saved) + 1 = d
  BY <1>2, <1>3 DEF Position
<1>13. anchors'[k + 1].id = ref.id
  BY <1>6
<1> HIDE DEF new, place, k, d
<1>14. QED
  BY <1>5, <1>6, <1>7, <1>8, <1>9, <1>10, <1>11, <1>12, <1>13, <1>3 DEF Scopes, new, k, d

\* A node that opens a scope; n is the function's name if it is one.
LEMMA EnterLexicalAt ==
  ASSUME IInv, IInv', phase = "visit", LexicalInv, NEW n, NEW tabs, SameTree(tabs),
         Added(tabs, n, Last(nextIds)), NEW ref, NEW ids, Position(ref, ids),
         tabs = tables \/ ref.id = Last(nextIds),
         NEW owner \in Owners, NEW name \in Names \cup Classes \cup {NoClass},
         EnterScopeAt(ref, ids), EnterTable(tabs, owner, name),
         owner = "function" => n \in Names /\ name = n /\ Taken(tabs, n),
         owner # "function" => tabs = tables,
         UNCHANGED <<complete, classType>>, ~elseTail',
         NEW e \in Expressions, VisitExpression(e, ref),
         NEW d, d = Len(scopeStack), NEW c, c = CurrentScope, NEW k, k = Len(tables) + 1
  PROVE  LexicalInv'
<1>1. /\ Tree /\ AnchorsTyped /\ d \in Nat \ {0} /\ c = scopeStack[d] /\ c \in Scopes
      /\ Last(nextIds) = nextIds[d] /\ Len(nextIds) = d /\ nextIds \in Seq(Nat)
      /\ \A j \in 1..d : scopeStack[j] \in Scopes /\ nextIds[j] \in Nat
      /\ \A j \in 1..(d - 1) : scopeStack[j] # c
      /\ \A j \in 1..d : scopeStack[j] = c => j = d
  <2>1. d \in Nat \ {0} /\ d \in 1..d
    BY StackFacts
  <2>2. QED BY <2>1, StackFacts
<1>2. /\ Len(tables') = k /\ Scopes' = Scopes \cup {k} /\ k \notin Scopes /\ k \in Nat
      /\ \A s \in Scopes : tables'[s] = tabs[s] /\ anchors'[s] = anchors[s] /\ s \in Nat
      /\ tables'[k] = NewTable(c, owner, name) /\ anchors'[k].id = ref.id
      /\ Len(scopeStack') = d + 1 /\ \A j \in 1..d : scopeStack'[j] = scopeStack[j]
      /\ scopeStack'[d + 1] = k
      /\ Len(nextIds') = d + 1
      /\ \A j \in 1..(d - 1) : nextIds'[j] = nextIds[j] /\ saved'[j] = saved[j]
      /\ nextIds'[d] = ref.id + 1 /\ nextIds'[d + 1] = 1 /\ saved'[d] = ref
  <2>1. /\ Len(tables') = Len(tables) + 1 /\ Scopes' = Scopes \cup {Len(tables) + 1}
        /\ Len(tables) + 1 \notin Scopes
        /\ \A s \in Scopes : tables'[s] = tabs[s] /\ anchors'[s] = anchors[s]
        /\ tables'[Len(tables) + 1] = NewTable(CurrentScope, owner, name)
        /\ anchors'[Len(tables) + 1].id = ref.id
        /\ Len(scopeStack') = Len(scopeStack) + 1
        /\ \A j \in 1..Len(scopeStack) : scopeStack'[j] = scopeStack[j]
        /\ scopeStack'[Len(scopeStack) + 1] = Len(tables) + 1
        /\ Len(nextIds') = Len(scopeStack) + 1
        /\ \A j \in 1..(Len(scopeStack) - 1) : nextIds'[j] = nextIds[j] /\ saved'[j] = saved[j]
        /\ nextIds'[Len(scopeStack)] = ref.id + 1 /\ nextIds'[Len(scopeStack) + 1] = 1
        /\ saved'[Len(scopeStack)] = ref
    BY EnterFacts
  <2>2. \A s \in Scopes : s \in Nat
    BY DEF Scopes
  <2>3. Len(tables) + 1 \in Nat
    BY <1>1 DEF Tree
  <2>4. QED BY <2>1, <2>2, <2>3
<1>3. /\ ref.scope = c /\ ref.id \in Nat /\ ref.id >= 1 /\ nextIds[d] <= ref.id + 1
      /\ \A m \in Names : Declared(c, m) => NumberOf(c, m) < ref.id
  BY <1>1 DEF Position, ScopedStmtRef
<1>4. /\ tables'[k].parent = c /\ tables'[k].owner = owner /\ tables'[k].name = name
      /\ \A m \in Names : tables'[k].symbols[m] = NoSymbol
  BY <1>2 DEF NewTable
<1>5. \A s \in Scopes :
        /\ tables'[s].parent = tables[s].parent /\ tables'[s].owner = tables[s].owner
        /\ tables'[s].name = tables[s].name
  BY <1>2 DEF SameTree
<1>6. Added(tables', n, Last(nextIds)) /\ (Taken(tabs, n) => Taken(tables', n))
  <2>1. \A s \in Scopes : tables'[s] = tabs[s]
    BY <1>2
  <2>2. Added(tables', n, Last(nextIds))
    BY <2>1 DEF Added
  <2>3. Taken(tabs, n) => Taken(tables', n)
    BY <1>1, <2>1 DEF Taken
  <2>4. QED BY <2>2, <2>3
<1>7. Keeping(n, Last(nextIds))
  <2>1. Grows
    <3>1. Tree' /\ Len(tables) <= Len(tables')
      BY TreeOfInvNext, <1>1, <1>2 DEF Tree
    <3>2. QED BY <1>1, <1>5, <3>1 DEF Grows
  <2>2. AnchorsTyped'
    BY TreeOfInvNext
  <2>3. NewScopesEmpty
    BY <1>2, <1>4 DEF NewScopesEmpty, Declared
  <2>4. QED BY <1>1, <1>2, <1>5, <1>6, <2>1, <2>2, <2>3 DEF Keeping, NewNumber
<1>8. BeforeInv' /\ OnlyLaterFunctionsShadowed'
  <2>1. Registers(ref, ids, e, Last(nextIds))
    BY <1>1, <1>2 DEF Registers
  <2>2. \E r, k2, f : Registers(r, k2, f, Last(nextIds))
    BY <2>1
  <2>3. BeforeInv'
    BY <1>7, <2>2, UsesAfter
  <2>4. QED BY <1>7, <2>3, KeepingAdds
<1>9. uses' \in Seq(UseType) /\ uses \in Seq(UseType)
  BY DEF IInv, TypeOK, BuilderTypeOK
<1>10. \A s \in Scopes, m \in Names : tables'[s].symbols[m] # NoSymbol =>
         \/ tables[s].symbols[m] # NoSymbol /\ tables'[s].symbols[m] = tables[s].symbols[m]
         \/ /\ s = c /\ m = n /\ tables'[s].symbols[m].id = ref.id /\ owner = "function"
            /\ <<c, n>> \notin complete
  <2> SUFFICES ASSUME NEW s \in Scopes, NEW m \in Names, tables'[s].symbols[m] # NoSymbol,
                      tables'[s].symbols[m] # tables[s].symbols[m]
               PROVE  /\ s = c /\ m = n /\ tables'[s].symbols[m].id = ref.id /\ owner = "function"
                      /\ <<c, n>> \notin complete
    OBVIOUS
  <2>1. tabs # tables
    BY <1>2
  <2>2. /\ s = c /\ m = n /\ ~Declared(s, m) /\ ~IsIllegalShadowing(s, m)
        /\ tables'[s].symbols[m].id = Last(nextIds)
    BY <1>6 DEF Added
  <2>3. <<c, n>> \notin complete
    BY <2>2, NewIsNotComplete
  <2>4. QED BY <2>1, <2>2, <2>3
<1>11. \A i \in 1..Len(uses') :
         \/ i \in 1..Len(uses) /\ uses'[i] = uses[i]
         \/ uses'[i].scope = c /\ uses'[i].ref = ref
  <2>1. CASE e = NoUse
    BY <2>1 DEF VisitExpression
  <2>2. CASE e # NoUse
    <3> DEFINE u == [form |-> e, scope |-> CurrentScope, ref |-> ref,
                     before |-> {s \in 1..Len(tables) : <<s, e.name>> \in complete}]
    <3>1. uses' = Append(uses, u) /\ u.scope = c /\ u.ref = ref
      BY <2>2 DEF VisitExpression
    <3> HIDE DEF u
    <3>2. QED BY <1>9, <3>1
  <2>3. QED BY <2>1, <2>2
<1>12. \A i \in 1..Len(uses) : uses[i].scope \in Scopes /\ uses[i].ref.id \in Nat
  <2>1. \A i \in 1..Len(uses) : uses[i] \in UseType
    BY <1>9, ElementOfSeq
  <2>2. QED BY <2>1 DEF UseType, ScopedStmtRef, IInv, UseInv
<1>13. \A j \in 1..(d + 1) : j \in 1..(d - 1) \/ j = d \/ j = d + 1
  BY <1>1
<1>14. \A j \in 1..d : scopeStack'[j] = scopeStack[j] /\ scopeStack[j] # k
  BY <1>1, <1>2
<1>15. NumbersInv'
  <2>1. \A j \in 1..(d + 1) : nextIds'[j] >= 1
    <3>1. \A j \in 1..(d - 1) : nextIds'[j] >= 1
      <4>1. \A j \in 1..(d - 1) : j \in 1..d
        BY <1>1
      <4>2. QED BY <4>1, <1>1, <1>2 DEF LexicalInv, NumbersInv
    <3>2. QED BY <3>1, <1>2, <1>3, <1>13
  <2>2. \A i \in 1..Len(uses') : uses'[i].ref.id >= 1
    BY <1>3, <1>11 DEF LexicalInv, NumbersInv
  <2>3. \A s \in Scopes' \ {Root} : anchors'[s].id >= 1
    BY <1>2, <1>3 DEF LexicalInv, NumbersInv
  <2>4. \A j \in 1..d : nextIds[j] <= nextIds'[j] /\ nextIds[j] \in Nat /\ nextIds'[j] \in Nat
    <3>1. \A j \in 1..d : j \in 1..(d - 1) \/ j = d
      BY <1>1
    <3>2. \A j \in 1..(d - 1) : nextIds'[j] = nextIds[j] /\ nextIds[j] \in Nat
      <4>1. \A j \in 1..(d - 1) : j \in 1..d
        BY <1>1
      <4>2. QED BY <4>1, <1>1, <1>2
    <3>3. nextIds[d] \in Nat /\ nextIds[d] <= nextIds'[d] /\ nextIds'[d] \in Nat
      BY <1>1, <1>2, <1>3
    <3>4. \A x \in Nat : x <= x
      OBVIOUS
    <3>5. TAKE j \in 1..d
    <3>6. CASE j = d
      BY <3>3, <3>6
    <3>7. CASE j \in 1..(d - 1)
      BY <3>2, <3>4, <3>7
    <3>8. QED BY <3>1, <3>6, <3>7
  <2>5. ASSUME NEW j \in 1..(d + 1), NEW s \in Scopes', tables'[s].parent = scopeStack'[j]
        PROVE  anchors'[s].id < nextIds'[j]
    <3>1. CASE s \in Scopes
      <4>1. tables[s].parent = scopeStack'[j] /\ tables[s].parent # k
        <5>1. tables[s].parent < s
          BY SMTT(60), <3>1, <1>1 DEF Tree, Scopes
        <5>2. s < k
          BY <3>1, <1>1 DEF Scopes, Tree
        <5>3. tables[s].parent \in Nat
          BY <3>1, <1>1 DEF Tree
        <5>4. s \in Nat
          BY <1>2, <3>1
        <5>5. QED BY <5>1, <5>2, <5>3, <5>4, <1>2, <1>5, <2>5, <3>1
      <4>2. j \in 1..d
        BY <4>1, <1>1, <1>2, <1>13
      <4>3. anchors[s].id < nextIds[j] /\ anchors[s].id \in Nat
        BY <3>1, <4>1, <4>2, <1>1, <1>14 DEF LexicalInv, NumbersInv, AnchorsTyped
      <4>4. QED BY <1>2, <2>4, <3>1, <4>2, <4>3
    <3>2. CASE s = k
      <4>1. scopeStack'[j] = c
        BY <2>5, <3>2, <1>4
      <4>2. j # d + 1
        BY <4>1, <1>1, <1>2
      <4>3. j \in 1..d /\ scopeStack[j] = c
        BY <4>1, <4>2, <1>1, <1>13, <1>14
      <4>4. j = d
        BY <4>3, <1>1
      <4>5. QED BY <4>4, <3>2, <1>2, <1>3
    <3>3. QED BY <1>2, <3>1, <3>2
  <2>6. ASSUME NEW j \in 1..(d + 1), NEW i \in 1..Len(uses'), uses'[i].scope = scopeStack'[j]
        PROVE  uses'[i].ref.id < nextIds'[j]
    <3>1. CASE i \in 1..Len(uses) /\ uses'[i] = uses[i]
      <4>1. uses[i].scope \in Scopes /\ uses[i].ref.id \in Nat
        BY <1>12, <3>1
      <4>2. j \in 1..d
        BY <4>1, <2>6, <3>1, <1>1, <1>2, <1>13
      <4>3. uses[i].ref.id < nextIds[j]
        BY <2>6, <3>1, <4>2, <1>14 DEF LexicalInv, NumbersInv
      <4>4. QED BY SMTT(60), <4>1, <4>2, <4>3, <2>4, <3>1
    <3>2. CASE uses'[i].scope = c /\ uses'[i].ref = ref
      <4>1. scopeStack'[j] = c /\ c # k /\ scopeStack'[d + 1] = k
        BY <2>6, <3>2, <1>1, <1>2
      <4>2. j # d + 1
        BY <4>1
      <4>3. j \in 1..d
        BY <4>2, <1>1, <1>13
      <4>4. j \in 1..d /\ scopeStack[j] = c
        BY <4>1, <4>3, <1>14
      <4>5. j = d
        BY <4>4, <1>1
      <4>6. QED BY <4>5, <3>2, <1>2, <1>3
    <3>3. QED BY <3>1, <3>2, <1>11
  <2>7. ASSUME NEW j \in 1..(d + 1), NEW m \in Names, tables'[scopeStack'[j]].symbols[m] # NoSymbol
        PROVE  tables'[scopeStack'[j]].symbols[m].id < nextIds'[j]
    <3> DEFINE s == scopeStack'[j]
    <3>1. j # d + 1
      BY <2>7, <1>2, <1>4
    <3>2. j \in 1..d /\ s = scopeStack[j] /\ s \in Scopes
      BY <3>1, <1>1, <1>13, <1>14
    <3>3. CASE tables[s].symbols[m] # NoSymbol /\ tables'[s].symbols[m] = tables[s].symbols[m]
      <4>1. tables[s].symbols[m].id < nextIds[j]
        BY <3>2, <3>3 DEF LexicalInv, NumbersInv, Declared, NumberOf
      <4>2. tables[s].symbols[m].id \in Nat
        <5>1. tables[s] \in TableType
          BY <3>2, ElementOfSeq DEF IInv, TypeOK, TableTypeOK, Scopes
        <5>2. QED BY <5>1 DEF TableType, SymbolType
      <4>3. QED BY <2>4, <3>2, <3>3, <4>1, <4>2
    <3>4. CASE s = c /\ tables'[s].symbols[m].id = ref.id
      <4>1. j = d
        BY <3>2, <3>4, <1>1
      <4>2. QED BY <4>1, <3>4, <1>2, <1>3
    <3>5. QED BY <2>7, <3>2, <3>3, <3>4, <1>10
  <2>8. ASSUME NEW j \in 1..d
        PROVE  saved'[j].id = nextIds'[j] - 1 /\ anchors'[scopeStack'[j + 1]].id = nextIds'[j] - 1
    <3>1. CASE j = d
      BY <3>1, <1>2, <1>3
    <3>2. CASE j # d
      <4>1. j \in 1..(d - 1) /\ j + 1 \in 1..d
        BY <3>2, <1>1
      <4>2. saved[j].id = nextIds[j] - 1 /\ anchors[scopeStack[j + 1]].id = nextIds[j] - 1
        BY <4>1 DEF LexicalInv, NumbersInv
      <4>3. scopeStack'[j + 1] = scopeStack[j + 1] /\ scopeStack[j + 1] \in Scopes
        BY <4>1, <1>1, <1>14
      <4>4. QED BY <4>1, <4>2, <4>3, <1>2
    <3>3. QED BY <3>1, <3>2
  <2>9. \A j \in 1..(Len(scopeStack') - 1) : j \in 1..d
    BY <1>1, <1>2
  <2>10. QED BY <1>2, <2>1, <2>2, <2>3, <2>5, <2>6, <2>7, <2>8, <2>9 DEF NumbersInv, Declared,
      NumberOf
<1>16. CompleteInv'
  <2>1. \A s \in Nat, m \in Names : <<s, m>> \in complete' => s \in Scopes' /\ Settled(s, m)'
    <3> SUFFICES ASSUME NEW s \in Nat, NEW m \in Names, <<s, m>> \in complete
                 PROVE  s \in Scopes' /\ Settled(s, m)'
      OBVIOUS
    <3>1. s \in Scopes /\ Settled(s, m)
      BY DEF LexicalInv, CompleteInv
    <3>2. QED BY <3>1, <1>2, <1>7, SettledStays
  <2>2. \A t \in Scopes' : tables'[t].owner = "function" => t # Root /\ tables'[t].name \in Names
    <3>1. k # Root
      BY <1>1, <1>2 DEF Scopes, Root
    <3>2. QED BY <3>1, <1>2, <1>4, <1>7, BodiesStay
  <2>3. \A t, s \in Scopes', m \in Names : IsBody(t, m)' /\ tables'[t].parent = s => Settled(s, m)'
    <3> SUFFICES ASSUME NEW t \in Scopes', NEW s \in Scopes', NEW m \in Names,
                        IsBody(t, m)', tables'[t].parent = s
                 PROVE  Settled(s, m)'
      OBVIOUS
    <3>1. CASE t \in Scopes
      <4>1. s \in Scopes
        <5>1. tables[t].parent = s /\ s < t /\ s \in Nat
          BY SMTT(60), <3>1, <1>1, <1>5 DEF Tree, Scopes
        <5>2. t < k /\ t \in Nat
          BY <3>1, <1>1 DEF Scopes, Tree
        <5>3. s # k
          BY <5>1, <5>2, <1>2
        <5>4. QED BY <5>3, <1>2
      <4>2. QED BY <3>1, <4>1, <1>7, BodiesStay
    <3>2. CASE t = k
      <4>1. s = c /\ owner = "function" /\ m = n
        BY <3>2, <1>4 DEF IsBody
      <4>2. Settled(c, n)'
        BY <4>1, <1>6, <1>7, TakenSettles
      <4>3. QED BY <4>1, <1>7, <1>6, TakenSettles
    <3>3. QED BY <1>2, <3>1, <3>2
  <2>4. \A j \in 1..(d - 1), m \in Names : IsBody(scopeStack[j + 1], m)' <=>
      IsBody(scopeStack[j + 1], m)
    <3> TAKE j \in 1..(d - 1), m \in Names
    <3>1. j + 1 \in 1..d
      BY <1>1
    <3>2. scopeStack'[j + 1] = scopeStack[j + 1] /\ scopeStack[j + 1] \in Scopes
      BY <3>1, <1>1, <1>14
    <3>3. QED BY <3>2, <1>5 DEF IsBody
  <2>5. owner = "function" => IsBody(scopeStack[d + 1], n)'
    BY <1>2, <1>4 DEF IsBody
  <2>6. ASSUME NEW s \in Scopes', NEW m \in Names, tables'[s].symbols[m] # NoSymbol,
               <<s, m>> \notin complete
        PROVE  \E j \in 1..d : scopeStack'[j] = s /\ IsBody(scopeStack[j + 1], m)'
    <3>1. s \in Scopes
      BY <2>6, <1>2, <1>4
    <3>2. CASE tables[s].symbols[m] # NoSymbol
      <4>1. PICK j \in 1..(d - 1) : scopeStack[j] = s /\ IsBody(scopeStack[j + 1], m)
        BY <2>6, <3>1, <3>2 DEF LexicalInv, CompleteInv, Declared
      <4>2. j \in 1..d /\ scopeStack'[j] = s
        BY <4>1, <1>1, <1>14
      <4>3. IsBody(scopeStack[j + 1], m)'
        BY <4>1, <2>4
      <4>4. QED BY <4>2, <4>3
    <3>3. CASE s = c /\ m = n /\ owner = "function"
      <4>1. d \in 1..d /\ scopeStack'[d] = s
        BY <3>3, <1>1, <1>14
      <4>2. QED BY <3>3, <4>1, <2>5
    <3>4. QED BY <2>6, <3>1, <3>2, <3>3, <1>10
  <2>7. ASSUME NEW j \in 1..d, NEW m \in Names, tables'[scopeStack'[j]].symbols[m] # NoSymbol
        PROVE  /\ <<scopeStack'[j], m>> \in complete <=>
                    tables'[scopeStack'[j]].symbols[m].id < nextIds'[j] - 1
               /\ <<scopeStack'[j], m>> \in complete \/ IsBody(scopeStack[j + 1], m)'
    <3> DEFINE s == scopeStack'[j]
    <3>1. s = scopeStack[j] /\ s \in Scopes
      BY <1>1, <1>14
    <3>2. CASE j = d
      <4>1. s = c /\ nextIds'[j] - 1 = ref.id
        BY <3>1, <3>2, <1>1, <1>2, <1>3
      <4>2. CASE tables[s].symbols[m] # NoSymbol /\ tables'[s].symbols[m] = tables[s].symbols[m]
        <5>1. <<c, m>> \in complete
          BY <4>1, <4>2, TopIsComplete DEF Declared
        <5>2. tables[c].symbols[m].id < ref.id
          BY <4>1, <4>2, <1>3 DEF Declared, NumberOf
        <5> HIDE DEF s
        <5>3. QED BY <4>1, <4>2, <5>1, <5>2 DEF s
      <4>3. CASE /\ m = n /\ tables'[s].symbols[m].id = ref.id /\ owner = "function"
                 /\ <<c, n>> \notin complete
        BY <4>1, <4>3, <2>5, <3>2, <1>3
      <4>4. QED BY <2>7, <3>1, <4>2, <4>3, <1>10
    <3>3. CASE j # d
      <4>1. j \in 1..(d - 1)
        BY <3>3, <1>1
      <4>2. s # c /\ nextIds'[j] = nextIds[j]
        BY <4>1, <3>1, <1>1, <1>2
      <4>3. tables[s].symbols[m] # NoSymbol /\ tables'[s].symbols[m] = tables[s].symbols[m]
        BY <2>7, <3>1, <4>2, <1>10
      <4>4. /\ <<s, m>> \in complete <=> NumberOf(s, m) < nextIds[j] - 1
            /\ <<s, m>> \in complete \/ IsBody(scopeStack[j + 1], m)
        BY <3>1, <4>1, <4>3 DEF LexicalInv, CompleteInv, Declared
      <4>5. IsBody(scopeStack[j + 1], m)' <=> IsBody(scopeStack[j + 1], m)
        BY <4>1, <2>4
      <4> HIDE DEF s
      <4>6. QED BY <4>2, <4>3, <4>4, <4>5 DEF NumberOf, s
    <3>4. QED BY <3>2, <3>3
  <2>8. Len(scopeStack') - 1 = d
    BY <1>1, <1>2
  <2>9. QED
    <3>1. \A s \in Scopes', m \in Names : Declared(s, m)' /\ <<s, m>> \notin complete' =>
            \E j \in 1..d : scopeStack'[j] = s /\ IsBody(scopeStack[j + 1], m)'
      BY <2>6 DEF Declared
    <3>2. \A j \in 1..d, m \in Names : Declared(scopeStack[j], m)' =>
            /\ <<scopeStack'[j], m>> \in complete' <=> NumberOf(scopeStack[j], m)' < nextIds'[j] - 1
            /\ <<scopeStack'[j], m>> \in complete' \/ IsBody(scopeStack[j + 1], m)'
      BY <2>7 DEF Declared, NumberOf
    <3>3. QED BY <2>1, <2>2, <2>3, <2>8, <3>1, <3>2 DEF CompleteInv
<1>17. ElseInv' /\ BaseInv'
  BY DEF ElseInv, LexicalInv, BaseInv
<1>18. QED BY <1>8, <1>15, <1>16, <1>17 DEF LexicalInv

\* A node that opens a scope; n is the function's name if it is one.
LEMMA EnterLexical ==
  ASSUME IInv, IInv', phase = "visit", LexicalInv, NEW n, NEW tabs, SameTree(tabs),
         Added(tabs, n, Last(nextIds)), NEW ref, NEW ids, Position(ref, ids),
         tabs = tables \/ ref.id = Last(nextIds),
         NEW owner \in Owners, NEW name \in Names \cup Classes \cup {NoClass},
         EnterScopeAt(ref, ids), EnterTable(tabs, owner, name),
         owner = "function" => n \in Names /\ name = n /\ Taken(tabs, n),
         owner # "function" => tabs = tables,
         UNCHANGED <<complete, classType>>, ~elseTail',
         NEW e \in Expressions, VisitExpression(e, ref)
  PROVE  LexicalInv'
<1>1. \A d, c, k : d = Len(scopeStack) /\ c = CurrentScope /\ k = Len(tables) + 1 => LexicalInv'
  BY EnterLexicalAt
<1>2. QED BY <1>1

-----------------------------------------------------------------------------
(* Leaving a scope *)

\* What is said of tables and anchors alone.
LEMMA SameTables ==
  ASSUME UNCHANGED <<tables, anchors>>
  PROVE  /\ Scopes' = Scopes /\ Enclosing' = Enclosing
         /\ \A s, n : /\ Declared(s, n)' <=> Declared(s, n)
                      /\ NumberOf(s, n)' = NumberOf(s, n)
                      /\ IsBody(s, n)' <=> IsBody(s, n)
                      /\ Settled(s, n)' <=> Settled(s, n)
         /\ OnlyLaterFunctionsShadowed' <=> OnlyLaterFunctionsShadowed
<1>1. Scopes' = Scopes /\ Enclosing' = Enclosing
  BY DEF Scopes, Enclosing
<1>2. \A n : HolderOf(n)' = HolderOf(n)
  BY DEF HolderOf
<1>3. \A s, n : /\ Declared(s, n)' <=> Declared(s, n)
                /\ NumberOf(s, n)' = NumberOf(s, n)
                /\ IsBody(s, n)' <=> IsBody(s, n)
  BY DEF Declared, NumberOf, IsBody
<1>4. \A s, n : IsIllegalShadowing(s, n)' <=> IsIllegalShadowing(s, n)
  BY <1>2, IllegalMeans, IllegalMeansNext
<1>5. \A s, n : Settled(s, n)' <=> Settled(s, n)
  BY <1>3, <1>4 DEF Settled
<1>6. \A s, a : StatementAround(s, a)' = StatementAround(s, a)
  BY DEF StatementAround
<1>7. \A s, a, n : ShadowsFunction(s, a, n)' <=> ShadowsFunction(s, a, n)
  BY <1>1 DEF ShadowsFunction
<1>8. OnlyLaterFunctionsShadowed' <=> OnlyLaterFunctionsShadowed
  BY <1>1, <1>6, <1>7 DEF OnlyLaterFunctionsShadowed
<1>9. QED BY <1>1, <1>3, <1>5, <1>8

\* BeforeInv stays when declarations get behind no use.
LEMMA BeforeStays ==
  ASSUME UNCHANGED <<tables, anchors, uses>>, complete \subseteq complete', BeforeInv
  PROVE  BeforeInv'
BY SameTables DEF BeforeInv

\* The scope around the current one.
LEMMA AroundCurrent ==
  ASSUME IInv, phase = "visit"
  PROVE  /\ CurrentScope = Root <=> Len(scopeStack) = 1
         /\ Len(scopeStack) # 1 =>
              /\ Len(scopeStack) - 1 \in 1..(Len(scopeStack) - 1)
              /\ scopeStack[Len(scopeStack) - 1] = tables[CurrentScope].parent
              /\ CurrentScope = scopeStack[(Len(scopeStack) - 1) + 1]
<1> DEFINE d == Len(scopeStack)
<1>1. d \in Nat \ {0} /\ CurrentScope = scopeStack[d] /\ CurrentScope \in Scopes /\ Tree
  BY StackFacts
<1>2. CASE d = 1
  <2>1. tables[scopeStack[1]].parent = NoScope
    BY <1>1, <1>2 DEF IInv, ScopesAgree
  <2>2. QED BY <1>1, <1>2, <2>1 DEF Tree
<1>3. CASE d # 1
  <2>1. d - 1 \in 1..(d - 1) /\ (d - 1) + 1 = d /\ d - 1 \in 1..d
    <3> HIDE DEF d
    <3>1. QED BY <1>1, <1>3
  <2>2. scopeStack[d - 1] = tables[scopeStack[(d - 1) + 1]].parent /\ scopeStack[d - 1] \in Scopes
    BY <2>1, StackFacts
  <2> HIDE DEF d
  <2>3. scopeStack[d - 1] = tables[CurrentScope].parent
    BY <2>1, <2>2, <1>1
  <2>4. CurrentScope # Root
    BY <2>2, <2>3, <1>1 DEF Tree, NoScope, Scopes
  <2>5. QED BY <2>1, <2>3, <2>4, <1>1, <1>3 DEF d
<1>4. QED BY <1>2, <1>3

\* Leaving a scope: its function, if it is one, is behind the visit from now on.
LEMMA LeaveLexical ==
  ASSUME IInv, IInv', LexicalInv, NEW base \in Classes \cup {NoClass}, LeaveScope(base),
         NEW d, d = Len(scopeStack), NEW c, c = CurrentScope, NEW p, p = tables[c].parent
  PROVE  LexicalInv'
<1>1. /\ phase = "visit" /\ c # Root /\ LeaveScopeRestoring /\ LeaveTable
      /\ UNCHANGED <<tables, anchors, uses>> /\ complete \subseteq complete'
  BY DEF LeaveScope, LeaveScopeRestoring, Completed
<1>2. /\ Tree /\ AnchorsTyped /\ d \in Nat \ {0, 1} /\ d - 1 \in 1..(d - 1) /\ (d - 1) + 1 = d
      /\ c = scopeStack[d] /\ c \in Scopes /\ p = scopeStack[d - 1] /\ p \in Scopes
      /\ nextIds \in Seq(Nat) /\ Len(nextIds) = d /\ Len(saved) = d - 1
      /\ \A j \in 1..d : scopeStack[j] \in Scopes /\ nextIds[j] \in Nat
      /\ \A i, j \in 1..d : scopeStack[i] = scopeStack[j] => i = j
      /\ \A j \in 1..(d - 1) : j \in 1..d /\ j + 1 \in 1..d
  <2>1. d \in Nat \ {0, 1} /\ d - 1 \in 1..(d - 1) /\ (d - 1) + 1 = d /\ p = scopeStack[d - 1]
    BY <1>1, StackFacts, AroundCurrent
  <2>2. d - 1 \in 1..d
    BY <2>1
  <2>3. \A j \in 1..(d - 1) : j \in 1..d /\ j + 1 \in 1..d
    BY <2>1
  <2>4. /\ Tree /\ AnchorsTyped /\ CurrentScope = scopeStack[Len(scopeStack)]
        /\ CurrentScope \in Scopes /\ nextIds \in Seq(Nat)
        /\ Len(nextIds) = Len(scopeStack) /\ Len(saved) = Len(scopeStack) - 1
        /\ \A j \in 1..Len(scopeStack) : scopeStack[j] \in Scopes /\ nextIds[j] \in Nat
        /\ \A i, j \in 1..Len(scopeStack) : scopeStack[i] = scopeStack[j] => i = j
    BY <1>1, StackFacts
  <2>5. p \in Scopes
    BY <2>1, <2>2, <2>4
  <2>6. QED BY <2>1, <2>3, <2>4, <2>5
<1>3. /\ Len(scopeStack') = d - 1 /\ \A j \in 1..(d - 1) : scopeStack'[j] = scopeStack[j]
      /\ Len(nextIds') = d - 1 /\ \A j \in 1..(d - 1) : nextIds'[j] = nextIds[j]
      /\ \A j \in 1..(d - 2) : saved'[j] = saved[j]
      /\ current' = saved[d - 1] /\ Last(nextIds') = nextIds[d - 1]
  <2>1. scopeStack \in Seq(Nat) /\ scopeStack # <<>> /\ saved \in Seq(ScopedStmtRef) /\ saved # <<>>
        /\ nextIds # <<>>
    BY <1>2 DEF IInv, TypeOK, TableTypeOK, NumTypeOK
  <2>2. /\ Len(scopeStack') = d - 1 /\ \A j \in 1..(d - 1) : scopeStack'[j] = scopeStack[j]
    BY <1>1, <2>1, FrontProperties DEF LeaveTable
  <2>3. /\ Len(nextIds') = d - 1 /\ \A j \in 1..(d - 1) : nextIds'[j] = nextIds[j]
        /\ nextIds' \in Seq(Nat) /\ nextIds' # <<>>
    <3>1. nextIds' = Front(nextIds)
      BY <1>1 DEF LeaveScopeRestoring
    <3>2. /\ Len(Front(nextIds)) = Len(nextIds) - 1 /\ Front(nextIds) \in Seq(Nat)
          /\ \A j \in 1..(Len(nextIds) - 1) : Front(nextIds)[j] = nextIds[j]
      BY <1>2, <2>1, FrontProperties
    <3>3. d - 1 # 0
      BY <1>2
    <3>4. QED BY <1>2, <3>1, <3>2, <3>3
  <2>4. /\ \A j \in 1..(d - 2) : saved'[j] = saved[j]
        /\ current' = saved[d - 1]
    <3>1. saved' = Front(saved) /\ current' = Last(saved)
      BY <1>1 DEF LeaveScopeRestoring
    <3>2. \A j \in 1..(Len(saved) - 1) : Front(saved)[j] = saved[j]
      BY <2>1, FrontProperties
    <3>3. Last(saved) = saved[Len(saved)]
      BY <2>1, LastProperties
    <3>4. Len(saved) - 1 = d - 2 /\ Len(saved) = d - 1
      BY <1>2
    <3>5. QED BY <3>1, <3>2, <3>3, <3>4
  <2>5. Last(nextIds') = nextIds'[d - 1]
    BY <2>3, LastProperties
  <2>6. QED BY <1>2, <2>2, <2>3, <2>4, <2>5
<1>4. \A s, m : (tables[c].owner # "function" \/ s # p \/ m # tables[c].name) =>
                   (<<s, m>> \in complete' <=> <<s, m>> \in complete)
  BY DEF LeaveScope, Completed, Owner
<1>5. tables[c].owner = "function" => <<p, tables[c].name>> \in complete'
  BY DEF LeaveScope, Completed, Owner
<1>6. NumbersInv'
  <2>1. \A j \in 1..(d - 1) :
          /\ nextIds[j] >= 1
          /\ \A s \in Scopes : tables[s].parent = scopeStack[j] => anchors[s].id < nextIds[j]
          /\ \A i \in 1..Len(uses) : uses[i].scope = scopeStack[j] => uses[i].ref.id < nextIds[j]
          /\ \A m \in Names : Declared(scopeStack[j], m) => NumberOf(scopeStack[j], m) < nextIds[j]
    BY <1>2 DEF LexicalInv, NumbersInv
  <2>2. \A j \in 1..(d - 2) :
          /\ saved[j].id = nextIds[j] - 1 /\ anchors[scopeStack[j + 1]].id = nextIds[j] - 1
          /\ j \in 1..(d - 1) /\ j + 1 \in 1..(d - 1)
    <3>1. \A j \in 1..(d - 2) : j \in 1..(d - 1) /\ j + 1 \in 1..(d - 1)
      BY <1>2
    <3>2. \A j \in 1..(d - 1) :
            saved[j].id = nextIds[j] - 1 /\ anchors[scopeStack[j + 1]].id = nextIds[j] - 1
      BY DEF LexicalInv, NumbersInv
    <3>3. QED BY <3>1, <3>2
  <2>3. Len(scopeStack') - 1 = d - 2
    BY <1>2, <1>3
  <2>4. \A j \in 1..(Len(scopeStack') - 1) :
          saved'[j].id = nextIds'[j] - 1 /\ anchors'[scopeStack'[j + 1]].id = nextIds'[j] - 1
    BY <1>1, <1>3, <2>2, <2>3
  <2>5. /\ \A s \in Scopes' \ {Root} : anchors'[s].id >= 1
        /\ \A i \in 1..Len(uses') : uses'[i].ref.id >= 1
    BY <1>1, SameTables DEF LexicalInv, NumbersInv
  <2>6. \A j \in 1..(d - 1) :
          /\ nextIds'[j] >= 1
          /\ \A s \in Scopes' : tables'[s].parent = scopeStack'[j] => anchors'[s].id < nextIds'[j]
          /\ \A i \in 1..Len(uses') : uses'[i].scope = scopeStack'[j] =>
              uses'[i].ref.id < nextIds'[j]
          /\ \A m \in Names : Declared(scopeStack[j], m)' =>
              NumberOf(scopeStack[j], m)' < nextIds'[j]
    <3> TAKE j \in 1..(d - 1)
    <3>1. scopeStack'[j] = scopeStack[j] /\ nextIds'[j] = nextIds[j]
      BY <1>3
    <3>2. \A m \in Names : Declared(scopeStack[j], m)' => NumberOf(scopeStack[j], m)' < nextIds'[j]
      BY <1>1, <2>1, <3>1 DEF Declared, NumberOf
    <3>3. QED BY <1>1, <2>1, <3>1, <3>2, SameTables
  <2>7. QED BY <1>3, <2>4, <2>5, <2>6 DEF NumbersInv
<1>7. ElseInv'
  <2> SUFFICES ASSUME elseTail'
               PROVE  /\ current'.id = Last(nextIds') - 1 /\ current'.id >= 1
                      /\ \A m \in Names : Declared(CurrentScope, m)' =>
                          NumberOf(CurrentScope, m)' < current'.id
    BY DEF ElseInv
  <2>1. tables[c].owner = "then"
    BY DEF LeaveScope, Owner
  <2>2. /\ saved[d - 1].id = nextIds[d - 1] - 1 /\ anchors[c].id = nextIds[d - 1] - 1
        /\ anchors[c].id >= 1
    BY <1>1, <1>2 DEF LexicalInv, NumbersInv
  <2>3. CurrentScope' = p
    <3>1. scopeStack' # <<>> /\ scopeStack' \in Seq(Nat)
      BY <1>2, <1>3 DEF IInv, TypeOK, TableTypeOK
    <3>2. QED BY SMTT(60), <1>2, <1>3, <3>1, LastProperties DEF CurrentScope
  <2>4. \A m \in Names : tables[p].symbols[m] # NoSymbol =>
      tables[p].symbols[m].id < nextIds[d - 1] - 1
    BY <1>2, <2>1 DEF LexicalInv, CompleteInv, IsBody, Declared, NumberOf
  <2>5. QED BY <1>1, <1>3, <2>2, <2>3, <2>4 DEF Declared, NumberOf
<1>8. CompleteInv'
  <2>1. \A s \in Nat, m \in Names : <<s, m>> \in complete' => s \in Scopes' /\ Settled(s, m)'
    <3> SUFFICES ASSUME NEW s \in Nat, NEW m \in Names, <<s, m>> \in complete'
                 PROVE  s \in Scopes /\ Settled(s, m)
      BY <1>1, SameTables
    <3>1. CASE <<s, m>> \in complete
      BY <3>1 DEF LexicalInv, CompleteInv
    <3>2. CASE tables[c].owner = "function" /\ s = p /\ m = tables[c].name
      BY <1>2, <3>2 DEF LexicalInv, CompleteInv, IsBody
    <3>3. QED BY <3>1, <3>2, <1>4
  <2>2. /\ \A t \in Scopes' : tables'[t].owner = "function" => t # Root /\ tables'[t].name \in Names
        /\ \A t, s \in Scopes', m \in Names : IsBody(t, m)' /\ tables'[t].parent = s =>
            Settled(s, m)'
    BY <1>1, SameTables DEF LexicalInv, CompleteInv
  <2>3. ASSUME NEW s \in Scopes, NEW m \in Names, Declared(s, m), <<s, m>> \notin complete'
        PROVE  \E j \in 1..(d - 2) : scopeStack[j] = s /\ IsBody(scopeStack[j + 1], m)
    <3>1. PICK j \in 1..(d - 1) : scopeStack[j] = s /\ IsBody(scopeStack[j + 1], m)
      BY <1>1, <2>3 DEF LexicalInv, CompleteInv
    <3>2. j # d - 1
      BY <3>1, <2>3, <1>2, <1>5 DEF IsBody
    <3>3. j \in 1..(d - 2)
      BY <3>2, <1>2
    <3>4. QED BY <3>1, <3>3
  <2>4. \A j \in 1..(d - 2) : /\ j \in 1..(d - 1) /\ j + 1 \in 1..(d - 1)
                              /\ scopeStack'[j] = scopeStack[j] /\
                                  scopeStack'[j + 1] = scopeStack[j + 1]
                              /\ scopeStack[j] # p /\ nextIds'[j] = nextIds[j]
    <3> TAKE j \in 1..(d - 2)
    <3>1. j \in 1..(d - 1) /\ j + 1 \in 1..(d - 1) /\ j # d - 1 /\ j \in 1..d /\ d - 1 \in 1..d
      BY <1>2
    <3>2. QED BY <3>1, <1>2, <1>3
  <2>5. ASSUME NEW j \in 1..(d - 2), NEW m \in Names, Declared(scopeStack[j], m)
        PROVE  /\ <<scopeStack[j], m>> \in complete' <=>
                   NumberOf(scopeStack[j], m) < nextIds'[j] - 1
               /\ <<scopeStack[j], m>> \in complete' \/ IsBody(scopeStack[j + 1], m)
    BY <1>4, <2>4, <2>5 DEF LexicalInv, CompleteInv
  <2>6. Len(scopeStack') - 1 = d - 2
    BY <1>2, <1>3
  <2>7. \A s \in Scopes', m \in Names : Declared(s, m)' /\ <<s, m>> \notin complete' =>
          \E j \in 1..(d - 2) : scopeStack'[j] = s /\ IsBody(scopeStack[j + 1], m)'
    <3> SUFFICES ASSUME NEW s \in Scopes, NEW m \in Names, Declared(s, m), <<s, m>> \notin complete'
                 PROVE  \E j \in 1..(d - 2) : scopeStack'[j] = s /\ IsBody(scopeStack[j + 1], m)'
      BY <1>1, SameTables
    <3>1. PICK j \in 1..(d - 2) : scopeStack[j] = s /\ IsBody(scopeStack[j + 1], m)
      BY <2>3
    <3>2. scopeStack'[j] = s /\ IsBody(scopeStack[j + 1], m)'
      BY <1>1, <2>4, <3>1 DEF IsBody
    <3>3. QED BY <3>2
  <2>8. \A j \in 1..(d - 2), m \in Names : Declared(scopeStack[j], m)' =>
          /\ <<scopeStack'[j], m>> \in complete' <=> NumberOf(scopeStack[j], m)' < nextIds'[j] - 1
          /\ <<scopeStack'[j], m>> \in complete' \/ IsBody(scopeStack[j + 1], m)'
    BY <1>1, <2>4, <2>5 DEF Declared, IsBody, NumberOf
  <2>9. QED BY <2>1, <2>2, <2>6, <2>7, <2>8 DEF CompleteInv
<1>9. BaseInv'
  <2>1. BaseInv /\ c # 0 /\ classType \in [Classes -> [decl : Nat, base : Classes \cup {NoClass}]]
    BY <1>2 DEF LexicalInv, Scopes, IInv, TypeOK, ClassTypeOK
  <2>2. CASE UNCHANGED classType
    BY <2>1, <2>2 DEF BaseInv
  <2>3. CASE SyncClassType(tables[c].name, c, base)
    BY <2>1, <2>3 DEF BaseInv, SyncClassType
  <2>4. QED BY <2>2, <2>3 DEF LeaveScope, Owner
<1>10. BeforeInv' /\ OnlyLaterFunctionsShadowed'
  BY <1>1, BeforeStays, SameTables DEF LexicalInv
<1>11. QED BY <1>6, <1>7, <1>8, <1>9, <1>10 DEF LexicalInv

\* The end of the program.
LEMMA EndLexical ==
  ASSUME IInv, IInv', LexicalInv, EndProgram
  PROVE  LexicalInv'
<1>1. /\ phase = "visit" /\ CurrentScope = Root /\ LeaveRootScope /\ LeaveTable /\ ~elseTail'
      /\ UNCHANGED <<tables, anchors, uses, complete, classType>>
  BY DEF EndProgram, LeaveRootScope, classVars
<1>2. Len(scopeStack) = 1 /\ Len(nextIds) = 1
  BY <1>1, AroundCurrent, StackFacts
<1>3. Len(scopeStack') = 0 /\ Len(nextIds') = 0
  <2>1. scopeStack \in Seq(Nat) /\ nextIds \in Seq(Nat) /\ scopeStack # <<>> /\ nextIds # <<>>
    <3>1. scopeStack \in Seq(Nat) /\ nextIds \in Seq(Nat)
      BY DEF IInv, TypeOK, TableTypeOK, NumTypeOK
    <3>2. Len(<<>>) # 1
      OBVIOUS
    <3>3. scopeStack # <<>>
      BY <1>2, <3>2
    <3>4. nextIds # <<>>
      BY <1>2, <3>2
    <3>5. QED BY <3>1, <3>3, <3>4
  <2>2. QED BY SMTT(60), <1>1, <1>2, <2>1, FrontProperties DEF LeaveRootScope, LeaveTable
<1>4. NumbersInv'
  BY <1>1, <1>3, SameTables DEF LexicalInv, NumbersInv
<1>5. CompleteInv'
  <2>1. \A s \in Scopes, m \in Names : Declared(s, m) => <<s, m>> \in complete
    BY <1>2 DEF LexicalInv, CompleteInv
  <2>2. /\ \A s \in Nat, n \in Names : <<s, n>> \in complete' => s \in Scopes' /\ Settled(s, n)'
        /\ \A t \in Scopes' : tables'[t].owner = "function" => t # Root /\ tables'[t].name \in Names
        /\ \A t, s \in Scopes', n \in Names : IsBody(t, n)' /\ tables'[t].parent = s =>
            Settled(s, n)'
    BY <1>1, SameTables DEF LexicalInv, CompleteInv
  <2>3. \A s \in Scopes', m \in Names : Declared(s, m)' => <<s, m>> \in complete'
    BY <1>1, <2>1, SameTables
  <2>4. 1..(Len(scopeStack') - 1) = {}
    BY <1>3
  <2>5. QED BY <2>2, <2>3, <2>4 DEF CompleteInv
<1>6. ElseInv' /\ BaseInv' /\ BeforeInv' /\ OnlyLaterFunctionsShadowed'
  BY <1>1, BeforeStays, SameTables DEF LexicalInv, ElseInv, BaseInv
<1>7. QED BY <1>4, <1>5, <1>6 DEF LexicalInv

-----------------------------------------------------------------------------
(* LexicalInv and the visits *)

\* The next statement is one of the current scope.
LEMMA NumberedHere ==
  ASSUME IInv, phase = "visit", LexicalInv
  PROVE  /\ NextStmtRef.scope = CurrentScope /\ NextStmtRef.id = Last(nextIds)
         /\ Last(nextIds) \in Nat /\ CurrentScope \in Nat
BY StackFacts, NextPosition DEF Position, Scopes

\* A variable or a field.
LEMMA DeclareVariableLexical ==
  ASSUME IInv, IInv', LexicalInv, NEW n \in VarNames, NEW type \in VarTypes,
         NEW e \in Expressions, DeclareVariable(n, type, e) \/ DeclareField(n, type, e)
  PROVE  LexicalInv'
<1> DEFINE tabs == TablesAfterAdd(CurrentScope, n, Symbol("Variable", NextStmtRef, type))
<1>1. /\ phase = "visit" /\ ~elseTail' /\ AcquireStatement /\ VisitExpression(e, NextStmtRef)
      /\ tables' = tabs /\ Completed(CurrentScope, n) /\ UNCHANGED <<scopeStack, classType>>
  BY DEF DeclareVariable, DeclareField, TakeStatement, classVars
<1>2. n \in Names /\ type \in Classes \cup {NoClass} /\ "Variable" \in SymbolKinds
  BY Chosen DEF SymbolKinds
<1>3. SameTree(tabs) /\ Added(tabs, n, Last(nextIds)) /\ Taken(tabs, n)
  BY <1>1, <1>2, NumberedHere, AddedTables
<1> HIDE DEF tabs
<1>4. SameTree(tables') /\ Added(tables', n, Last(nextIds)) /\ Taken(tables', n)
  BY <1>1, <1>3
<1>5. QED BY <1>1, <1>2, <1>4, StayLexical

\* A use.
LEMMA VisitUseLexical ==
  ASSUME IInv, IInv', LexicalInv, NEW e \in UseForms, VisitUse(e)
  PROVE  LexicalInv'
<1>1. /\ phase = "visit" /\ ~elseTail' /\ AcquireStatement /\ VisitExpression(e, NextStmtRef)
      /\ tables' = tables /\ UNCHANGED <<scopeStack, classType, complete, tables>>
  BY DEF VisitUse, TakeStatement, tableVars, classVars
<1>2. e \in Expressions /\ e.name \in Names
  BY BuilderAssumption DEF Expressions, AllUseForms
<1>3. SameTree(tables') /\ Added(tables', e.name, Last(nextIds))
  BY <1>1, Visiting, SameTreeItself, NothingAdded
<1>4. QED BY <1>1, <1>2, <1>3, StayLexical

\* A parameter is declared before the first statement of its function's body.
LEMMA DeclareParameterLexical ==
  ASSUME IInv, IInv', LexicalInv, NEW n \in VarNames, NEW type \in VarTypes,
         DeclareParameter(n, type)
  PROVE  LexicalInv'
<1> DEFINE ref == [scope |-> CurrentScope, id |-> 0]
           tabs == TablesAfterAdd(CurrentScope, n, Symbol("Parameter", ref, type))
<1>1. /\ phase = "visit" /\ Last(nextIds) = 1 /\ tables' = tabs /\ Completed(CurrentScope, n)
      /\ UNCHANGED <<numVars, scopeStack, classType, elseTail, uses>>
  BY DEF DeclareParameter, classVars
<1>2. n \in Names /\ type \in Classes \cup {NoClass} /\ "Parameter" \in SymbolKinds
  BY Chosen DEF SymbolKinds
<1>3. ref.scope = CurrentScope /\ ref.id = 0 /\ 0 \in Nat
  OBVIOUS
<1> HIDE DEF ref
<1>4. SameTree(tabs) /\ Added(tabs, n, 0) /\ Taken(tabs, n)
  BY <1>1, <1>2, <1>3, AddedTables
<1> HIDE DEF tabs
<1>5. SameTree(tables') /\ Added(tables', n, 0) /\ Taken(tables', n)
  BY <1>1, <1>4
<1>6. QED BY <1>1, <1>2, <1>5, ParameterLexical

\* A function or a method.
LEMMA DeclareFunctionLexical ==
  ASSUME IInv, IInv', LexicalInv, NEW n \in Names, DeclareFunction(n) \/ DeclareMethod(n)
  PROVE  LexicalInv'
<1> DEFINE tabs == TablesAfterAdd(CurrentScope, n, Symbol("Function", NextStmtRef, NoClass))
<1>1. /\ phase = "visit" /\ ~elseTail' /\ EnterScopeAt(NextStmtRef, CountersAfterAcquire)
      /\ EnterTable(tabs, "function", n) /\ UNCHANGED <<uses, complete, classType>>
  BY DEF DeclareFunction, DeclareMethod, AddFunctionAndEnterBody, TakeStatement,
         AcquireAndEnterScope
<1>2. "Function" \in SymbolKinds /\ "function" \in Owners
  BY DEF SymbolKinds, Owners
<1>3. SameTree(tabs) /\ Added(tabs, n, Last(nextIds)) /\ Taken(tabs, n)
  BY <1>1, <1>2, NumberedHere, AddedTables
<1>4. Position(NextStmtRef, CountersAfterAcquire) /\ NextStmtRef.id = Last(nextIds)
  BY <1>1, NextPosition
<1>5. NoUse \in Expressions /\ VisitExpression(NoUse, NextStmtRef)
  BY <1>1 DEF Expressions, VisitExpression
<1> HIDE DEF tabs
<1>6. QED BY <1>1, <1>2, <1>3, <1>4, <1>5, EnterLexical

\* A scope of no function, at a statement of its own or in that of an if.
LEMMA PlainScopeLexical ==
  ASSUME IInv, IInv', phase = "visit", LexicalInv, NEW ref, NEW ids, Position(ref, ids),
         NEW owner \in Owners \ {"function"}, NEW name \in Names \cup Classes \cup {NoClass},
         EnterScopeAt(ref, ids), EnterTable(tables, owner, name),
         UNCHANGED <<complete, classType>>, ~elseTail',
         NEW e \in Expressions, VisitExpression(e, ref)
  PROVE  LexicalInv'
<1>1. SameTree(tables) /\ \A n : Added(tables, n, Last(nextIds))
  BY Visiting, SameTreeItself, NothingAdded
<1>2. QED BY <1>1, EnterLexical

\* A class, a block or an if.
LEMMA PlainStatementLexical ==
  ASSUME IInv, IInv', LexicalInv,
         (\E c \in Classes : DeclareClass(c)) \/ VisitBlock \/ \E e \in Expressions : VisitIf(e)
  PROVE  LexicalInv'
<1>1. phase = "visit" /\ ~elseTail' /\ EnterScopeAt(NextStmtRef, CountersAfterAcquire)
      /\ UNCHANGED <<complete, classType>>
  BY DEF DeclareClass, VisitBlock, VisitIf, TakeStatement, AcquireAndEnterScope
<1>2. Position(NextStmtRef, CountersAfterAcquire)
  BY <1>1, NextPosition
<1>3. UNCHANGED uses => VisitExpression(NoUse, NextStmtRef)
  BY DEF VisitExpression
<1>4. NoUse \in Expressions /\ {"class", "block", "then"} \subseteq Owners \ {"function"}
  BY DEF Expressions, Owners, BlockOwners
<1>5. CASE \E c \in Classes : DeclareClass(c)
  <2>1. PICK c \in Classes : DeclareClass(c)
    BY <1>5
  <2>2. EnterTable(tables, "class", c) /\ UNCHANGED uses
    BY <2>1 DEF DeclareClass
  <2>3. QED BY <1>1, <1>2, <1>3, <1>4, <2>2, PlainScopeLexical
<1>6. CASE VisitBlock
  <2>1. EnterTable(tables, "block", NoClass) /\ UNCHANGED uses
    BY <1>6 DEF VisitBlock
  <2>2. QED BY <1>1, <1>2, <1>3, <1>4, <2>1, PlainScopeLexical
<1>7. CASE \E e \in Expressions : VisitIf(e)
  <2>1. PICK e \in Expressions : VisitIf(e)
    BY <1>7
  <2>2. EnterTable(tables, "then", NoClass) /\ VisitExpression(e, NextStmtRef)
    BY <2>1 DEF VisitIf
  <2>3. QED BY <1>1, <1>2, <1>4, <2>2, PlainScopeLexical
<1>8. QED BY <1>5, <1>6, <1>7

\* A branch of an if.
LEMMA VisitElseLexical ==
  ASSUME IInv, IInv', LexicalInv, NEW owner \in {"then", "else"}, NEW e \in Expressions,
         VisitElse(owner, e)
  PROVE  LexicalInv'
<1>1. /\ phase = "visit" /\ elseTail /\ EnterScopeAt(current, nextIds)
      /\ EnterTable(tables, owner, NoClass) /\ VisitExpression(e, current)
      /\ UNCHANGED <<complete, classType>>
  BY DEF VisitElse, EnterScopeInStatement
<1>2. ~elseTail'
  BY Zenon DEF VisitElse
<1>3. Position(current, nextIds)
  BY <1>1, ElsePosition
<1>4. owner \in Owners \ {"function"}
  BY DEF Owners, BlockOwners
<1>5. QED BY <1>1, <1>2, <1>3, <1>4, PlainScopeLexical

\* Every visit keeps LexicalInv.
LEMMA VisitLexical ==
  ASSUME IInv, IInv', LexicalInv, BuildDeclaration \/ BuildStatement \/ BuildScopeEnd
  PROVE  LexicalInv'
<1>1. CASE BuildDeclaration
  BY <1>1, DeclareVariableLexical, DeclareFunctionLexical, DeclareParameterLexical,
     PlainStatementLexical DEF BuildDeclaration, VisitDeclaration
<1>2. CASE BuildStatement
  BY <1>2, VisitUseLexical, PlainStatementLexical, VisitElseLexical
     DEF BuildStatement, VisitStatement
<1>3. CASE BuildScopeEnd
  <2>1. CASE EndProgram
    BY <2>1, EndLexical
  <2>2. ASSUME NEW base \in Classes \cup {NoClass}, LeaveScope(base)
        PROVE  LexicalInv'
    <3>1. \A d, c, p : d = Len(scopeStack) /\ c = CurrentScope /\ p = tables[c].parent =>
        LexicalInv'
      BY <2>2, LeaveLexical
    <3>2. QED BY <3>1
  <2>3. QED BY <1>3, <2>1, <2>2 DEF BuildScopeEnd, VisitScopeEnd
<1>4. QED BY <1>1, <1>2, <1>3

-----------------------------------------------------------------------------
(* LexicalInv outside the visits *)

\* LexicalInv speaks of what the visits leave only.
LEMMA LexicalStays ==
  ASSUME IInv, LexicalInv, UNCHANGED programVars
  PROVE  LexicalInv'
<1>1. UNCHANGED <<tables, anchors, nextIds, saved, current, scopeStack, classType, uses,
                  complete, elseTail>>
  BY DEF programVars, numVars, classVars
<1>2. NumbersInv' /\ ElseInv'
  BY <1>1, SameTables DEF LexicalInv, NumbersInv, ElseInv, CurrentScope
<1>3. CompleteInv'
  BY <1>1, SameTables DEF LexicalInv, CompleteInv
<1>4. BeforeInv' /\ BaseInv' /\ OnlyLaterFunctionsShadowed'
  BY <1>1, BeforeStays, SameTables DEF LexicalInv, BaseInv
<1>5. QED BY <1>2, <1>3, <1>4 DEF LexicalInv

\* Before the first visit.
LEMMA InitLexical == Init => LexicalInv /\ SearchInv /\ ResolutionIsLexical
<1> SUFFICES ASSUME Init PROVE LexicalInv /\ SearchInv /\ ResolutionIsLexical
  OBVIOUS
<1>1. IInv
  BY InitIInv
<1>2. /\ tables = <<NewTable(0, "program", NoClass)>> /\ Len(tables) = 1 /\ scopeStack = <<1>>
      /\ nextIds = <<1>> /\ saved = <<>> /\ ~elseTail /\ uses = <<>> /\ complete = {} /\ errors = {}
      /\ classType = [c \in Classes |-> [decl |-> 0, base |-> NoClass]]
      /\ step = "next" /\ cursor = 0 /\ resolved = <<>>
  BY DEF Init, InitBuilder, EnterRootScope, InitTables, InitClassTypes, Root
<1>3. Scopes = {Root} /\ \A m \in Names : ~Declared(Root, m)
  BY <1>2 DEF Scopes, Root, Declared, NewTable
<1>4. tables[Root].owner = "program" /\ tables[Root].parent = 0
  BY <1>2 DEF Root, NewTable
<1>5. NumbersInv
  <2>1. \A j \in 1..Len(scopeStack) : j = 1 /\ scopeStack[j] = Root /\ nextIds[j] = 1
    BY <1>2 DEF Root
  <2>2. \A s \in Scopes : tables[s].parent # Root
    BY <1>3, <1>4 DEF Root
  <2>3. Len(nextIds) = 1 /\ Len(uses) = 0 /\ Len(scopeStack) - 1 = 0
    BY <1>2
  <2>4. \A j \in 1..Len(nextIds) : nextIds[j] >= 1
    BY <1>2
  <2>5. QED BY <1>3, <2>1, <2>2, <2>3, <2>4 DEF NumbersInv
<1>6. ElseInv /\ BaseInv
  BY <1>2 DEF ElseInv, BaseInv
<1>7. CompleteInv
  <2>1. \A s \in Scopes : \A m : ~IsBody(s, m) /\ tables[s].owner # "function"
    BY <1>3, <1>4 DEF IsBody
  <2>2. Len(scopeStack) - 1 = 0
    BY <1>2
  <2>3. \A s \in Scopes, m \in Names : ~Declared(s, m)
    BY <1>3
  <2>4. QED BY <1>2, <2>1, <2>2, <2>3 DEF CompleteInv
<1>8. BeforeInv
  BY <1>2 DEF BeforeInv
<1>9. OnlyLaterFunctionsShadowed
  BY <1>3 DEF OnlyLaterFunctionsShadowed, ShadowsFunction, Declared
<1>10. SearchInv /\ ResolutionIsLexical
  <2>1. Len(resolved) = 0 /\ 1..Len(resolved) = {}
    BY <1>2
  <2>2. QED BY <1>2, <2>1 DEF SearchInv, ResolutionIsLexical
<1>11. QED BY <1>5, <1>6, <1>7, <1>8, <1>9, <1>10 DEF LexicalInv

-----------------------------------------------------------------------------
(* Ancestors of a class *)

\* The classes above c, one base at a time.
LEMMA AncestorEquation ==
  ASSUME ClassTypeOK, NEW c \in Classes
  PROVE  /\ Cardinality(Classes) \in Nat /\ Ancestor(c)[0] = c
         /\ \A k \in 0..Cardinality(Classes) : Ancestor(c)[k] \in Classes \cup {NoClass}
         /\ \A k \in 1..Cardinality(Classes) :
              Ancestor(c)[k] = IF Ancestor(c)[k - 1] = NoClass THEN NoClass
                               ELSE classType[Ancestor(c)[k - 1]].base
<1> DEFINE n == Cardinality(Classes)
           V == Classes \cup {NoClass}
           g == [v \in V |-> IF v = NoClass THEN NoClass ELSE classType[v].base]
           Eq(f) == f = [k \in 0..n |-> IF k = 0 THEN c
                                        ELSE IF f[k - 1] = NoClass THEN NoClass
                                             ELSE classType[f[k - 1]].base]
<1>1. n \in Nat
  BY ClassesAssumption, FS_CardinalityType
<1>2. c \in V /\ g \in [V -> V]
  BY DEF ClassTypeOK
<1>3. \E f : Iterates(f, n, V, c, g)
  <2> HIDE DEF V, g, n
  <2>1. QED BY <1>1, <1>2, IterationExists
<1>4. PICK f : Iterates(f, n, V, c, g)
  BY <1>3
<1>5. /\ f \in [0..n -> V] /\ f[0] = c
      /\ \A k \in 1..n : f[k] = IF f[k - 1] = NoClass THEN NoClass ELSE classType[f[k - 1]].base
  <2>1. f \in [0..n -> V] /\ f[0] = c /\ \A k \in 1..n : f[k] = g[f[k - 1]]
    BY <1>4 DEF Iterates
  <2>2. \A k \in 1..n : f[k - 1] \in V
    <3>1. \A k \in 1..n : k - 1 \in 0..n
      BY <1>1
    <3>2. QED BY <2>1, <3>1
  <2>3. QED BY <2>1, <2>2
<1>6. Eq(f)
  <2>1. DOMAIN f = 0..n /\ f = [k \in 0..n |-> f[k]]
    BY <1>5
  <2>2. \A k \in 0..n : f[k] = IF k = 0 THEN c
                               ELSE IF f[k - 1] = NoClass THEN NoClass ELSE classType[f[k - 1]].base
    <3> TAKE k \in 0..n
    <3>1. CASE k = 0
      BY <1>5, <3>1
    <3>2. CASE k # 0
      <4>1. k \in 1..n
        BY <1>1, <3>2
      <4>2. QED BY <1>5, <3>2, <4>1
    <3>3. QED BY <3>1, <3>2
  <2> HIDE DEF n, V
  <2>3. QED BY <2>1, <2>2
<1>7. Ancestor(c) = CHOOSE h : Eq(h)
  BY DEF Ancestor
<1>8. Eq(Ancestor(c))
  <2> HIDE DEF Eq
  <2>1. QED BY <1>6, <1>7
<1> DEFINE A == Ancestor(c)
<1>9. \A k \in 0..n : A[k] = IF k = 0 THEN c
                             ELSE IF A[k - 1] = NoClass THEN NoClass ELSE classType[A[k - 1]].base
  <2>1. A = [k \in 0..n |-> IF k = 0 THEN c
                            ELSE IF A[k - 1] = NoClass THEN NoClass ELSE classType[A[k - 1]].base]
    BY <1>8
  <2> HIDE DEF A, n, Eq
  <2>2. QED BY <2>1
<1> HIDE DEF A, Eq
<1>10. /\ A[0] = c
       /\ \A k \in 1..n :
            A[k] = IF A[k - 1] = NoClass THEN NoClass ELSE classType[A[k - 1]].base
  <2>1. 0 \in 0..n /\ \A k \in 1..n : k \in 0..n /\ k # 0
    BY <1>1
  <2> HIDE DEF n
  <2>2. QED BY <1>9, <2>1
<1>11. \A k \in 0..n : A[k] \in V
  <2> DEFINE T == {k \in 0..n : A[k] \in V}
  <2>1. 0 \in T
    BY <1>1, <1>2, <1>10
  <2>2. ASSUME NEW k \in 0..(n - 1), k \in T
        PROVE  k + 1 \in T
    <3>1. k + 1 \in 1..n /\ k + 1 \in 0..n /\ (k + 1) - 1 = k
      BY <1>1
    <3>2. A[k + 1] = IF A[k] = NoClass THEN NoClass ELSE classType[A[k]].base
      <4> HIDE DEF n
      <4>1. A[k + 1] = IF A[(k + 1) - 1] = NoClass THEN NoClass ELSE classType[A[(k + 1) - 1]].base
        BY <3>1, <1>10
      <4>2. QED BY <3>1, <4>1
    <3>3. A[k + 1] \in V
      BY <2>2, <3>2 DEF ClassTypeOK
    <3>4. QED BY <3>1, <3>3
  <2>3. \A k \in 0..n : k \in T
    <3> HIDE DEF T, n
    <3>1. QED BY <1>1, <2>1, <2>2, InductionUpTo
  <2>4. QED BY <2>3
<1>12. QED BY <1>1, <1>10, <1>11 DEF A

\* Who has no base has no further ancestors.
LEMMA NoFurther ==
  ASSUME ClassTypeOK, NEW c \in Classes, NEW k \in 1..Cardinality(Classes), Ancestor(c)[k] = NoClass
  PROVE  \A j \in k..Cardinality(Classes) : Ancestor(c)[j] = NoClass
<1> DEFINE n == Cardinality(Classes)
           A == Ancestor(c)
           T == {j \in Nat : j \in k..n => A[j] = NoClass}
<1>1. n \in Nat /\ \A j \in 1..n : A[j - 1] = NoClass => A[j] = NoClass
  BY AncestorEquation
<1> HIDE DEF n, A
<1>2. A[k] = NoClass /\ k \in 1..n
  BY DEF A, n
<1>3. 0 \in T
  BY <1>2
<1>4. ASSUME NEW j \in Nat, j \in T
      PROVE  j + 1 \in T
  <2> SUFFICES ASSUME j + 1 \in k..n PROVE A[j + 1] = NoClass
    OBVIOUS
  <2>1. CASE j + 1 = k
    BY <1>2, <2>1
  <2>2. CASE j + 1 # k
    <3>1. j \in k..n /\ j + 1 \in 1..n /\ (j + 1) - 1 = j
      BY <1>1, <1>2, <2>2
    <3>2. A[j] = NoClass
      BY <1>4, <3>1
    <3>3. A[(j + 1) - 1] = NoClass => A[j + 1] = NoClass
      BY <1>1, <3>1
    <3>4. QED BY <3>1, <3>2, <3>3
  <2>3. QED BY <2>1, <2>2
<1>5. \A j \in Nat : j \in T
  <2> HIDE DEF T
  <2>1. QED BY <1>3, <1>4, Induction
<1>6. \A j \in k..n : j \in Nat
  BY <1>1, <1>2
<1>7. QED BY <1>5, <1>6 DEF A, n

-----------------------------------------------------------------------------
(* The way outwards *)

\* What is around a scope is entered from a scope on the way.
LEMMA ChildOnTheWay ==
  Tree => \A s \in Scopes : \A a \in Enclosing[s] \ {s} :
            \E t \in Enclosing[s] \ {Root} : tables[t].parent = a
<1> SUFFICES ASSUME Tree
             PROVE  \A s \in Scopes : \A a \in Enclosing[s] \ {s} :
                      \E t \in Enclosing[s] \ {Root} : tables[t].parent = a
  OBVIOUS
<1> DEFINE T == {s \in Nat : s \in Scopes => \A a \in Enclosing[s] \ {s} :
                               \E t \in Enclosing[s] \ {Root} : tables[t].parent = a}
<1>1. ASSUME NEW s \in Nat, \A m \in Nat : m < s => m \in T
      PROVE  s \in T
  <2> SUFFICES ASSUME s \in Scopes, NEW a \in Enclosing[s] \ {s}
               PROVE  \E t \in Enclosing[s] \ {Root} : tables[t].parent = a
    OBVIOUS
  <2> DEFINE p == tables[s].parent
  <2>1. Enclosing[s] = {s} \cup Enclosing[p] /\ Enclosing[0] = {} /\ p \in 0..(s - 1)
    BY EnclosingEquation DEF Tree
  <2>2. a \in Enclosing[p] /\ p # 0
    BY <2>1
  <2>3. s # Root /\ s \in Enclosing[s]
    BY <2>1, <2>2 DEF Tree, NoScope
  <2>4. CASE a = p
    BY <2>3, <2>4
  <2>5. CASE a # p
    <3>1. p \in Scopes /\ p \in Nat /\ p < s
      BY <2>1, <2>3, EnclosingFacts DEF Scopes
    <3>2. p \in T
      BY <1>1, <3>1
    <3>3. PICK t \in Enclosing[p] \ {Root} : tables[t].parent = a
      BY <2>2, <2>5, <3>1, <3>2
    <3>4. QED BY <2>1, <3>3
  <2>6. QED BY <2>4, <2>5
<1>2. \A s \in Nat : s \in T
  <2> HIDE DEF T
  <2>1. QED BY <1>1, StrongInduction
<1>3. QED BY <1>2 DEF Scopes

-----------------------------------------------------------------------------
(* What the walk has found out *)

\* Meanings are in the tables, the numbers and the classes.
LEMMA SameMeaning ==
  ASSUME UNCHANGED programVars
  PROVE  /\ Enclosing' = Enclosing /\ Scopes' = Scopes
         /\ \A use, s : Counts(use, s)' <=> Counts(use, s)
         /\ \A use, s : MeaningIn(use, s)' = MeaningIn(use, s)
         /\ \A use : Meaning(use)' = Meaning(use)
         /\ \A c : Ancestor(c)' = Ancestor(c)
<1>1. UNCHANGED <<tables, anchors, classType, members, uses>>
  BY DEF programVars, numVars, classVars
<1>2. Enclosing' = Enclosing /\ Scopes' = Scopes
  BY <1>1, SameTables
<1>3. \A use, s : Counts(use, s)' <=> Counts(use, s)
  BY <1>1 DEF Counts, IsClassScope
<1>4. \A c : Ancestor(c)' = Ancestor(c)
  BY <1>1 DEF Ancestor
<1>5. \A c, n : Inherited(c, n)' = Inherited(c, n)
  BY <1>1 DEF Inherited, Ancestor
<1>6. \A use, s : MeaningIn(use, s)' = MeaningIn(use, s)
  BY <1>1, <1>3, <1>5 DEF MeaningIn, IsClassScope
<1>7. \A use : Meaning(use)' = Meaning(use)
  BY <1>2, <1>6 DEF Meaning
<1>8. QED BY <1>2, <1>3, <1>4, <1>6, <1>7

\* The tables on the way out of the use.
LEMMA OnTheWay ==
  ASSUME IInv, SearchInv, step \in {"scope", "project", "fallback"}
  PROVE  /\ Tree /\ walk \in Scopes /\ cursor \in 1..Len(uses) /\ Len(resolved) = cursor - 1
         /\ trail \cup Enclosing[walk] = Enclosing[Use.scope] /\
             Enclosing[Use.scope] \subseteq Scopes
         /\ walk \in Enclosing[Use.scope] /\ Use.scope \in Scopes
         /\ \A s \in trail \ {walk} : MeaningIn(Use, s) = NoSymbol
         /\ Enclosing[walk] = {walk} \cup Enclosing[tables[walk].parent]
<1>1. Tree
  BY TreeOfInv
<1>2. /\ walk \in Scopes /\ cursor > 0 /\ Use.scope \in Scopes /\ walk \in trail
  BY WalkFacts, UseFacts
<1>3. cursor \in 1..Len(uses)
  BY <1>2 DEF IInv, WalkInv, TypeOK, ResolverTypeOK
<1>4. QED BY <1>1, <1>2, <1>3, EnclosingFacts, EnclosingEquation DEF SearchInv

\* The first table that gives the use a meaning decides.
LEMMA MeaningFound ==
  ASSUME IInv, SearchInv, step \in {"scope", "project", "fallback"},
         MeaningIn(Use, walk) # NoSymbol
  PROVE  Meaning(Use) = MeaningIn(Use, walk)
<1> DEFINE giving == {s \in Enclosing[Use.scope] : MeaningIn(Use, s) # NoSymbol}
<1>1. walk \in giving
  BY OnTheWay
<1>2. \A s \in giving : s \in Enclosing[walk]
  BY OnTheWay
<1>3. \A s \in giving : walk >= s
  <2>1. \A s \in Enclosing[walk] : s <= walk
    BY OnTheWay, EnclosingFacts
  <2>2. \A s \in giving : s \in Nat /\ walk \in Nat
    BY OnTheWay DEF Scopes
  <2>3. QED BY <1>2, <2>1, <2>2
<1>4. Max(giving) = walk
  <2>1. \A s \in giving : s \in Nat
    BY OnTheWay DEF Scopes
  <2> HIDE DEF giving
  <2>2. QED BY <1>1, <1>3, <2>1 DEF Max
<1>5. QED BY <1>1, <1>4 DEF Meaning

\* When the walk passes the root without a meaning, there is none.
LEMMA MeaningNotFound ==
  ASSUME IInv, SearchInv, step \in {"scope", "project", "fallback"},
         MeaningIn(Use, walk) = NoSymbol, tables[walk].parent = NoScope
  PROVE  Meaning(Use) = NoSymbol
<1>1. Enclosing[walk] = {walk}
  BY OnTheWay, EnclosingEquation DEF NoScope
<1>2. {s \in Enclosing[Use.scope] : MeaningIn(Use, s) # NoSymbol} = {}
  BY <1>1, OnTheWay
<1>3. QED BY <1>2 DEF Meaning

-----------------------------------------------------------------------------
(* What has been reported *)

UseErrors == {error \in errors : error.what = "use before def"}

\* The use in hand gets its meaning, or is reported.
LEMMA UseDone ==
  ASSUME IInv, ResolutionIsLexical, UNCHANGED programVars, cursor \in 1..Len(uses),
         Len(resolved) = cursor - 1, NEW symbol, resolved' = Append(resolved, symbol),
         symbol = Meaning(Use),
         UseErrors' = IF symbol = NoSymbol THEN UseErrors \cup {Unresolved(Use)} ELSE UseErrors
  PROVE  ResolutionIsLexical'
<1>1. uses' = uses /\ uses \in Seq(UseType) /\ resolved \in Seq(SymbolType)
  BY DEF programVars, IInv, TypeOK, BuilderTypeOK, ResolverTypeOK
<1>2. /\ Len(resolved') = cursor /\ resolved'[cursor] = symbol
      /\ \A i \in 1..(cursor - 1) : resolved'[i] = resolved[i]
      /\ \A i \in 1..cursor : i \in 1..(cursor - 1) \/ i = cursor
      /\ 1..(cursor - 1) \subseteq 1..cursor /\ cursor \in 1..cursor /\
          cursor \notin 1..(cursor - 1)
  BY <1>1
<1>3. /\ \A i \in 1..(cursor - 1) : resolved[i] = Meaning(uses[i])
      /\ UseErrors = {Unresolved(uses[i]) : i \in {j \in 1..(cursor - 1) : resolved[j] = NoSymbol}}
  BY DEF ResolutionIsLexical, UseErrors
<1>4. \A i \in 1..Len(resolved') : resolved'[i] = Meaning(uses[i])'
  <2>1. \A i \in 1..cursor : Meaning(uses[i])' = Meaning(uses[i])
    BY <1>1, SameMeaning
  <2>2. \A i \in 1..cursor : resolved'[i] = Meaning(uses[i])
    BY <1>2, <1>3 DEF Use
  <2>3. QED BY <1>2, <2>1, <2>2
<1>5. UseErrors' = {Unresolved(uses[i])' :
                      i \in {j \in 1..Len(resolved') : resolved'[j] = NoSymbol}}
  <2>1. \A u : Unresolved(u)' = Unresolved(u)
    BY DEF Unresolved
  <2> DEFINE Before == {j \in 1..(cursor - 1) : resolved[j] = NoSymbol}
             After == {j \in 1..Len(resolved') : resolved'[j] = NoSymbol}
  <2>2. After = IF symbol = NoSymbol THEN Before \cup {cursor} ELSE Before
    BY <1>2
  <2>3. {Unresolved(uses[i])' : i \in After} = {Unresolved(uses[i]) : i \in After}
    BY <1>1 DEF Unresolved
  <2> HIDE DEF Before, After
  <2>4. UseErrors = {Unresolved(uses[i]) : i \in Before}
    BY <1>3 DEF Before
  <2>5. UseErrors' = {Unresolved(uses[i]) : i \in After}
    <3>1. CASE symbol = NoSymbol
      BY <2>2, <2>4, <3>1 DEF Use
    <3>2. CASE symbol # NoSymbol
      BY <2>2, <2>4, <3>2
    <3>3. QED BY <3>1, <3>2
  <2>6. QED BY <2>3, <2>5 DEF After
<1>6. QED BY <1>4, <1>5 DEF ResolutionIsLexical, UseErrors

\* Nothing more is known of the uses.
LEMMA UsesStand ==
  ASSUME IInv, ResolutionIsLexical, UNCHANGED programVars, UNCHANGED resolved,
         UseErrors' = UseErrors
  PROVE  ResolutionIsLexical'
<1>1. uses' = uses
  BY DEF programVars
<1>2. \A i \in 1..Len(resolved') : resolved'[i] = Meaning(uses[i])'
  BY <1>1, SameMeaning DEF ResolutionIsLexical
<1>3. {Unresolved(uses[i])' : i \in {j \in 1..Len(resolved') : resolved'[j] = NoSymbol}} =
        {Unresolved(uses[i]) : i \in {j \in 1..Len(resolved) : resolved[j] = NoSymbol}}
  BY <1>1 DEF Unresolved
<1>4. QED BY <1>2, <1>3 DEF ResolutionIsLexical, UseErrors

\* The other errors are not those of unresolved uses.
LEMMA OtherErrors ==
  ASSUME NEW what, what # "use before def", NEW s, NEW id, NEW n, AddError(what, s, id, n)
  PROVE  UseErrors' = UseErrors
<1> DEFINE error == [what |-> what, scope |-> s, id |-> id, name |-> n]
<1>1. errors' = errors \cup {error} /\ error.what # "use before def"
  BY DEF AddError
<1> HIDE DEF error
<1>2. QED BY <1>1 DEF UseErrors

-----------------------------------------------------------------------------
(* How a table is left *)

\* The walk goes on when the table at hand gives no meaning.
LEMMA WalkOnSearch ==
  ASSUME IInv, SearchInv, ResolutionIsLexical, step \in {"scope", "project", "fallback"},
         UNCHANGED <<cursor, programVars>>, MeaningIn(Use, walk) = NoSymbol, WalkOn
  PROVE  SearchInv' /\ ResolutionIsLexical'
<1> DEFINE p == tables[walk].parent
<1>1. UNCHANGED <<tables, uses>> /\ Use' = Use
  BY DEF programVars, Use
<1>2. resolved \in Seq(SymbolType) /\ cursor \in 1..Len(uses) /\ Len(resolved) = cursor - 1
  BY OnTheWay DEF IInv, TypeOK, ResolverTypeOK
<1>3. CASE p = NoScope
  <2>1. /\ resolved' = Append(resolved, NoSymbol) /\ step' = "next"
        /\ errors' = errors \cup {Unresolved(Use)}
    BY <1>3 DEF WalkOn, Advance, AddError, Unresolved
  <2>2. Meaning(Use) = NoSymbol
    BY <1>3, MeaningNotFound
  <2>3. UseErrors' = UseErrors \cup {Unresolved(Use)}
    <3>1. Unresolved(Use).what = "use before def"
      BY DEF Unresolved
    <3>2. QED BY <2>1, <3>1 DEF UseErrors
  <2>4. ResolutionIsLexical'
    BY <1>2, <2>1, <2>2, <2>3, UseDone
  <2>5. Len(resolved') = cursor
    BY <1>2, <2>1
  <2>6. SearchInv'
    BY <2>1, <2>5 DEF SearchInv
  <2>7. QED BY <2>4, <2>6
<1>4. CASE p # NoScope
  <2>1. /\ walk' = p /\ trail' = trail \cup {p} /\ step' = "scope"
        /\ UNCHANGED <<resolved, errors>>
    BY <1>4 DEF WalkOn
  <2>2. ResolutionIsLexical'
    BY <2>1, UsesStand DEF UseErrors
  <2>3. p \in Scopes /\ p \in Enclosing[p] /\ walk \in trail
    <3>1. walk # Root
      BY <1>4, OnTheWay DEF Tree
    <3>2. QED BY <3>1, OnTheWay, EnclosingFacts, WalkFacts
  <2>4. trail' \cup Enclosing'[walk'] = Enclosing'[Use'.scope]
    BY <1>1, <2>1, <2>3, OnTheWay, SameMeaning
  <2>5. \A s \in trail' \ {walk'} : MeaningIn(Use, s)' = NoSymbol
    <3>1. \A s \in trail' \ {walk'} : MeaningIn(Use, s) = NoSymbol
      BY <2>1, OnTheWay
    <3>2. \A s : MeaningIn(Use, s)' = MeaningIn(Use, s)
      <4>1. \A use, s : MeaningIn(use, s)' = MeaningIn(use, s)
        BY SameMeaning
      <4>2. QED BY <1>1, <4>1 DEF MeaningIn, Counts
    <3>3. QED BY <3>1, <3>2
  <2>6. SearchInv'
    BY <1>2, <2>1, <2>4, <2>5 DEF SearchInv
  <2>7. QED BY <2>2, <2>6
<1>5. QED BY <1>3, <1>4

\* The walk ends at the table that gives the meaning.
LEMMA BindSearch ==
  ASSUME IInv, SearchInv, ResolutionIsLexical, step \in {"scope", "project", "fallback"},
         UNCHANGED <<cursor, programVars>>, NEW symbol, symbol # NoSymbol,
         MeaningIn(Use, walk) = symbol, Bind(symbol)
  PROVE  SearchInv' /\ ResolutionIsLexical'
<1>1. resolved \in Seq(SymbolType) /\ cursor \in 1..Len(uses) /\ Len(resolved) = cursor - 1
  BY OnTheWay DEF IInv, TypeOK, ResolverTypeOK
<1>2. resolved' = Append(resolved, symbol)
  BY DEF Bind
<1>3. step' \in {"next", "receiver"} /\ UseErrors' = UseErrors
  <2>1. UNCHANGED errors => UseErrors' = UseErrors
    BY DEF UseErrors
  <2>2. \A s, id, n : /\ AddError("not a function", s, id, n) => UseErrors' = UseErrors
                      /\ AddError("not a class object", s, id, n) => UseErrors' = UseErrors
                      /\ AddError("unknown class", s, id, n) => UseErrors' = UseErrors
    BY OtherErrors
  <2>3. QED BY <2>1, <2>2 DEF Bind, Advance
<1>4. ResolutionIsLexical'
  BY <1>1, <1>2, <1>3, MeaningFound, UseDone
<1>5. Len(resolved') = cursor
  BY <1>1, <1>2
<1>6. SearchInv'
  BY <1>3, <1>5 DEF SearchInv
<1>7. QED BY <1>4, <1>6

\* What NotHere does next when the symbol does not count: it climbs, or asks the
\* base classes.
LEMMA NotHereSearch ==
  ASSUME IInv, SearchInv, ResolutionIsLexical, step \in {"scope", "project"},
         UNCHANGED <<cursor, programVars>>, ~Counts(Use, walk), NotHere
  PROVE  SearchInv' /\ ResolutionIsLexical'
<1>1. UNCHANGED <<tables, uses>> /\ Use' = Use
  BY DEF programVars, Use
<1>2. CASE IsClassScope(walk) /\ Use.form.kind = "call"
  <2>1. PICK c, n : c = tables[walk].name /\ n = Use.form.name
    OBVIOUS
  <2>2. /\ step' = "fallback" /\ lookup' = [class |-> c, visited |-> {c}]
        /\ UNCHANGED <<walk, trail, resolved, errors>>
    BY <1>2, <2>1 DEF NotHere, StartLookup
  <2>3. c \in Classes /\ ClassTypeOK
    BY <1>2, <2>1, WalkFacts DEF IInv, TypeOK
  <2>4. Ancestor(c)'[0] = c
    BY <2>3, AncestorEquation, SameMeaning
  <2>5. 0 < Cardinality(Classes) /\ Cardinality({c}) = 1
    <3>1. Cardinality({c}) = 1
      BY FS_Singleton
    <3>2. Cardinality(Classes) \in Nat /\ Cardinality(Classes) # 0
      BY <2>3, ClassesAssumption, FS_EmptySet, FS_CardinalityType
    <3>3. QED BY <3>1, <3>2
  <2>6. LookedUp(c, n, 0)'
    <3>1. /\ lookup'.class = Ancestor(c)'[0] /\ lookup'.class \in lookup'.visited
          /\ Cardinality(lookup'.visited) = 0 + 1
      BY <2>2, <2>4, <2>5
    <3>2. 0..(0 - 1) = {}
      OBVIOUS
    <3>3. QED BY <2>5, <3>1, <3>2 DEF LookedUp
  <2>7. \E k \in Nat : LookedUp(tables[walk].name, Use.form.name, k)'
    <3>1. 0 \in Nat
      OBVIOUS
    <3>2. tables'[walk'].name = c /\ Use'.form.name = n
      BY <1>1, <2>1, <2>2
    <3>3. QED BY <2>6, <3>1, <3>2
  <2>8. ResolutionIsLexical'
    BY <2>2, UsesStand DEF UseErrors
  <2>9. trail' \cup Enclosing'[walk'] = Enclosing'[Use'.scope]
    BY <1>1, <2>2, OnTheWay, SameMeaning
  <2>10. \A s \in trail' \ {walk'} : MeaningIn(Use, s)' = NoSymbol
    <3>1. \A s : MeaningIn(Use, s)' = MeaningIn(Use, s)
      <4>1. \A use, s : MeaningIn(use, s)' = MeaningIn(use, s)
        BY SameMeaning
      <4>2. QED BY <1>1, <4>1 DEF MeaningIn, Counts
    <3>2. QED BY <2>2, <3>1, OnTheWay
  <2>11. IsClassScope(walk)' /\ Use'.form.kind = "call" /\ ~Counts(Use, walk)'
    BY <1>1, <1>2, <2>2, SameMeaning DEF IsClassScope, Counts
  <2>12. Len(resolved') = cursor' - 1
    BY <2>2, OnTheWay
  <2>13. SearchInv'
    BY <2>2, <2>7, <2>9, <2>10, <2>11, <2>12 DEF SearchInv
  <2>14. QED BY <2>8, <2>13
<1>3. CASE ~(IsClassScope(walk) /\ Use.form.kind = "call")
  <2>1. MeaningIn(Use, walk) = NoSymbol /\ WalkOn
    BY <1>3 DEF MeaningIn, NotHere
  <2>2. QED BY <2>1, WalkOnSearch
<1>4. QED BY <1>2, <1>3

-----------------------------------------------------------------------------
(* Numbers decide what counts *)

\* What the numbers say of the symbol in hand.
LEMMA NumbersHere ==
  ASSUME IInv, LexicalInv, SearchInv, step \in {"scope", "project", "fallback"},
         SymbolHere # NoSymbol
  PROVE  /\ SymbolHere.id \in Nat /\ SymbolHere.scope = walk
         /\ walk = Use.scope => (walk \in Use.before <=> SymbolHere.id < Use.ref.id)
         /\ \A t \in Enclosing[Use.scope] \ {Root} : tables[t].parent = walk =>
              /\ walk \in Use.before <=> SymbolHere.id < anchors[t].id
              /\ anchors[t].id >= 1
         /\ Use.ref.id >= 1
<1>1. SymbolHere.id \in Nat /\ SymbolHere.scope = walk
  BY WalkFacts DEF SymbolType
<1>2. cursor \in 1..Len(uses) /\ Enclosing[Use.scope] \subseteq Scopes
  BY OnTheWay
<1>3. BeforeInv /\ NumbersInv
  BY DEF LexicalInv
<1> DEFINE n == Use.form.name
<1>4. /\ Declared(Use.scope, n) =>
           (Use.scope \in Use.before <=> NumberOf(Use.scope, n) < Use.ref.id)
      /\ \A t \in Enclosing[Use.scope] \ {Root} : Declared(tables[t].parent, n) =>
           (tables[t].parent \in Use.before <=> NumberOf(tables[t].parent, n) < anchors[t].id)
  BY <1>2, <1>3 DEF BeforeInv, Use
<1>5. Declared(walk, n) /\ NumberOf(walk, n) = SymbolHere.id
  BY DEF Declared, NumberOf, SymbolHere
<1>6. Use.ref.id >= 1 /\ \A s \in Scopes \ {Root} : anchors[s].id >= 1
  BY <1>2, <1>3 DEF NumbersInv, Use
<1> HIDE DEF n
<1>7. QED BY <1>1, <1>2, <1>4, <1>5, <1>6

\* A symbol that VisibleAnywhere or an earlier position makes count.
LEMMA VisibleCounts ==
  ASSUME IInv, LexicalInv, SearchInv, step \in {"scope", "project", "fallback"},
         SymbolHere # NoSymbol
  PROVE  Counts(Use, walk) <=> walk \in Use.before \/ VisibleAnywhere(SymbolHere)
<1>1. SymbolHere.id = 0 => walk \in Use.before
  <2> SUFFICES ASSUME SymbolHere.id = 0 PROVE walk \in Use.before
    OBVIOUS
  <2>1. CASE walk = Use.scope
    <3>1. Use.ref.id \in Nat /\ Use.ref.id >= 1
      BY NumbersHere, OnTheWay, UseFacts
    <3>2. QED BY <2>1, <3>1, NumbersHere
  <2>2. CASE walk # Use.scope
    <3>1. PICK t \in Enclosing[Use.scope] \ {Root} : tables[t].parent = walk
      BY <2>2, OnTheWay, ChildOnTheWay
    <3>2. anchors[t].id \in Nat
      BY <3>1, TreeOfInv, OnTheWay DEF AnchorsTyped
    <3>3. QED BY <3>1, <3>2, NumbersHere
  <2>3. QED BY <2>1, <2>2
<1>2. SymbolHere.scope = walk
  BY NumbersHere
<1>3. QED BY <1>1, <1>2 DEF Counts, VisibleAnywhere, ForwardUseAllowed, SymbolHere

\* Comparing the numbers in one scope says whether the symbol counts.
LEMMA ComparisonCounts ==
  ASSUME IInv, LexicalInv, SearchInv, step = "project", proj.scope = SymbolHere.scope
  PROVE  /\ SymbolHere # NoSymbol
         /\ Counts(Use, walk) <=> DeclaredBefore(SymbolHere, proj)
<1>1. /\ SymbolHere # NoSymbol /\ ~VisibleAnywhere(SymbolHere)
      /\ proj = Use.ref \/ \E t \in Enclosing[Use.scope] : proj = anchors[t]
  BY DEF IInv, WalkInv, SearchInv
<1>2. proj.scope = walk
  BY <1>1, NumbersHere
<1>3. CASE proj = Use.ref
  <2>1. walk = Use.scope
    BY <1>2, <1>3, OnTheWay, UseFacts
  <2>2. QED BY <1>1, <1>3, <2>1, NumbersHere, VisibleCounts DEF DeclaredBefore
<1>4. CASE \E t \in Enclosing[Use.scope] : proj = anchors[t]
  <2>1. PICK t \in Enclosing[Use.scope] : proj = anchors[t]
    BY <1>4
  <2>2. tables[t].parent = walk /\ t # Root
    <3>1. t \in Scopes /\ anchors[t].scope = tables[t].parent
      BY OnTheWay DEF IInv, ScopesAgree
    <3>2. walk # NoScope
      BY OnTheWay DEF Scopes, NoScope
    <3>3. QED BY <1>2, <2>1, <3>1, <3>2, OnTheWay DEF Tree
  <2>3. QED BY <1>1, <2>1, <2>2, NumbersHere, VisibleCounts DEF DeclaredBefore
<1>5. QED BY <1>1, <1>3, <1>4

-----------------------------------------------------------------------------
(* One lemma per action of the resolver *)

\* Nothing changes but the phase.
LEMMA SearchStays ==
  ASSUME IInv, SearchInv, ResolutionIsLexical, UNCHANGED <<programVars, resolverVars, errors>>
  PROVE  SearchInv' /\ ResolutionIsLexical'
<1>1. UNCHANGED <<tables, anchors, uses, cursor, step, walk, proj, lookup, trail, resolved>>
      /\ Use' = Use /\ SymbolHere' = SymbolHere /\ UNCHANGED <<classType, members>>
  BY DEF programVars, resolverVars, numVars, classVars, Use, SymbolHere
<1>2. ResolutionIsLexical'
  BY <1>1, UsesStand DEF UseErrors
<1>3. MeaningIn(Use, walk)' = MeaningIn(Use, walk) /\ \A s : MeaningIn(Use, s)' = MeaningIn(Use, s)
  <2>1. \A use, s : MeaningIn(use, s)' = MeaningIn(use, s)
    BY SameMeaning
  <2>2. QED BY <1>1, <2>1 DEF MeaningIn, Counts
<1>4. Counts(Use, walk)' <=> Counts(Use, walk)
  BY <1>1 DEF Counts, IsClassScope
<1>5. \A c, n, k : LookedUp(c, n, k)' <=> LookedUp(c, n, k)
  BY <1>1 DEF LookedUp, Ancestor
<1>6. VisibleAnywhere(SymbolHere)' <=> VisibleAnywhere(SymbolHere)
  BY <1>1 DEF VisibleAnywhere, ForwardUseAllowed, IsClassScope
<1>7. Enclosing' = Enclosing
  BY SameMeaning
<1>8. (\E k \in Nat : LookedUp(tables[walk].name, Use.form.name, k)) =>
        (\E k \in Nat : LookedUp(tables[walk].name, Use.form.name, k)')
  <2>1. PICK c, n : c = tables[walk].name /\ n = Use.form.name
    OBVIOUS
  <2>2. c = tables'[walk'].name /\ n = Use'.form.name
    BY <1>1, <2>1
  <2>3. QED BY <1>5, <2>1, <2>2
<1>9. SearchInv'
  BY <1>1, <1>3, <1>4, <1>6, <1>7, <1>8 DEF SearchInv, IsClassScope
<1>10. QED BY <1>2, <1>9

\* The next use.
LEMMA BeginUseSearch ==
  ASSUME IInv, IInv', SearchInv, ResolutionIsLexical, BeginUse
  PROVE  SearchInv' /\ ResolutionIsLexical'
<1>1. /\ UNCHANGED programVars /\ UNCHANGED <<uses, tables, resolved, errors>> /\ step = "next"
      /\ cursor' = cursor + 1 /\ step' = "scope" /\ walk' = uses[cursor + 1].scope
      /\ trail' = {uses[cursor + 1].scope} /\ cursor \in Nat
  BY DEF BeginUse, Resolving, programVars, IInv, TypeOK, ResolverTypeOK
<1>2. ResolutionIsLexical'
  BY <1>1, UsesStand DEF UseErrors
<1>3. Use'.scope = walk' /\ trail' = {walk'}
  BY <1>1 DEF Use
<1>4. walk' \in Enclosing'[walk']
  <2>1. Enclosing' = Enclosing /\ Scopes' = Scopes
    BY <1>1, SameMeaning
  <2>2. walk' \in Scopes
    BY <1>1, <2>1 DEF IInv, WalkInv
  <2>3. QED BY <2>1, <2>2, TreeOfInv, EnclosingFacts
<1>5. Len(resolved') = cursor' - 1
  BY <1>1 DEF SearchInv
<1>6. SearchInv'
  BY <1>1, <1>3, <1>4, <1>5 DEF SearchInv
<1>7. QED BY <1>2, <1>6

\* A table is asked for the name.
LEMMA LookInTableSearch ==
  ASSUME IInv, LexicalInv, SearchInv, ResolutionIsLexical, LookInTable
  PROVE  SearchInv' /\ ResolutionIsLexical'
<1>1. UNCHANGED programVars /\ UNCHANGED cursor /\ step = "scope" /\ UNCHANGED <<tables, uses>>
  BY DEF LookInTable, Resolving, programVars
<1>2. CASE SymbolHere = NoSymbol
  <2>1. NotHere /\ ~Counts(Use, walk)
    BY <1>2 DEF LookInTable, Counts, SymbolHere
  <2>2. QED BY <1>1, <2>1, NotHereSearch
<1>3. CASE SymbolHere # NoSymbol /\ VisibleAnywhere(SymbolHere)
  <2>1. Bind(SymbolHere)
    BY <1>3 DEF LookInTable
  <2>2. MeaningIn(Use, walk) = SymbolHere
    BY <1>1, <1>3, VisibleCounts DEF MeaningIn, SymbolHere
  <2> DEFINE symbol == SymbolHere
  <2>3. symbol # NoSymbol /\ MeaningIn(Use, walk) = symbol /\ Bind(symbol)
    BY <1>3, <2>1, <2>2
  <2> HIDE DEF symbol
  <2>4. QED BY <1>1, <2>3, BindSearch
<1>4. CASE SymbolHere # NoSymbol /\ ~VisibleAnywhere(SymbolHere)
  <2>1. step' = "project" /\ proj' = Use.ref /\ UNCHANGED <<walk, lookup, trail, resolved, errors>>
    BY <1>4 DEF LookInTable
  <2>2. Use' = Use /\ SymbolHere' = SymbolHere
    BY <1>1, <2>1 DEF Use, SymbolHere
  <2>3. ResolutionIsLexical'
    BY <1>1, <2>1, UsesStand DEF UseErrors
  <2>4. ~VisibleAnywhere(SymbolHere)'
    BY <1>1, <1>4, <2>2 DEF VisibleAnywhere, ForwardUseAllowed, IsClassScope
  <2>5. trail' \cup Enclosing'[walk'] = Enclosing'[Use'.scope]
    BY <1>1, <2>1, <2>2, OnTheWay, SameMeaning
  <2>6. \A s \in trail' \ {walk'} : MeaningIn(Use, s)' = NoSymbol
    <3>1. \A s : MeaningIn(Use, s)' = MeaningIn(Use, s)
      <4>1. \A use, s : MeaningIn(use, s)' = MeaningIn(use, s)
        BY <1>1, SameMeaning
      <4>2. QED BY <2>2, <4>1 DEF MeaningIn, Counts
    <3>2. QED BY <1>1, <2>1, <3>1, OnTheWay
  <2>7. Len(resolved') = cursor' - 1
    BY <1>1, <2>1, OnTheWay
  <2>8. SearchInv'
    BY <2>1, <2>2, <2>4, <2>5, <2>6, <2>7 DEF SearchInv
  <2>9. QED BY <2>3, <2>8
<1>5. QED BY <1>2, <1>3, <1>4

\* The use is projected one scope up.
LEMMA ClimbSearch ==
  ASSUME IInv, LexicalInv, SearchInv, ResolutionIsLexical, Climb
  PROVE  SearchInv' /\ ResolutionIsLexical'
<1>1. UNCHANGED programVars /\ step = "project" /\ UNCHANGED <<tables, uses, anchors>>
  BY DEF Climb, Resolving, programVars, numVars
<1>2. CASE proj.scope = NoScope
  <2>1. UNCHANGED <<programVars, resolverVars, errors>>
    BY <1>1, <1>2 DEF Climb, Abort
  <2>2. QED BY <2>1, SearchStays
<1>3. CASE proj.scope # NoScope
  <2>1. /\ proj' = anchors[proj.scope]
        /\ UNCHANGED <<cursor, step, walk, lookup, trail, resolved, errors>>
    BY <1>3 DEF Climb
  <2>2. Use' = Use /\ SymbolHere' = SymbolHere
    BY <1>1, <2>1 DEF Use, SymbolHere
  <2>3. ResolutionIsLexical'
    BY <1>1, <2>1, UsesStand DEF UseErrors
  <2>4. ~VisibleAnywhere(SymbolHere)'
    BY <1>1, <2>2 DEF SearchInv, VisibleAnywhere, ForwardUseAllowed, IsClassScope
  <2>5. trail' \cup Enclosing'[walk'] = Enclosing'[Use'.scope]
    BY <1>1, <2>1, <2>2, OnTheWay, SameMeaning
  <2>6. \A s \in trail' \ {walk'} : MeaningIn(Use, s)' = NoSymbol
    <3>1. \A s : MeaningIn(Use, s)' = MeaningIn(Use, s)
      <4>1. \A use, s : MeaningIn(use, s)' = MeaningIn(use, s)
        BY <1>1, SameMeaning
      <4>2. QED BY <2>2, <4>1 DEF MeaningIn, Counts
    <3>2. QED BY <1>1, <2>1, <3>1, OnTheWay
  <2>7. \E t \in Enclosing'[Use'.scope] : proj' = anchors'[t]
    <3>1. proj.scope \in Enclosing[Use.scope]
      BY <1>1, OnTheWay DEF IInv, WalkInv
    <3>2. QED BY <1>1, <2>1, <2>2, <3>1, SameMeaning
  <2>8. Len(resolved') = cursor' - 1
    BY <1>1, <2>1, OnTheWay
  <2>9. SearchInv'
    BY <1>1, <2>1, <2>2, <2>4, <2>5, <2>6, <2>7, <2>8 DEF SearchInv
  <2>10. QED BY <2>3, <2>9
<1>4. QED BY <1>2, <1>3

\* Use and declaration are statements of one scope: their numbers decide.
LEMMA CompareNumbersSearch ==
  ASSUME IInv, LexicalInv, SearchInv, ResolutionIsLexical, CompareNumbers
  PROVE  SearchInv' /\ ResolutionIsLexical'
<1>1. /\ UNCHANGED programVars /\ UNCHANGED cursor /\ step = "project"
      /\ proj.scope = SymbolHere.scope
  BY DEF CompareNumbers, Resolving
<1>2. SymbolHere # NoSymbol /\ (Counts(Use, walk) <=> DeclaredBefore(SymbolHere, proj))
  BY <1>1, ComparisonCounts
<1>3. CASE DeclaredBefore(SymbolHere, proj)
  <2> DEFINE symbol == SymbolHere
  <2>1. symbol # NoSymbol /\ MeaningIn(Use, walk) = symbol /\ Bind(symbol)
    BY <1>2, <1>3 DEF CompareNumbers, MeaningIn, SymbolHere
  <2> HIDE DEF symbol
  <2>2. QED BY <1>1, <2>1, BindSearch
<1>4. CASE ~DeclaredBefore(SymbolHere, proj)
  <2>1. NotHere
    BY <1>4 DEF CompareNumbers
  <2>2. QED BY <1>1, <1>2, <1>4, <2>1, NotHereSearch
<1>5. QED BY <1>3, <1>4

-----------------------------------------------------------------------------
(* Looking in the classes *)

\* Where the lookup of the fallback stands.
LEMMA LookupStands ==
  ASSUME IInv, LexicalInv, SearchInv, step = "fallback"
  PROVE  \E c \in Classes, n \in Names, k \in Nat :
           /\ c = tables[walk].name /\ n = Use.form.name /\ n = Wanted /\ LookedUp(c, n, k)
           /\ lookup.class \in Classes /\ lookup.class = Ancestor(c)[k]
           /\ k \in 0..Cardinality(Classes) /\ k + 1 \in 1..Cardinality(Classes)
           /\ Ancestor(c)[k + 1] = BaseOf(lookup)
           /\ MeaningIn(Use, walk) = Inherited(c, n)
<1>1. PICK k \in Nat : LookedUp(tables[walk].name, Use.form.name, k)
  BY DEF SearchInv
<1> DEFINE c == tables[walk].name
           n == Use.form.name
<1>2. c \in Classes /\ n \in Names /\ ClassTypeOK
  BY WalkFacts, UseFacts DEF SearchInv, IInv, TypeOK
<1>3. n = Wanted /\ lookup.class \in Classes
  BY DEF Wanted, IInv, WalkInv
<1>4. MeaningIn(Use, walk) = Inherited(c, n)
  BY DEF SearchInv, MeaningIn
<1> HIDE DEF c, n
<1>5. LookedUp(c, n, k)
  BY <1>1 DEF c, n
<1>6. /\ k < Cardinality(Classes) /\ Cardinality(Classes) \in Nat
      /\ lookup.class = Ancestor(c)[k]
  BY <1>2, <1>5, AncestorEquation DEF LookedUp
<1>7. k \in 0..Cardinality(Classes) /\ k + 1 \in 1..Cardinality(Classes) /\ (k + 1) - 1 = k
  BY <1>6
<1>8. Ancestor(c)[k + 1] = BaseOf(lookup)
  <2>1. Ancestor(c)[k + 1] = IF Ancestor(c)[(k + 1) - 1] = NoClass THEN NoClass
                             ELSE classType[Ancestor(c)[(k + 1) - 1]].base
    BY <1>2, <1>7, AncestorEquation
  <2>2. Ancestor(c)[k] # NoClass
    BY <1>3, <1>6, NoClassAssumption
  <2>3. QED BY <1>6, <1>7, <2>1, <2>2 DEF BaseOf
<1>9. QED BY <1>2, <1>3, <1>4, <1>5, <1>6, <1>7, <1>8 DEF c, n

\* A step up from the class c that finds the member n.
HasMember(c, n, k) ==
  /\ Ancestor(c)[k] # NoClass
  /\ classType[Ancestor(c)[k]].decl # 0
  /\ members[classType[Ancestor(c)[k]].decl][n] # NoMember

\* The first class on the way up that has the member.
LEMMA InheritedFound ==
  ASSUME NEW c \in Classes, NEW n \in Names, NEW k \in Nat, LookedUp(c, n, k), ClassTypeOK,
         lookup.class \in Classes, FoundMember(lookup, n) # NoMember
  PROVE  Inherited(c, n) =
           IF FoundMember(lookup, n).kind # "Method" THEN NoSymbol
           ELSE Symbol("Function", [scope |-> DeclOf(lookup), id |-> FoundMember(lookup, n).id],
                       NoClass)
<1> DEFINE N == Cardinality(Classes)
           has == {j \in 0..N : HasMember(c, n, j)}
<1>1. /\ N \in Nat /\ k < N /\ lookup.class = Ancestor(c)[k]
      /\ \A j \in 0..(k - 1) : ~HasMember(c, n, j)
  BY AncestorEquation DEF LookedUp, HasMember
<1>2. /\ DeclOf(lookup) # 0 /\ DeclOf(lookup) = classType[Ancestor(c)[k]].decl
      /\ FoundMember(lookup, n) = members[DeclOf(lookup)][n]
  BY <1>1 DEF FoundMember, DeclOf
<1>3. HasMember(c, n, k)
  BY <1>1, <1>2, NoClassAssumption DEF HasMember
<1>4. k \in has
  BY <1>1, <1>3
<1>5. \A j \in has : j \in Nat /\ k <= j
  BY <1>1
<1>6. Min(has) = k
  <2> HIDE DEF has
  <2>1. \A j \in has : (\A i \in has : j <= i) => j = k
    BY <1>4, <1>5
  <2>2. \A i \in has : k <= i
    BY <1>5
  <2>3. QED BY <1>4, <2>1, <2>2 DEF Min
<1>7. has = {j \in 0..N : /\ Ancestor(c)[j] # NoClass
                          /\ classType[Ancestor(c)[j]].decl # 0
                          /\ members[classType[Ancestor(c)[j]].decl][n] # NoMember}
  BY DEF HasMember
<1>8. Inherited(c, n) =
        IF has = {} \/ members[classType[Ancestor(c)[Min(has)]].decl][n].kind # "Method"
        THEN NoSymbol
        ELSE Symbol("Function", [scope |-> classType[Ancestor(c)[Min(has)]].decl,
                                 id |-> members[classType[Ancestor(c)[Min(has)]].decl][n].id],
                    NoClass)
  <2> HIDE DEF has
  <2>1. QED BY <1>7 DEF Inherited
<1> HIDE DEF has
<1>9. QED BY <1>2, <1>4, <1>6, <1>8

\* When the lookup has seen the last class above c, c inherits no n.
LEMMA InheritedNotFound ==
  ASSUME NEW c \in Classes, NEW n \in Names, NEW k \in Nat, LookedUp(c, n, k), ClassTypeOK, BaseInv,
         lookup.class \in Classes, FoundMember(lookup, n) = NoMember,
         DeclOf(lookup) = 0 \/ BaseOf(lookup) = NoClass,
         k + 1 \in 1..Cardinality(Classes), Ancestor(c)[k + 1] = BaseOf(lookup)
  PROVE  Inherited(c, n) = NoSymbol
<1> DEFINE N == Cardinality(Classes)
           has == {j \in 0..N : HasMember(c, n, j)}
<1>1. /\ N \in Nat /\ k < N /\ lookup.class = Ancestor(c)[k]
      /\ \A j \in 0..(k - 1) : ~HasMember(c, n, j)
  BY AncestorEquation DEF LookedUp, HasMember
<1>2. ~HasMember(c, n, k)
  BY <1>1 DEF HasMember, FoundMember, DeclOf
<1>3. Ancestor(c)[k + 1] = NoClass
  BY DEF BaseInv, DeclOf, BaseOf
<1>4. \A j \in (k + 1)..N : ~HasMember(c, n, j)
  BY <1>3, NoFurther DEF HasMember
<1>5. \A j \in 0..N : j \in 0..(k - 1) \/ j = k \/ j \in (k + 1)..N
  BY <1>1
<1>6. has = {}
  BY <1>1, <1>2, <1>4, <1>5
<1>7. has = {j \in 0..N : /\ Ancestor(c)[j] # NoClass
                          /\ classType[Ancestor(c)[j]].decl # 0
                          /\ members[classType[Ancestor(c)[j]].decl][n] # NoMember}
  BY DEF HasMember
<1> HIDE DEF has
<1>8. QED BY <1>6, <1>7 DEF Inherited

\* A base class has the method.
LEMMA BindBaseMethodSearch ==
  ASSUME IInv, LexicalInv, SearchInv, ResolutionIsLexical, BindBaseMethod
  PROVE  SearchInv' /\ ResolutionIsLexical'
<1>1. UNCHANGED programVars /\ UNCHANGED cursor /\ step = "fallback"
  BY DEF BindBaseMethod, Resolving
<1>2. PICK c \in Classes, n \in Names, k \in Nat :
        /\ n = Wanted /\ LookedUp(c, n, k) /\ lookup.class \in Classes
        /\ MeaningIn(Use, walk) = Inherited(c, n)
  BY <1>1, LookupStands
<1> DEFINE symbol == Symbol("Function",
                            [scope |-> DeclOf(lookup), id |-> FoundMember(lookup, n).id],
                            NoClass)
<1>3. Bind(symbol) /\ FoundMember(lookup, n).kind = "Method"
  BY <1>2 DEF BindBaseMethod
<1>4. FoundMember(lookup, n) # NoMember
  BY <1>3 DEF NoMember
<1>5. Inherited(c, n) = symbol
  BY <1>2, <1>3, <1>4, InheritedFound DEF IInv, TypeOK
<1>6. symbol # NoSymbol
  BY DEF Symbol, NoSymbol
<1> HIDE DEF symbol
<1>7. QED BY <1>1, <1>2, <1>3, <1>5, <1>6, BindSearch

\* No base class has it.
LEMMA NoBaseMethodSearch ==
  ASSUME IInv, LexicalInv, SearchInv, ResolutionIsLexical, NoBaseMethod
  PROVE  SearchInv' /\ ResolutionIsLexical'
<1>1. UNCHANGED programVars /\ UNCHANGED cursor /\ step = "fallback" /\ WalkOn
  BY DEF NoBaseMethod, Resolving
<1>2. PICK c \in Classes, n \in Names, k \in Nat :
        /\ n = Wanted /\ LookedUp(c, n, k) /\ lookup.class \in Classes
        /\ k + 1 \in 1..Cardinality(Classes) /\ Ancestor(c)[k + 1] = BaseOf(lookup)
        /\ MeaningIn(Use, walk) = Inherited(c, n)
  BY <1>1, LookupStands
<1>3. ClassTypeOK /\ BaseInv
  BY DEF IInv, TypeOK, LexicalInv
<1>4. CASE FoundMember(lookup, n).kind = "Field"
  <2>1. FoundMember(lookup, n) # NoMember
    BY <1>4 DEF NoMember
  <2>2. Inherited(c, n) = NoSymbol
    BY <1>2, <1>3, <1>4, <2>1, InheritedFound
  <2>3. QED BY <1>1, <1>2, <2>2, WalkOnSearch
<1>5. CASE LookupFails(lookup, n, CurrentClassOnly)
  <2>1. /\ FoundMember(lookup, n) = NoMember
        /\ DeclOf(lookup) = 0 \/ BaseOf(lookup) = NoClass
    BY <1>1, <1>5 DEF LookupFails, CurrentClassOnly
  <2>2. Inherited(c, n) = NoSymbol
    BY <1>2, <1>3, <2>1, InheritedNotFound
  <2>3. QED BY <1>1, <1>2, <2>2, WalkOnSearch
<1>6. QED BY <1>2, <1>4, <1>5 DEF NoBaseMethod

\* The member of a receiver is checked.
LEMMA CheckMemberSearch ==
  ASSUME IInv, SearchInv, ResolutionIsLexical, CheckMember
  PROVE  SearchInv' /\ ResolutionIsLexical'
<1>1. /\ UNCHANGED programVars /\ UNCHANGED <<cursor, resolved>> /\ step = "receiver"
      /\ step' = "next"
      /\ UNCHANGED errors \/ AddError("unknown member", Use.scope, Use.ref.id, Wanted)
  BY DEF CheckMember, Resolving, Advance
<1>2. UseErrors' = UseErrors
  <2>1. UNCHANGED errors => UseErrors' = UseErrors
    BY DEF UseErrors
  <2>2. \A s, id, n : AddError("unknown member", s, id, n) => UseErrors' = UseErrors
    BY OtherErrors
  <2>3. QED BY <1>1, <2>1, <2>2
<1>3. ResolutionIsLexical'
  BY <1>1, <1>2, UsesStand
<1>4. SearchInv'
  BY <1>1 DEF SearchInv
<1>5. QED BY <1>3, <1>4

\* The lookup goes to the base class.
LEMMA LookInBaseSearch ==
  ASSUME IInv, LexicalInv, SearchInv, ResolutionIsLexical, LookInBase
  PROVE  SearchInv' /\ ResolutionIsLexical'
<1>1. /\ UNCHANGED programVars /\ step \in {"fallback", "receiver"}
      /\ UNCHANGED <<uses, tables, cursor, step, walk, proj, trail, resolved, errors>>
      /\ UNCHANGED <<classType, members>>
      /\ LookupContinues(lookup, Wanted, CurrentClassOnly) /\ ~MeetsCycle(lookup)
      /\ lookup' = NextLookup(lookup)
  BY DEF LookInBase, programVars, classVars
<1>2. ResolutionIsLexical'
  BY <1>1, UsesStand DEF UseErrors
<1>3. CASE step = "receiver"
  BY <1>1, <1>2, <1>3 DEF SearchInv
<1>4. CASE step = "fallback"
  <2>1. PICK c \in Classes, n \in Names, k \in Nat :
          /\ c = tables[walk].name /\ n = Use.form.name /\ n = Wanted /\ LookedUp(c, n, k)
          /\ lookup.class \in Classes /\ lookup.class = Ancestor(c)[k]
          /\ Ancestor(c)[k + 1] = BaseOf(lookup)
    BY <1>4, LookupStands
  <2> DEFINE b == BaseOf(lookup)
             visited == lookup.visited \cup {b}
  <2>2. /\ FoundMember(lookup, n) = NoMember /\ DeclOf(lookup) # 0 /\ b # NoClass
        /\ b \notin lookup.visited
    BY <1>1, <2>1 DEF LookupContinues, LookupFails, MeetsCycle
  <2>3. b \in Classes /\ lookup.visited \subseteq Classes
    BY <1>4, <2>2, LookupFacts DEF IInv, TypeOK, ResolverTypeOK
  <2>4. lookup'.class = b /\ lookup'.visited = visited
    BY <1>1 DEF NextLookup
  <2>5. Cardinality(lookup.visited) = k + 1 /\ k < Cardinality(Classes)
        /\ \A j \in 0..(k - 1) :
             /\ Ancestor(c)[j] \in Classes
             /\ classType[Ancestor(c)[j]].decl # 0
             /\ members[classType[Ancestor(c)[j]].decl][n] = NoMember
    BY <2>1 DEF LookedUp
  <2> HIDE DEF b, visited
  <2>6. Cardinality(visited) = k + 2 /\ k + 1 < Cardinality(Classes)
    <3>1. IsFiniteSet(lookup.visited)
      BY <2>3, ClassesAssumption, FS_Subset
    <3>2. Cardinality(visited) = k + 2
      <4>1. b \notin lookup.visited
        BY <2>2
      <4>2. Cardinality(visited) = Cardinality(lookup.visited) + 1
        BY <3>1, <4>1, FS_AddElement DEF visited
      <4>3. QED BY <2>5, <4>2
    <3>3. visited \subseteq Classes
      BY <2>3 DEF visited
    <3>4. Cardinality(visited) <= Cardinality(Classes)
      BY <3>3, ClassesAssumption, FS_Subset
    <3>5. Cardinality(Classes) \in Nat
      BY ClassesAssumption, FS_CardinalityType
    <3>6. QED BY <3>2, <3>4, <3>5
  <2>7. \A j \in 0..k :
          /\ Ancestor(c)[j] \in Classes
          /\ classType[Ancestor(c)[j]].decl # 0
          /\ members[classType[Ancestor(c)[j]].decl][n] = NoMember
    <3>1. \A j \in 0..k : j \in 0..(k - 1) \/ j = k
      OBVIOUS
    <3>2. /\ Ancestor(c)[k] \in Classes /\ classType[Ancestor(c)[k]].decl # 0
          /\ members[classType[Ancestor(c)[k]].decl][n] = NoMember
      BY <2>1, <2>2 DEF FoundMember, DeclOf
    <3>3. QED BY <2>5, <3>1, <3>2
  <2>8. LookedUp(c, n, k + 1)'
    <3>1. Ancestor(c)' = Ancestor(c)
      BY <1>1, SameMeaning
    <3>2. (k + 1) + 1 = k + 2 /\ (k + 1) - 1 = k
      OBVIOUS
    <3>3. b \in visited
      BY DEF visited
    <3>4. lookup'.class = Ancestor(c)'[k + 1]
      BY <2>1, <2>4, <3>1 DEF b
    <3>5. QED BY <1>1, <2>4, <2>6, <2>7, <3>1, <3>2, <3>3, <3>4 DEF LookedUp
  <2>9. Use' = Use /\ tables'[walk'].name = c /\ Use'.form.name = n
    BY <1>1, <2>1 DEF Use
  <2>10. \E j \in Nat : LookedUp(tables[walk].name, Use.form.name, j)'
    <3>1. k + 1 \in Nat
      OBVIOUS
    <3>2. QED BY <2>8, <2>9, <3>1
  <2>11. trail' \cup Enclosing'[walk'] = Enclosing'[Use'.scope]
    BY <1>1, <1>4, <2>9, OnTheWay, SameMeaning
  <2>12. \A s \in trail' \ {walk'} : MeaningIn(Use, s)' = NoSymbol
    <3>1. \A s : MeaningIn(Use, s)' = MeaningIn(Use, s)
      <4>1. \A use, s : MeaningIn(use, s)' = MeaningIn(use, s)
        BY <1>1, SameMeaning
      <4>2. QED BY <2>9, <4>1 DEF MeaningIn, Counts
    <3>2. QED BY <1>1, <1>4, <3>1, OnTheWay
  <2>13. IsClassScope(walk)' /\ Use'.form.kind = "call" /\ ~Counts(Use, walk)'
    BY <1>1, <1>4, <2>9 DEF SearchInv, IsClassScope, Counts
  <2>14. Len(resolved') = cursor' - 1 /\ step' = "fallback"
    BY <1>1, <1>4, OnTheWay
  <2>15. SearchInv'
    BY <2>10, <2>11, <2>12, <2>13, <2>14 DEF SearchInv
  <2>16. QED BY <1>2, <2>15
<1>5. QED BY <1>1, <1>3, <1>4

-----------------------------------------------------------------------------
(* The visits resolve nothing *)

\* The visits report no unresolved use.
LEMMA VisitErrors ==
  ASSUME BuildDeclaration \/ BuildStatement \/ BuildScopeEnd
  PROVE  UseErrors' = UseErrors
<1>1. UNCHANGED errors => UseErrors' = UseErrors
  BY DEF UseErrors
<1>2. ASSUME NEW s, NEW id, NEW n, ReportRejected(s, id, n)
      PROVE  UseErrors' = UseErrors
  BY <1>1, <1>2, OtherErrors DEF ReportRejected
<1>3. \A s, id, n : ReportRejected(s, id, n) => UseErrors' = UseErrors
  BY <1>2
<1>4. QED
  BY <1>1, <1>3 DEF BuildDeclaration, VisitDeclaration, DeclareVariable, DeclareField,
     DeclareFunction, DeclareMethod, DeclareParameter, DeclareClass, AddFunctionAndEnterBody,
     BuildStatement, VisitStatement, VisitUse, VisitBlock, VisitIf, VisitElse, BuildScopeEnd,
     VisitScopeEnd, LeaveScope, EndProgram, tableVars

\* The visits resolve nothing.
LEMMA VisitSearch ==
  ASSUME IInv, SearchInv, ResolutionIsLexical, BuildDeclaration \/ BuildStatement \/ BuildScopeEnd
  PROVE  SearchInv' /\ ResolutionIsLexical'
<1>1. phase = "visit" /\ UNCHANGED resolverVars
  BY BuildVisits DEF BuildDeclaration, BuildStatement, BuildScopeEnd
<1>2. step = "next" /\ cursor = 0 /\ Len(resolved) = 0
  BY <1>1 DEF IInv, VisitInv, SearchInv
<1>3. step' = "next" /\ cursor' = 0 /\ Len(resolved') = 0
  BY <1>1, <1>2 DEF resolverVars
<1>4. SearchInv'
  BY <1>3 DEF SearchInv
<1>5. 1..0 = {}
  OBVIOUS
<1>6. UseErrors' = {}
  BY <1>2, <1>5, VisitErrors DEF ResolutionIsLexical, UseErrors
<1>7. ResolutionIsLexical'
  BY <1>3, <1>5, <1>6 DEF ResolutionIsLexical, UseErrors
<1>8. QED BY <1>4, <1>7

-----------------------------------------------------------------------------
(* The theorems *)

\* Every step keeps LInv.
LEMMA NextLInv == LInv /\ [Next]_vars => LInv'
<1> SUFFICES ASSUME LInv, [Next]_vars PROVE LInv'
  OBVIOUS
<1>1. IInv /\ LexicalInv /\ SearchInv /\ ResolutionIsLexical /\ IInv'
  BY NextIInv DEF LInv
<1>2. CASE BuildDeclaration \/ BuildStatement \/ BuildScopeEnd
  BY <1>1, <1>2, VisitLexical, VisitSearch DEF LInv
<1>3. CASE Resolve
  <2>1. UNCHANGED programVars
    BY <1>3 DEF Resolve, BeginUse, LookInTable, Climb, CompareNumbers, BindBaseMethod,
       NoBaseMethod, CheckMember, LookInBase, CyclicInheritance, FinishResolve, Resolving
  <2>2. LexicalInv'
    BY <1>1, <2>1, LexicalStays
  <2>3. CASE CyclicInheritance \/ FinishResolve
    <3>1. UNCHANGED <<programVars, resolverVars, errors>>
      BY <2>1, <2>3 DEF CyclicInheritance, FinishResolve, Abort
    <3>2. QED BY <1>1, <2>2, <3>1, SearchStays DEF LInv
  <2>4. QED
    BY <1>1, <1>3, <2>2, <2>3, BeginUseSearch, LookInTableSearch, ClimbSearch,
       CompareNumbersSearch, BindBaseMethodSearch, NoBaseMethodSearch, CheckMemberSearch,
       LookInBaseSearch DEF Resolve, LInv
<1>4. CASE UNCHANGED vars
  <2>1. UNCHANGED <<programVars, resolverVars, errors>>
    BY <1>4 DEF vars, tableVars, builderVars, programVars
  <2>2. QED BY <1>1, <2>1, LexicalStays, SearchStays DEF LInv
<1>5. QED BY <1>2, <1>3, <1>4 DEF Next, Ended

\* Of the passes, LInv is an invariant: what the visits have numbered and what
\* the resolver has excluded agree with the text of the program.
THEOREM LexicalInvariant == Spec => []LInv
<1>1. Init => LInv
  BY InitIInv, InitLexical DEF LInv
<1>2. QED BY <1>1, NextLInv, PTL DEF Spec

\* BuildUseResolver gives every use the meaning its place in the program gives
\* it, and reports exactly the uses without one.
THEOREM ResolutionLexical == Spec => []ResolutionIsLexical
<1>1. LInv => ResolutionIsLexical
  BY DEF LInv
<1>2. QED BY <1>1, LexicalInvariant, PTL

\* A declaration that hides a function of a scope around it, and that
\* AddSymbolInfo has let pass, stands before the function.
THEOREM FunctionsShadowedByLater == Spec => []OnlyLaterFunctionsShadowed
<1>1. LInv => OnlyLaterFunctionsShadowed
  BY DEF LInv, LexicalInv
<1>2. QED BY <1>1, LexicalInvariant, PTL
=============================================================================
