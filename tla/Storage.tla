------------------------------- MODULE Storage -------------------------------
(***************************************************************************)
(* Where compiled code finds what names stand for: FunctionRelations and   *)
(* GlobalRelations on the program, and the addresses FunctionLowering-     *)
(* Context takes.  Code is lowered in the context of a function, of a      *)
(* class, whose allocator runs the initializers of the fields, or of       *)
(* __global_init; a context is the scope of its function or class, or      *)
(* NoScope.                                                                *)
(***************************************************************************)
EXTENDS ProgramText

Context ==
  LET context[s \in 0..Len(tables)] ==
        IF s = NoScope \/ tables[s].owner \in {"function", "class"} THEN s
        ELSE context[tables[s].parent]
  IN  context

(* FunctionRelations, GlobalRelations *)

\* GetOwnerClass: the class a function is a method of; a function in a method has none.
OwnerClass(function) ==
  IF IsClassScope(tables[function].parent) THEN tables[function].parent ELSE NoScope

\* The variables of scope s that are symbols of one of the kinds.
DefinitionsIn(s, kinds) ==
  {DefinitionIn(n, s) : n \in {m \in Names : tables[s].symbols[m].kind \in kinds}}

GlobalDeclarations == DefinitionsIn(Root, {"Variable"})

-----------------------------------------------------------------------------
(* FunctionLoweringContext *)

\* The class of current_this_value_.
ThisClass(context) ==
  IF context = NoScope THEN NoScope
  ELSE IF IsClassScope(context) THEN context ELSE OwnerClass(context)

\* Faulty: the else blocks are forgotten.
FaultyIsWalked(s) == tables[s].owner \in {"block", "then"}
IsWalked(s) == tables[s].owner \in BlockOwners

\* PreallocateLocalDeclarations: the lists it walks through, from the body on.
ListsOf(function) ==
  LET walked[s \in 0..Len(tables)] ==
        s # NoScope /\ (s = function \/ (IsWalked(s) /\ walked[tables[s].parent]))
  IN  {s \in Scopes : walked[s]}

\* storage_by_node_, once parameters are bound and declarations preallocated.
StorageOf(context) ==
  IF context = NoScope \/ IsClassScope(context) THEN {}
  ELSE UNION {DefinitionsIn(s, {"Variable", "Parameter"}) : s \in ListsOf(context)}

\* What LowerIdentifierExpression, LowerAssignment and LowerDelete address: "none" is the
\* assertion that ends them.
AddressIn(context, d) ==
  CASE d.kind # "Function" /\ IsClassScope(d.scope) ->
         IF ThisClass(context) = NoScope THEN "none" ELSE "field"
    [] d \in StorageOf(context) -> "frame"
    [] d.kind # "Function" /\ ~IsClassScope(d.scope) /\ d \in GlobalDeclarations -> "global"
    [] OTHER -> "none"

\* LowerFunctionCall: a method is called on this.
CanCall(context, d) == IsClassScope(d.scope) => ThisClass(context) # NoScope

\* The use has what it needs where it is lowered.
HasStorage(i) ==
  LET context == Context[uses[i].scope]
      d == DefinitionOf(i)
  IN  IF IsValue(i) THEN (d.kind = "Function" /\ ~OnlyWrites(i)) \/ AddressIn(context, d) # "none"
      ELSE CanCall(context, d)

-----------------------------------------------------------------------------
(***************************************************************************)
(* LowerStatement passes over a statement when IsCurrentBlockTerminated:   *)
(* when one before it has ended in a return, by itself or in every branch. *)
(* "terminated" says it of the lists of scopes.                            *)
(***************************************************************************)
Returning(s, id) ==
  \E i \in UsesAt(s, id) : i \in ValueStatements /\ statementKind[i] = "return"
EndsInReturn(s, id, terminated) ==
  \/ Returning(s, id)
  \/ LET blocks == ScopesAt(s, id)
     IN  /\ blocks # <<>> /\ tables[Last(blocks)].owner \in {"block", "else"}
         /\ \A t \in Range(blocks) : terminated[t]

Terminated ==
  LET terminated[s \in Scopes] == \E id \in 1..LastStatement(s) : EndsInReturn(s, id, terminated)
  IN  terminated

AfterReturn(at) == \E id \in 1..at.id - 1 : EndsInReturn(at.scope, id, Terminated)

\* The blocks whose statements are lowered, with the bodies of functions and classes.
LoweredLists ==
  LET lowered[s \in Scopes] ==
        tables[s].owner \in BlockOwners => ~AfterReturn(anchors[s]) /\ lowered[anchors[s].scope]
  IN  {s \in Scopes : lowered[s]}
IsLowered(i) == uses[i].ref.scope \in LoweredLists /\ ~AfterReturn(uses[i].ref)
=============================================================================
