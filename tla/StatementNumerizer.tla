------------------------- MODULE StatementNumerizer -------------------------
(***************************************************************************)
(* StatementNumerizerBuilder: the pass that gives every statement a number *)
(* in its scope and every scope an anchor, the numbered statement of the   *)
(* enclosing scope in which it stands.  The resolver and the type checker  *)
(* answer "is this declaration visible here" with these numbers alone.     *)
(*                                                                         *)
(* A scope owner (the Program, a function body, a class declaration, a     *)
(* block) is the position at which it was entered: Program is 1.           *)
(***************************************************************************)
EXTENDS Naturals, SequencesExt

Root == 1        \* the Program node
NoScope == 0     \* a null parent_node

VARIABLES
  anchors,       \* anchors[s]: ref_by_node_ of the owner of scope s
  anchorStack,   \* scope_anchor_stack_
  nextIds,       \* next_stmt_id_stack_
  current,       \* current_stmt_ref_
  saved          \* the previous_stmt_ref locals of the visits in progress

numVars == <<anchors, anchorStack, nextIds, current, saved>>

(***************************************************************************)
(* ScopedStmtRef, whose node is left out: parent_node and stmt_id_in_scope *)
(* identify it.                                                            *)
(***************************************************************************)
ScopedStmtRef == [scope : Nat, id : Nat]
NoRef == [scope |-> NoScope, id |-> 0]

\* EnterRootScope on an empty builder: the Program is its own anchor, with
\* number 0 and no parent, and its first statement will have number 1.
EnterRootScope ==
  /\ anchors = <<NoRef>>
  /\ anchorStack = <<Root>>
  /\ nextIds = <<1>>
  /\ current = NoRef
  /\ saved = <<>>

CurrentScopeAnchor == Last(anchorStack)

\* The reference AcquireNextStmtRef returns, and the counters it leaves.
NextStmtRef == [scope |-> CurrentScopeAnchor, id |-> Last(nextIds)]
FaultyCountersAfterAcquire == [nextIds EXCEPT ![Len(nextIds)] = @ - 1]
CountersAfterAcquire == [nextIds EXCEPT ![Len(nextIds)] = @ + 1]

\* VisitStatements on a statement that opens no scope.
AcquireStatement ==
  /\ nextIds' = CountersAfterAcquire
  /\ current' = NextStmtRef
  /\ UNCHANGED <<anchors, anchorStack, saved>>

(***************************************************************************)
(* EnterScope while the current statement is ref and the counters are ids. *)
(* The visit that enters a scope keeps ref in a local, previous_stmt_ref,  *)
(* and restores it when it leaves.                                         *)
(***************************************************************************)
EnterScopeAt(ref, ids) ==
  /\ anchors' = Append(anchors, [scope |-> CurrentScopeAnchor, id |-> ref.id])
  /\ anchorStack' = Append(anchorStack, Len(anchors) + 1)
  /\ nextIds' = Append(ids, 1)
  /\ current' = ref
  /\ saved' = Append(saved, ref)

\* A statement that opens a scope: a function, a class, a block, an if.
AcquireAndEnterScope == EnterScopeAt(NextStmtRef, CountersAfterAcquire)

\* An else block or the block of an else-if: no number of its own, the scope
\* stands in the if statement.
EnterScopeInStatement == EnterScopeAt(current, nextIds)

\* Faulty: scope_anchor_stack_ is not popped.
FaultyKeepAnchor ==
  /\ nextIds' = Front(nextIds)
  /\ current' = Last(saved)
  /\ saved' = Front(saved)
  /\ UNCHANGED <<anchors, anchorStack>>

\* LeaveScope, and current_stmt_ref_ = previous_stmt_ref.
LeaveScopeRestoring ==
  /\ anchorStack' = Front(anchorStack)
  /\ nextIds' = Front(nextIds)
  /\ current' = Last(saved)
  /\ saved' = Front(saved)
  /\ UNCHANGED anchors

\* Build's LeaveScope of the root.
LeaveRootScope ==
  /\ anchorStack' = Front(anchorStack)
  /\ nextIds' = Front(nextIds)
  /\ current' = NoRef
  /\ UNCHANGED <<anchors, saved>>
=============================================================================
