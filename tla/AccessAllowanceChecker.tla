------------------------ MODULE AccessAllowanceChecker ------------------------
(***************************************************************************)
(* AccessAllowanceCheckerVisitor: the class whose method is being visited, *)
(* and the accesses to fields it allows.  Classes are numbered, 0 is none. *)
(***************************************************************************)
EXTENDS Naturals

VARIABLES
  owner,         \* current_method_owner_class_
  denied         \* whether an access was reported in the statement at hand

accessVars == <<owner, denied>>

InitAccess == owner = 0 /\ denied = FALSE

\* A function has no owner, whatever it is declared in.
EnterFunction == owner' = 0
\* Faulty: the method belongs to the class after.
FaultyEnterMethod(class) == owner' = class + 1
\* A method belongs to the class it is a member of.
EnterMethod(class) == owner' = class

\* Faulty: the class around a local class is forgotten.
FaultyRestore(previous) == owner' = 0
\* The end of a body: previous_method_owner_class.
Restore(previous) == owner' = previous

\* CheckFieldAccess, of a field that class declares.
CheckFieldAccess(class) ==
  /\ denied' = (denied \/ owner = 0 \/ owner # class)
  /\ UNCHANGED owner
=============================================================================
