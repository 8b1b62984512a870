----------------------------- MODULE ClassTypes -----------------------------
(***************************************************************************)
(* What TypeStorage and the parser leave of the classes of a program, and  *)
(* LookupClassMember on it.  A ClassType is identified by its name alone:  *)
(* declarations of the same name, in whatever scopes, share one ClassType, *)
(* and the one the parser reduced last is its class_decl.                  *)
(***************************************************************************)
EXTENDS Naturals, SequencesExt, Syntax

VARIABLES
  classType,     \* class_type_by_name_: class_decl (a scope) and base_class
  members        \* members[s][n]: the first member n of the class at scope s

classVars == <<classType, members>>

MemberKinds == {"Field", "Method"}
NoMember == [kind |-> "None", id |-> 0, type |-> NoClass]
NoMembers == [n \in Names |-> NoMember]

\* No class declared: GetOrCreateClassType makes a ClassType without class_decl.
InitClassTypes ==
  /\ classType = [c \in Classes |-> [decl |-> 0, base |-> NoClass]]
  /\ members = <<NoMembers>>

\* A member of the list class_decl->fields or ->methods.  A second member of
\* the same name is never the first one a lookup meets.
MembersAfterAdd(s, n, member) ==
  IF members[s][n] = NoMember THEN [members EXCEPT ![s][n] = member] ELSE members

\* The reduction of class_decl sets base_class, SyncClassTypeWithDeclaration
\* class_decl: for both the last declaration of a name wins.
SyncClassType(c, s, base) ==
  classType' = [classType EXCEPT ![c] = [decl |-> s, base |-> base]]

-----------------------------------------------------------------------------
(***************************************************************************)
(* LookupClassMember, one turn of its loop: a lookup is the class it       *)
(* stands at and visited_classes.  A turn has an answer, or no answer yet. *)
(***************************************************************************)
StartLookup(c) == [class |-> c, visited |-> {c}]

DeclOf(lookup) == classType[lookup.class].decl
BaseOf(lookup) == classType[lookup.class].base

\* The member named n of the class the lookup stands at.
FoundMember(lookup, n) ==
  IF DeclOf(lookup) = 0 THEN NoMember ELSE members[DeclOf(lookup)][n]

\* The loop returns nullopt: no declaration, no wider search, or no base.
LookupFails(lookup, n, currentClassOnly) ==
  /\ FoundMember(lookup, n) = NoMember
  /\ DeclOf(lookup) = 0 \/ currentClassOnly \/ BaseOf(lookup) = NoClass

\* Faulty: a lookup never goes on to the base.
FaultyLookupContinues(lookup, n, currentClassOnly) == FALSE
\* The loop has one more turn to take, at the base class.
LookupContinues(lookup, n, currentClassOnly) ==
  /\ FoundMember(lookup, n) = NoMember
  /\ ~LookupFails(lookup, n, currentClassOnly)

\* Faulty: visited_classes is not consulted.
FaultyMeetsCycle(lookup) == FALSE
MeetsCycle(lookup) == BaseOf(lookup) \in lookup.visited

NextLookup(lookup) ==
  [class |-> BaseOf(lookup), visited |-> lookup.visited \cup {BaseOf(lookup)}]
=============================================================================
