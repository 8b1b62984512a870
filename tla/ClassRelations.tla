---------------------------- MODULE ClassRelations ----------------------------
(***************************************************************************)
(* The class declarations of a program, as the parser reduces them and as  *)
(* BuildClassRelations visits them, and the order of classes and chains of *)
(* bases it builds.  A declaration is known by its place in the order in   *)
(* which the visit meets them; 1 is the program, which holds the outermost *)
(* ones.  The parser reduces a declaration after those in its methods.     *)
(***************************************************************************)
EXTENDS ClassTypes

CONSTANTS
  Signatures,    \* the types methods have
  MaxClasses,    \* bound: class declarations of the program
  MaxMembers     \* bound: fields and methods of all of them

\* A program has finitely many names of classes.
ASSUME RelationsAssumption ==
  MaxClasses \in Nat /\ MaxMembers \in Nat /\ IsFiniteSet(Classes)

VARIABLES
  declared,      \* classes_in_encounter_order_: name, and the class it is nested in
  methods,       \* methods[k]: the methods of class k in order, name and type
  open,          \* the declaration being read, 1 outside of all
  pass,          \* how far the compiler is
  next,          \* the loop over classes_in_encounter_order_
  stack,         \* calls of BuildClassOrderAndChains in progress; as a set, stack_visited
  returned,      \* whether the topmost one's call for its base has returned
  order,         \* classes_base_first_order_; as a set, permanently_visited
  chains,        \* inheritance_chain_from_root_by_class_, empty if there is none
  cycles         \* errors reported: cyclic inheritance involving class ...

programVars == <<classVars, declared, methods, open>>
buildVars == <<next, stack, returned, order, chains, cycles>>

Program == 1
Declarations == 2..Len(declared)
Slots == 1..(MaxClasses + 1)

InitRelations ==
  /\ InitClassTypes
  /\ declared = <<[name |-> NoClass, enclosing |-> 0]>>
  /\ methods = <<<<>>>>
  /\ open = Program
  /\ pass = "parse"
  /\ next = 2 /\ stack = <<>> /\ returned = FALSE
  /\ order = <<>>
  /\ chains = [k \in Slots |-> <<>>]
  /\ cycles = 0

-----------------------------------------------------------------------------
(* The program *)

\* A class is declared at the top or, somewhere, in the last method read.
OpenClass(c) ==
  /\ pass = "parse" /\ Len(declared) <= MaxClasses
  /\ open # Program => methods[open] # <<>>
  /\ declared' = Append(declared, [name |-> c, enclosing |-> open])
  /\ methods' = Append(methods, <<>>)
  /\ members' = Append(members, NoMembers)
  /\ open' = Len(declared')
  /\ UNCHANGED <<classType, pass, buildVars>>

AllMembers == {m \in (1..Len(members)) \X Names : members[m[1]][m[2]] # NoMember}
MemberOf(k, kind) == [kind |-> kind, id |-> k, type |-> NoClass]

\* A second member of the name would be an error of the symbol table.
MayAdd(n) ==
  /\ pass = "parse" /\ open # Program
  /\ Cardinality(AllMembers) < MaxMembers
  /\ members[open][n] = NoMember

\* The fields of a class are read before its methods.
AddField(n) ==
  /\ MayAdd(n) /\ methods[open] = <<>>
  /\ members' = MembersAfterAdd(open, n, MemberOf(open, "Field"))
  /\ UNCHANGED <<classType, declared, methods, open, pass, buildVars>>

AddMethod(n, type) ==
  /\ MayAdd(n)
  /\ methods' = [methods EXCEPT ![open] = Append(@, [name |-> n, type |-> type])]
  /\ members' = MembersAfterAdd(open, n, MemberOf(open, "Method"))
  /\ UNCHANGED <<classType, declared, open, pass, buildVars>>

\* The reduction of class_decl, with the inheritance_opt read before.
CloseClass(base) ==
  /\ pass = "parse" /\ open # Program
  /\ SyncClassType(declared[open].name, open, base)
  /\ open' = declared[open].enclosing
  /\ UNCHANGED <<members, declared, methods, pass, buildVars>>

EndProgram ==
  /\ pass = "parse" /\ open = Program
  /\ pass' = "relations"
  /\ UNCHANGED <<programVars, buildVars>>

-----------------------------------------------------------------------------
(* BuildClassRelations *)

\* Faulty: the first declaration of the name.
FaultyBaseClass(k) ==
  LET named == {d \in Declarations : declared[d].name = classType[declared[k].name].base}
  IN  IF named = {} THEN 0 ELSE CHOOSE d \in named : \A e \in named : d <= e
\* base_class_by_class_: the class_decl of the base class type, 0 without one.
BaseClass(k) ==
  LET base == classType[declared[k].name].base
  IN  IF base = NoClass THEN 0 ELSE classType[base].decl

\* A call of BuildClassOrderAndChains: nothing to do, a cycle, or a class to do.
Call(k) ==
  \/ /\ k \in Range(order)
     /\ returned' = TRUE
     /\ UNCHANGED <<stack, cycles>>
  \/ /\ k \notin Range(order) /\ k \in Range(stack)
     /\ cycles' = cycles + 1
     /\ returned' = TRUE
     /\ UNCHANGED stack
  \/ /\ k \notin Range(order) /\ k \notin Range(stack)
     /\ stack' = Append(stack, k)
     /\ returned' = FALSE
     /\ UNCHANGED cycles

CallForNext ==
  /\ pass = "relations" /\ stack = <<>> /\ next \in Declarations
  /\ Call(next)
  /\ next' = next + 1
  /\ UNCHANGED <<programVars, pass, order, chains>>

Top == Last(stack)

CallForBase ==
  /\ pass = "relations" /\ stack # <<>> /\ ~returned /\ BaseClass(Top) # 0
  /\ Call(BaseClass(Top))
  /\ UNCHANGED <<programVars, pass, next, order, chains>>

\* Faulty: a null base is an element of the chain.
FaultyChainThrough(k) == <<BaseClass(k), k>>
\* The chain the base has by now, if any, and the class itself.
ChainThrough(k) ==
  Append(IF BaseClass(k) = 0 THEN <<>> ELSE chains[BaseClass(k)], k)

\* Faulty: the class is listed in front of those listed before it.
FaultyOrderWith(k) == <<k>> \o order
OrderWith(k) == Append(order, k)

FinishClass ==
  /\ pass = "relations" /\ stack # <<>> /\ (returned \/ BaseClass(Top) = 0)
  /\ chains' = [chains EXCEPT ![Top] = ChainThrough(Top)]
  /\ order' = OrderWith(Top)
  /\ stack' = Front(stack)
  /\ returned' = TRUE
  /\ UNCHANGED <<programVars, pass, next, cycles>>

\* BuildClassRelations(program) throws the errors.
EndRelations ==
  /\ pass = "relations" /\ stack = <<>> /\ next \notin Declarations
  /\ pass' = IF cycles > 0 THEN "throws" ELSE "layout"
  /\ UNCHANGED <<programVars, buildVars>>

RelationsNext ==
  \/ \E c \in Classes : OpenClass(c)
  \/ \E n \in Names : AddField(n)
  \/ \E n \in Names, type \in Signatures : AddMethod(n, type)
  \/ \E base \in Classes \cup {NoClass} : CloseClass(base)
  \/ EndProgram
  \/ CallForNext \/ CallForBase \/ FinishClass \/ EndRelations

-----------------------------------------------------------------------------
(* TypeChecker *)

\* IsDerivedClassOf: the class types met from the derived one upwards, a
\* second visit of one ends the loop.
TypesAbove(c) ==
  LET above[i \in 0..Cardinality(Classes)] ==
        IF i = 0 THEN {c}
        ELSE above[i - 1] \cup ({classType[t].base : t \in above[i - 1]} \ {NoClass})
  IN  above[Cardinality(Classes)]
\* Faulty: only the next class up.
FaultyIsDerivedClassOf(c, base) == base \in {c, classType[c].base}
IsDerivedClassOf(c, base) == base \in TypesAbove(c)

\* "Cyclic class inheritance detected"
ReportsCycle(k) ==
  LET c == declared[k].name
  IN  BaseClass(k) # 0 /\ IsDerivedClassOf(classType[c].base, c)
=============================================================================
