------------------------------- MODULE VTables -------------------------------
(***************************************************************************)
(* The v-tables of LLVMIRLowering: PreparedStateBuilder::BuildClassInfo    *)
(* fills a ClassInfo per class, bases first, and a call of a method is     *)
(* lowered to a load from a slot of the table the object points to.        *)
(***************************************************************************)
EXTENDS ClassRelations

VARIABLES
  laid,          \* classes of order whose ClassInfo has been begun
  filled,        \* methods of the last of them that have a slot
  info,          \* class_info_by_decl: the ClassInfo of each class
  executed       \* the last call: the class of its object, and the method that ran

layoutVars == <<laid, filled, info>>
vars == <<programVars, pass, buildVars, layoutVars, executed>>

NoCall == [object |-> 0, method |-> [class |-> 0, name |-> NoClass]]
EmptyInfo ==
  [slot_types |-> <<>>, vtable_methods |-> <<>>, slot_index |-> [n \in Names |-> 0]]

Init ==
  /\ InitRelations
  /\ laid = 0 /\ filled = 0
  /\ info = [k \in Slots |-> EmptyInfo]
  /\ executed = NoCall

-----------------------------------------------------------------------------
(* BuildClassInfo *)

Current == order[laid]
ClassDone == laid # 0 => filled = Len(methods[Current])

\* Faulty: the layout is inherited but for the names.
FaultyInheritedLayout(k) ==
  IF BaseClass(k) = 0 THEN EmptyInfo
  ELSE [info[BaseClass(k)] EXCEPT !.slot_index = EmptyInfo.slot_index]
\* FillInheritedVTableLayout
InheritedLayout(k) == IF BaseClass(k) = 0 THEN EmptyInfo ELSE info[BaseClass(k)]

BeginClass ==
  /\ pass = "layout" /\ ClassDone /\ laid < Len(order)
  /\ info' = [info EXCEPT ![order[laid + 1]] = InheritedLayout(order[laid + 1])]
  /\ laid' = laid + 1
  /\ filled' = 0
  /\ UNCHANGED <<programVars, pass, buildVars, executed>>

Method == methods[Current][filled + 1]
SlotOf(k, n) == info[k].slot_index[n]

\* FillOrOverrideMethodSlot: a name without a slot gets the next one.
NewSlot ==
  /\ pass = "layout" /\ ~ClassDone /\ SlotOf(Current, Method.name) = 0
  /\ info' = [info EXCEPT ![Current] =
       [slot_types |-> Append(@.slot_types, Method.type),
        vtable_methods |-> Append(@.vtable_methods, [class |-> Current, name |-> Method.name]),
        slot_index |->
          [@.slot_index EXCEPT ![Method.name] = Len(info[Current].vtable_methods) + 1]]]
  /\ filled' = filled + 1
  /\ UNCHANGED <<programVars, pass, buildVars, laid, executed>>

SameType == info[Current].slot_types[SlotOf(Current, Method.name)] = Method.type

\* Faulty: the base's method stays.
FaultyOverriding == info[Current].vtable_methods
Overriding ==
  [info[Current].vtable_methods EXCEPT
     ![SlotOf(Current, Method.name)] = [class |-> Current, name |-> Method.name]]

\* ... and a name that has one takes it.
OverrideSlot ==
  /\ pass = "layout" /\ ~ClassDone /\ SlotOf(Current, Method.name) # 0 /\ SameType
  /\ info' = [info EXCEPT ![Current].vtable_methods = Overriding]
  /\ filled' = filled + 1
  /\ UNCHANGED <<programVars, pass, buildVars, laid, executed>>

\* assert(slot_types[slot_index] == *method_type)
AssertSameType ==
  /\ pass = "layout" /\ ~ClassDone /\ SlotOf(Current, Method.name) # 0 /\ ~SameType
  /\ pass' = "slot of another type"
  /\ UNCHANGED <<programVars, buildVars, layoutVars, executed>>

EndLayout ==
  /\ pass = "layout" /\ ClassDone /\ laid = Len(order)
  /\ pass' = "calls"
  /\ UNCHANGED <<programVars, buildVars, layoutVars, executed>>

-----------------------------------------------------------------------------
(* Calls *)

\* LookupClassMember in a class and its bases: the member it finds, with the
\* scope of its class, or NoMember.  Each turn visits one class more.
LookedUp(c, n) ==
  LET at[i \in 0..Cardinality(Classes)] ==
        IF i = 0 THEN StartLookup(c)
        ELSE IF LookupContinues(at[i - 1], n, FALSE) THEN NextLookup(at[i - 1])
        ELSE at[i - 1]
  IN  FoundMember(at[Cardinality(Classes)], n)

Objects == {k \in Declarations : classType[declared[k].name].decl = k}
\* The objects a variable of class type c may hold.
Assignable(c) == {k \in Objects : IsDerivedClassOf(declared[k].name, c)}

\* The v-table global of class k, which the allocator of k has an object point to.
VTableOf(k) == info[k].vtable_methods

\* LowerVirtualCall: the slot is the static class's, the table the object's.
VirtualCall(static, k, n) == [object |-> k, method |-> VTableOf(k)[SlotOf(static, n)]]

\* LowerMethodCall: the receiver is a variable of class type c.
MethodCall(c, n) ==
  /\ pass = "calls" /\ classType[c].decl # 0 /\ LookedUp(c, n).kind = "Method"
  /\ \E k \in Assignable(c) : executed' = VirtualCall(classType[c].decl, k, n)
  /\ UNCHANGED <<programVars, pass, buildVars, layoutVars>>

\* The member the name of a call, alone in a method of class k, is resolved to:
\* found from the inside out, each class with the methods of its bases.
ResolvedMember(k, n) ==
  LET outwards[i \in 0..k] ==
        IF i <= Program THEN NoMember
        ELSE IF members[i][n] # NoMember THEN members[i][n]
        ELSE IF LookedUp(declared[i].name, n).kind = "Method" THEN LookedUp(declared[i].name, n)
        ELSE outwards[declared[i].enclosing]
  IN  outwards[k]

\* LowerFunctionCall of a method, through __this of current_class_context_.
ImplicitCall(k, n) ==
  /\ pass = "calls" /\ k \in Declarations /\ methods[k] # <<>>
  /\ ResolvedMember(k, n).kind = "Method" /\ SlotOf(k, n) # 0
  /\ \E object \in Objects :
       k \in Range(chains[object]) /\ executed' = VirtualCall(k, object, n)
  /\ UNCHANGED <<programVars, pass, buildVars, layoutVars>>

\* BuildMethodSlotGEPIndices: assert(slot_it != slot_index_by_name.end())
AssertSlot(k, n) ==
  /\ pass = "calls" /\ k \in Declarations /\ methods[k] # <<>>
  /\ ResolvedMember(k, n).kind = "Method" /\ SlotOf(k, n) = 0
  /\ pass' = "no slot"
  /\ UNCHANGED <<programVars, buildVars, layoutVars, executed>>

Ended ==
  /\ pass \in {"throws", "slot of another type", "no slot", "calls"}
  /\ UNCHANGED vars

Next ==
  \/ RelationsNext /\ UNCHANGED <<layoutVars, executed>>
  \/ BeginClass \/ NewSlot \/ OverrideSlot \/ AssertSameType \/ EndLayout
  \/ \E c \in Classes, n \in Names : MethodCall(c, n)
  \/ \E k \in Slots, n \in Names : ImplicitCall(k, n) \/ AssertSlot(k, n)
  \/ Ended

Spec == Init /\ [][Next]_vars

-----------------------------------------------------------------------------
(* Properties *)

Passes ==
  {"parse", "relations", "throws", "layout", "slot of another type", "calls", "no slot"}
MethodRefs == [class : Nat, name : Names \cup {NoClass}]
ClassInfos ==
  [slot_types : Seq(Signatures), vtable_methods : Seq(MethodRefs), slot_index : [Names -> Nat]]

\* Every variable of the relations and of the layout has its type.
TypeOK ==
  /\ declared \in Seq([name : Classes \cup {NoClass}, enclosing : Nat])
  /\ methods \in Seq(Seq([name : Names, type : Signatures]))
  /\ open \in Slots /\ pass \in Passes /\ next \in Nat
  /\ stack \in Seq(Slots) /\ order \in Seq(Slots) /\ returned \in BOOLEAN
  /\ chains \in [Slots -> Seq(Slots)] /\ cycles \in Nat
  /\ laid \in Nat /\ filled \in Nat
  /\ info \in [Slots -> ClassInfos]

RelationsBuilt == pass \notin {"parse", "relations"}

BasesBefore ==
  \A i \in DOMAIN order :
    BaseClass(order[i]) # 0 => \E j \in 1..(i - 1) : order[j] = BaseClass(order[i])

\* Without a cycle the base-first order has every class once, after its base,
\* whatever the order of the declarations and the names they share.
BasesFirst ==
  RelationsBuilt /\ cycles = 0 =>
    Range(order) = Declarations /\ IsInjective(order) /\ BasesBefore

\* The cycles BuildClassRelations throws for in lowering are those CheckTypes
\* has reported before: a program main lowers has none.
CycleReportsAgree ==
  RelationsBuilt => (cycles > 0 <=> \E k \in Declarations : ReportsCycle(k))

\* What the type checker lets a variable of a class type hold, by names, has
\* the declaration of that class among its bases in the relations, as
\* EmitTypeAdjustedPointer assumes; and nothing else has.
AssignableIsEmbedded ==
  RelationsBuilt /\ cycles = 0 =>
    \A k \in Objects, b \in Objects :
      IsDerivedClassOf(declared[k].name, declared[b].name) <=> b \in Range(chains[k])

\* How many methods of the i-th class laid out have a slot by now.
FilledOf(i) == IF i = laid THEN filled ELSE Len(methods[order[i]])
FilledNames(i) == {methods[order[i]][j].name : j \in 1..FilledOf(i)}

ExtendsLayout(k, b) ==
  /\ \A i \in DOMAIN info[b].slot_types :
       i \in DOMAIN info[k].slot_types /\ info[k].slot_types[i] = info[b].slot_types[i]
  /\ \A n \in Names : SlotOf(b, n) # 0 => SlotOf(k, n) = SlotOf(b, n)

\* A class has the slots of its base at the same places, with the same types
\* and names: a call compiled for the base finds its slot in every derived table.
SlotsStable ==
  \A i \in 1..laid : BaseClass(order[i]) # 0 => ExtendsLayout(order[i], BaseClass(order[i]))

HasOwn(k, n) ==
  SlotOf(k, n) # 0 /\ info[k].vtable_methods[SlotOf(k, n)] = [class |-> k, name |-> n]

\* Class b, 0 for none, has for method n what class k has.
SameEntry(b, k, n) ==
  IF b = 0 THEN SlotOf(k, n) = 0
  ELSE /\ SlotOf(b, n) = SlotOf(k, n)
       /\ SlotOf(k, n) # 0 => info[b].vtable_methods[SlotOf(k, n)] =
                                 info[k].vtable_methods[SlotOf(k, n)]
HasInherited(k, n) == SameEntry(BaseClass(k), k, n)

\* The v-table of a class has its own methods and, for every other name, what
\* the table of its base has: dynamic dispatch, one class at a time.
NearestOverride ==
  \A i \in 1..laid : \A n \in Names :
    IF n \in FilledNames(i) THEN HasOwn(order[i], n) ELSE HasInherited(order[i], n)

\* The two ways to find the method of a receiver agree: where LookupClassMember,
\* by class types, finds a method, it is the one in the slot of the name; where
\* it finds nothing there is no slot; and where it finds a field, which is
\* looked for before the methods of its class and of the bases, the slot, if
\* there is one, has what it has in the base of the field's class.
LookupAgreesWithSlots ==
  pass = "calls" =>
    \A k \in Objects, n \in Names :
      LET found == LookedUp(declared[k].name, n)
      IN  /\ found.kind = "None" => SlotOf(k, n) = 0
          /\ found.kind = "Method" => /\ SlotOf(k, n) # 0
                                      /\ info[k].vtable_methods[SlotOf(k, n)] =
                                           [class |-> found.id, name |-> n]
          /\ found.kind = "Field" => SameEntry(BaseClass(found.id), k, n)

MethodNames(k) == {methods[k][i].name : i \in DOMAIN methods[k]}
AbstractDispatch ==
  INSTANCE DynamicDispatch WITH
    MaxClass <- MaxClasses + 1,
    base <- [k \in Slots |-> IF k \in Declarations THEN BaseClass(k) ELSE 0],
    declares <- [k \in Slots |-> IF k \in Declarations THEN MethodNames(k) ELSE {}]

\* A call runs the nearest override, from the class of the object upwards.
CallsDispatch == AbstractDispatch!Spec

-----------------------------------------------------------------------------
(* The inductive invariant *)

ProgramInv ==
  /\ Len(declared) \in 1..(MaxClasses + 1) /\ Len(methods) = Len(declared)
  /\ classType \in [Classes -> [decl : {0} \cup Declarations, base : Classes \cup {NoClass}]]
  /\ \A k \in Declarations :
       declared[k].name \in Classes /\ declared[k].enclosing \in 1..(k - 1)
  /\ open \in 1..Len(declared)
  /\ pass = "parse" => stack = <<>> /\ order = <<>> /\ next = 2
  /\ pass \in {"parse", "relations", "throws"} => laid = 0

\* The calls in progress lead from a class to its base, and every class met so
\* far is in one of them or done.
BuildInv ==
  /\ order \in Seq(Declarations) /\ IsInjective(order)
  /\ stack \in Seq(Declarations) /\ IsInjective(stack)
  /\ Range(stack) \cap Range(order) = {}
  /\ \A i \in 1..(Len(stack) - 1) : stack[i + 1] = BaseClass(stack[i])
  /\ next \in 2..(Len(declared) + 1)
  /\ 2..(next - 1) \subseteq Range(stack) \cup Range(order)
  /\ cycles = 0 => BasesBefore
  /\ cycles = 0 /\ stack # <<>> /\ returned /\ BaseClass(Top) # 0 =>
       BaseClass(Top) \in Range(order)
  /\ RelationsBuilt => stack = <<>> /\ next = Len(declared) + 1
  /\ RelationsBuilt /\ pass # "throws" => cycles = 0

WellFormed(k) ==
  /\ Len(info[k].slot_types) = Len(info[k].vtable_methods)
  /\ \A n \in Names :
       /\ SlotOf(k, n) \in 0..Len(info[k].vtable_methods)
       /\ SlotOf(k, n) # 0 => info[k].vtable_methods[SlotOf(k, n)].name = n

LayoutInv ==
  /\ laid \in 0..Len(order)
  /\ laid # 0 => filled \in 0..Len(methods[Current])
  /\ \A k \in Slots : WellFormed(k)
  /\ SlotsStable
  /\ NearestOverride

IInv == TypeOK /\ ProgramInv /\ BuildInv /\ LayoutInv

\* A class type has a base only if it has a declaration, which has its name, and the
\* methods LookupClassMember sees are those of the class.
TypesInv ==
  /\ \A c \in Classes :
       /\ classType[c].decl = 0 => classType[c].base = NoClass
       /\ classType[c].decl # 0 => declared[classType[c].decl].name = c
  /\ members \in Seq([Names -> [kind : MemberKinds \cup {"None"}, id : Nat, type : {NoClass}]])
  /\ Len(members) = Len(declared)
  /\ \A k \in Declarations, n \in Names :
       IF n \in MethodNames(k) THEN members[k][n] = MemberOf(k, "Method")
                               ELSE members[k][n] \in {NoMember, MemberOf(k, "Field")}

\* The chain of a class goes on from that of its base; an error is of a cycle of types.
ChainsInv ==
  /\ pass = "parse" => cycles = 0
  /\ cycles = 0 => \A k \in Range(order) : chains[k] = ChainThrough(k)
  /\ cycles > 0 => \E k \in Declarations : ReportsCycle(k)

\* Calls are made on complete tables.
CallsInv ==
  /\ pass \notin {"calls", "no slot"} => executed = NoCall
  /\ pass \in {"calls", "no slot"} => laid = Len(order) /\ ClassDone

DispatchInv == TypesInv /\ ChainsInv /\ CallsInv

-----------------------------------------------------------------------------
\* assert(slot_types[slot_index] == *method_type) (LLVMIRLowering.cpp:304)
OverridesKeepType == pass # "slot of another type"

\* assert(slot_it != class_info.slot_index_by_name.end()) (LLVMIRLowering.cpp:1453)
CallsHaveSlot == pass # "no slot"
=============================================================================
