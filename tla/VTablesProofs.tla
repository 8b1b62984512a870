---------------------------- MODULE VTablesProofs ----------------------------
(***************************************************************************)
(* IInv is an invariant of VTables, and with it the types, the order of    *)
(* classes, the stable slots and the overrides of the v-tables, for any    *)
(* classes, names and signatures and any number of them.  With DispatchInv *)
(* it shows that the reports of cycles, the lookup and the slots agree,    *)
(* and that calls through the v-tables implement DynamicDispatch.          *)
(***************************************************************************)
EXTENDS VTables, CommonLemmas

-----------------------------------------------------------------------------
(* What the variables of a pass are to the others *)

LEMMA BaseClassType ==
  ASSUME ProgramInv, NEW k \in Declarations
  PROVE  BaseClass(k) \in {0} \cup Declarations
  BY DEF ProgramInv, BaseClass

LEMMA DeclarationsAreSlots ==
  ASSUME ProgramInv
  PROVE  /\ Len(declared) \in Nat /\ Declarations \subseteq Slots
         /\ \A k \in Declarations : k # 0
  BY RelationsAssumption DEF ProgramInv, Declarations, Slots

\* A step before the layout has begun.
LEMMA LayoutNotBegun ==
  ASSUME LayoutInv, laid = 0, Len(order') \in Nat, UNCHANGED layoutVars
  PROVE  LayoutInv'
<1>1. laid' = 0 /\ info' = info
  BY DEF layoutVars
<1>2. \A k \in Slots : WellFormed(k)'
  BY <1>1 DEF LayoutInv, WellFormed, SlotOf
<1>3. SlotsStable' /\ NearestOverride'
  BY <1>1 DEF SlotsStable, NearestOverride
<1>4. QED BY <1>1, <1>2, <1>3 DEF LayoutInv

\* A step after it that leaves the program and the order alone.
LEMMA LayoutStays ==
  ASSUME LayoutInv, UNCHANGED <<programVars, buildVars, layoutVars>>
  PROVE  LayoutInv'
<1>1. UNCHANGED <<classType, declared, methods, order, laid, filled, info>>
  BY DEF programVars, classVars, buildVars, layoutVars
<1>2. \A k \in Slots : WellFormed(k)'
  BY <1>1 DEF LayoutInv, WellFormed, SlotOf
<1>3. SlotsStable'
  <2>1. \A k, n : SlotOf(k, n)' = SlotOf(k, n)
    BY <1>1 DEF SlotOf
  <2>2. \A k : BaseClass(k)' = BaseClass(k)
    BY <1>1 DEF BaseClass
  <2>3. \A k, b : ExtendsLayout(k, b)' <=> ExtendsLayout(k, b)
    BY <1>1, <2>1 DEF ExtendsLayout
  <2>4. QED BY <1>1, <2>2, <2>3 DEF LayoutInv, SlotsStable
<1>4. NearestOverride'
  <2>1. \A i : FilledNames(i)' = FilledNames(i)
    BY <1>1 DEF FilledNames, FilledOf
  <2>2. \A k, n : HasOwn(k, n)' <=> HasOwn(k, n)
    BY <1>1 DEF HasOwn, SlotOf
  <2>3. \A k, n : HasInherited(k, n)' <=> HasInherited(k, n)
    BY <1>1 DEF HasInherited, SameEntry, SlotOf, BaseClass
  <2>4. QED BY <1>1, <2>1, <2>2, <2>3 DEF LayoutInv, NearestOverride
<1>5. QED BY <1>1, <1>2, <1>3, <1>4 DEF LayoutInv, Current

-----------------------------------------------------------------------------
(* The initial states *)

LEMMA InitIInv == Init => IInv
<1> SUFFICES ASSUME Init PROVE IInv
  OBVIOUS
<1>1. /\ classType = [c \in Classes |-> [decl |-> 0, base |-> NoClass]]
      /\ declared = <<[name |-> NoClass, enclosing |-> 0]>>
      /\ methods = <<<<>>>> /\ open = 1 /\ pass = "parse" /\ next = 2 /\ stack = <<>>
      /\ returned = FALSE /\ order = <<>> /\ chains = [k \in Slots |-> <<>>] /\ cycles = 0
      /\ laid = 0 /\ filled = 0 /\ info = [k \in Slots |-> EmptyInfo]
  BY DEF Init, InitRelations, InitClassTypes, Program
<1>2. 1 \in Slots /\ Len(declared) = 1 /\ Declarations = {}
  BY <1>1, RelationsAssumption DEF Slots, Declarations
<1>3. EmptyInfo \in ClassInfos
  BY DEF EmptyInfo, ClassInfos
<1>4. TypeOK
  <2>1. /\ declared \in Seq([name : Classes \cup {NoClass}, enclosing : Nat])
        /\ methods \in Seq(Seq([name : Names, type : Signatures]))
    BY <1>1
  <2>2. chains \in [Slots -> Seq(Slots)] /\ order \in Seq(Slots) /\ stack \in Seq(Slots)
    BY <1>1
  <2>3. QED BY <1>1, <1>2, <1>3, <2>1, <2>2 DEF TypeOK, Passes
<1>5. ProgramInv
  BY <1>1, <1>2, RelationsAssumption DEF ProgramInv
<1>6. BuildInv
  BY <1>1, <1>2 DEF BuildInv, BasesBefore, IsInjective, Range, RelationsBuilt
<1>7. LayoutInv
  <2>1. \A k \in Slots : WellFormed(k)
    BY <1>1 DEF WellFormed, SlotOf, EmptyInfo
  <2>2. QED BY <1>1, <2>1 DEF LayoutInv, SlotsStable, NearestOverride
<1>8. QED BY <1>4, <1>5, <1>6, <1>7 DEF IInv

-----------------------------------------------------------------------------
(* The program is read *)

\* A step of the parser: there is no order of classes and no layout yet.
LEMMA ParseStep ==
  ASSUME IInv, pass = "parse", pass' \in {"parse", "relations"}, ProgramInv',
         UNCHANGED <<buildVars, layoutVars>>
  PROVE  BuildInv' /\ LayoutInv'
<1>1. /\ stack' = <<>> /\ order' = <<>> /\ next' = 2 /\ laid = 0
      /\ Len(declared') \in Nat \ {0}
  BY RelationsAssumption DEF IInv, ProgramInv, buildVars
<1>2. BuildInv'
  BY <1>1 DEF BuildInv, BasesBefore, IsInjective, Range, RelationsBuilt
<1>3. LayoutInv'
  BY <1>1, LayoutNotBegun DEF IInv
<1>4. QED BY <1>2, <1>3

LEMMA OpenClassStep ==
  ASSUME IInv, NEW c \in Classes, OpenClass(c), UNCHANGED <<layoutVars, executed>>
  PROVE  IInv'
<1> DEFINE class == [name |-> c, enclosing |-> open]
<1>1. /\ pass = "parse" /\ pass' = "parse" /\ Len(declared) <= MaxClasses
      /\ declared' = Append(declared, class) /\ methods' = Append(methods, <<>>)
      /\ open' = Len(declared') /\ classType' = classType
      /\ UNCHANGED <<buildVars, layoutVars>>
  BY DEF OpenClass
<1>2. /\ declared \in Seq([name : Classes \cup {NoClass}, enclosing : Nat])
      /\ class \in [name : Classes \cup {NoClass}, enclosing : Nat]
      /\ methods \in Seq(Seq([name : Names, type : Signatures]))
      /\ open \in 1..Len(declared) /\ Len(methods) = Len(declared) /\ Len(declared) \in Nat \ {0}
  BY RelationsAssumption DEF IInv, TypeOK, ProgramInv, Slots
<1>3. /\ declared' \in Seq([name : Classes \cup {NoClass}, enclosing : Nat])
      /\ Len(declared') = Len(declared) + 1
      /\ \A k \in 1..Len(declared) : declared'[k] = declared[k]
      /\ declared'[Len(declared) + 1] = class
  BY <1>1, <1>2, AppendType
<1>4. /\ methods' \in Seq(Seq([name : Names, type : Signatures]))
      /\ Len(methods') = Len(methods) + 1
  <2>1. <<>> \in Seq([name : Names, type : Signatures])
    BY EmptySeq
  <2>2. QED BY <1>1, <1>2, <2>1, AppendType
<1>5. TypeOK'
  <2>1. open' \in Slots
    BY <1>1, <1>2, <1>3, RelationsAssumption DEF Slots
  <2>2. QED BY <1>1, <1>3, <1>4, <2>1 DEF IInv, TypeOK, buildVars, layoutVars
<1>6. ProgramInv'
  <2>1. Declarations' = Declarations \cup {Len(declared) + 1}
    BY <1>2, <1>3 DEF Declarations
  <2>2. classType' \in [Classes -> [decl : {0} \cup Declarations', base : Classes \cup {NoClass}]]
    BY <1>1, <2>1 DEF IInv, ProgramInv
  <2>3. ASSUME NEW k \in Declarations'
        PROVE  declared'[k].name \in Classes /\ declared'[k].enclosing \in 1..(k - 1)
    <3>1. CASE k \in Declarations
      <4>1. declared'[k] = declared[k]
        BY <1>2, <1>3, <3>1 DEF Declarations
      <4>2. QED BY <3>1, <4>1 DEF IInv, ProgramInv
    <3>2. CASE k = Len(declared) + 1
      <4>1. declared'[k] = class
        BY <1>3, <3>2
      <4>2. QED BY <1>2, <3>2, <4>1
    <3>3. QED BY <2>1, <3>1, <3>2
  <2>4. Len(declared') \in 1..(MaxClasses + 1) /\ open' \in 1..Len(declared')
    BY <1>1, <1>2, <1>3, RelationsAssumption
  <2>5. /\ pass' = "parse" => stack' = <<>> /\ order' = <<>> /\ next' = 2
        /\ laid' = 0
    BY <1>1 DEF IInv, ProgramInv, buildVars, layoutVars
  <2>6. QED BY <1>2, <1>3, <1>4, <2>2, <2>3, <2>4, <2>5 DEF ProgramInv
<1>7. QED BY <1>1, <1>5, <1>6, ParseStep DEF IInv

LEMMA AddMethodStep ==
  ASSUME IInv, NEW n \in Names, NEW type \in Signatures, AddMethod(n, type),
         UNCHANGED <<layoutVars, executed>>
  PROVE  IInv'
<1> DEFINE method == [name |-> n, type |-> type]
<1>1. /\ pass = "parse" /\ pass' = "parse"
      /\ methods' = [methods EXCEPT ![open] = Append(methods[open], method)]
      /\ UNCHANGED <<classType, declared, open, buildVars, layoutVars>>
  BY DEF AddMethod, MayAdd
<1>2. /\ methods \in Seq(Seq([name : Names, type : Signatures]))
      /\ open \in 1..Len(methods)
      /\ method \in [name : Names, type : Signatures]
  BY DEF IInv, TypeOK, ProgramInv
<1>3. Append(methods[open], method) \in Seq([name : Names, type : Signatures])
  BY <1>2
<1>4. /\ methods' \in Seq(Seq([name : Names, type : Signatures]))
      /\ Len(methods') = Len(methods)
  BY <1>1, <1>2, <1>3, ExceptSeq
<1>5. TypeOK'
  BY <1>1, <1>4 DEF IInv, TypeOK, buildVars, layoutVars
<1>6. ProgramInv'
  BY <1>1, <1>4 DEF IInv, ProgramInv, Declarations, buildVars, layoutVars
<1>7. QED BY <1>1, <1>5, <1>6, ParseStep DEF IInv

LEMMA CloseClassStep ==
  ASSUME IInv, NEW base \in Classes \cup {NoClass}, CloseClass(base),
         UNCHANGED <<layoutVars, executed>>
  PROVE  IInv'
<1>1. /\ pass = "parse" /\ pass' = "parse" /\ open # 1
      /\ classType' = [classType EXCEPT ![declared[open].name] = [decl |-> open, base |-> base]]
      /\ open' = declared[open].enclosing
      /\ UNCHANGED <<declared, methods, buildVars, layoutVars>>
  BY DEF CloseClass, SyncClassType, Program
<1>2. open \in Declarations /\ Len(declared) \in 1..(MaxClasses + 1)
  BY <1>1, RelationsAssumption DEF IInv, ProgramInv, Declarations
<1>3. declared[open].name \in Classes /\ declared[open].enclosing \in 1..(open - 1)
  BY <1>2 DEF IInv, ProgramInv
<1>4. open' \in 1..Len(declared) /\ open' \in Slots
  BY <1>1, <1>2, <1>3, RelationsAssumption DEF Declarations, Slots
<1>5. TypeOK'
  BY <1>1, <1>4 DEF IInv, TypeOK, buildVars, layoutVars
<1>6. ProgramInv'
  BY <1>1, <1>2, <1>4 DEF IInv, ProgramInv, Declarations, buildVars, layoutVars
<1>7. QED BY <1>1, <1>5, <1>6, ParseStep DEF IInv

\* A field takes no slot.
LEMMA AddFieldStep ==
  ASSUME IInv, NEW n \in Names, AddField(n), UNCHANGED <<layoutVars, executed>>
  PROVE  IInv'
<1>1. /\ pass = "parse" /\ pass' = "parse"
      /\ UNCHANGED <<classType, declared, methods, open, buildVars, layoutVars>>
  BY DEF AddField, MayAdd
<1>2. TypeOK'
  BY <1>1 DEF IInv, TypeOK, Passes, buildVars, layoutVars
<1>3. ProgramInv'
  BY <1>1 DEF IInv, ProgramInv, Declarations, buildVars, layoutVars
<1>4. QED BY <1>1, <1>2, <1>3, ParseStep DEF IInv

LEMMA EndProgramStep ==
  ASSUME IInv, EndProgram, UNCHANGED <<layoutVars, executed>>
  PROVE  IInv'
<1>1. /\ pass = "parse" /\ pass' = "relations"
      /\ UNCHANGED <<classType, declared, methods, open, buildVars, layoutVars>>
  BY DEF EndProgram, programVars, classVars
<1>2. TypeOK'
  BY <1>1 DEF IInv, TypeOK, Passes, buildVars, layoutVars
<1>3. ProgramInv'
  BY <1>1 DEF IInv, ProgramInv, Declarations, buildVars, layoutVars
<1>4. QED BY <1>1, <1>2, <1>3, ParseStep DEF IInv

-----------------------------------------------------------------------------
(* The order of classes is built *)

LEMMA TopFacts ==
  ASSUME BuildInv, stack # <<>>
  PROVE  /\ Len(stack) \in Nat \ {0} /\ Top = stack[Len(stack)] /\ Top \in Declarations
         /\ Top \in Range(stack) /\ Top \notin Range(order)
<1>1. stack \in Seq(Declarations)
  BY DEF BuildInv
<1>2. Len(stack) \in Nat \ {0} /\ Top = stack[Len(stack)] /\ Top \in Declarations
  BY <1>1, LastProperties DEF Top
<1>3. Top \in Range(stack)
  BY <1>1, <1>2, RangeEquality
<1>4. QED BY <1>2, <1>3 DEF BuildInv

\* What a step of BuildClassRelations leaves as it was.
LEMMA RelationsStep ==
  ASSUME IInv, pass = "relations", pass' # "parse", UNCHANGED <<programVars, layoutVars>>
  PROVE  /\ Declarations' = Declarations /\ Len(declared)' = Len(declared)
         /\ \A k : BaseClass(k)' = BaseClass(k)
         /\ ProgramInv' /\ laid = 0
<1>1. UNCHANGED <<classType, declared, methods, open, laid, filled, info>> /\ laid = 0
  BY DEF IInv, ProgramInv, programVars, classVars, layoutVars
<1>2. Declarations' = Declarations
  BY <1>1 DEF Declarations
<1>3. QED BY <1>1, <1>2 DEF IInv, ProgramInv, BaseClass

LEMMA CallStep ==
  ASSUME IInv, pass = "relations", NEW k \in Declarations, Call(k),
         UNCHANGED <<programVars, pass, order, chains, layoutVars>>,
         next' \in 2..(Len(declared) + 1), 2..(next' - 1) \subseteq (2..(next - 1)) \cup {k},
         stack # <<>> => k = BaseClass(Top)
  PROVE  IInv'
<1>1. /\ Declarations' = Declarations /\ Len(declared)' = Len(declared)
      /\ \A d : BaseClass(d)' = BaseClass(d)
      /\ ProgramInv' /\ laid = 0
  BY RelationsStep
<1>2. /\ stack \in Seq(Declarations) /\ stack \in Seq(Slots) /\ k \in Slots
      /\ order' = order /\ order \in Seq(Declarations) /\ Len(order) \in Nat
      /\ cycles \in Nat /\ next' \in Nat
  BY DeclarationsAreSlots, LenProperties DEF IInv, BuildInv, TypeOK
<1>3. /\ stack' \in Seq(Declarations) /\ stack' \in Seq(Slots)
      /\ IsInjective(stack') /\ Range(stack') \cap Range(order) = {}
      /\ Range(stack) \cup {k} \subseteq Range(stack') \cup Range(order)
      /\ \A i \in 1..(Len(stack') - 1) : stack'[i + 1] = BaseClass(stack'[i])
      /\ cycles' = 0 /\ stack' # <<>> /\ returned' /\ BaseClass(Last(stack')) # 0 =>
           BaseClass(Last(stack')) \in Range(order)
      /\ returned' \in BOOLEAN /\ cycles' \in Nat /\ (cycles' = 0 => cycles = 0)
  <2>1. CASE k \in Range(order) /\ returned' = TRUE /\ UNCHANGED <<stack, cycles>>
    BY <1>2, <2>1 DEF IInv, BuildInv, Top
  <2>2. CASE /\ k \notin Range(order) /\ k \in Range(stack) /\ cycles' = cycles + 1
             /\ returned' = TRUE /\ UNCHANGED stack
    BY <1>2, <2>2 DEF IInv, BuildInv
  <2>3. CASE /\ k \notin Range(order) /\ k \notin Range(stack) /\ stack' = Append(stack, k)
             /\ returned' = FALSE /\ UNCHANGED cycles
    <3>1. /\ stack' \in Seq(Declarations) /\ stack' \in Seq(Slots)
          /\ Len(stack) \in Nat /\ Len(stack') = Len(stack) + 1
          /\ \A i \in 1..Len(stack) : stack'[i] = stack[i]
          /\ stack'[Len(stack) + 1] = k
      BY <1>2, <2>3, AppendType, LenProperties
    <3>2. Range(stack') = Range(stack) \cup {k} /\ IsInjective(stack')
      BY <1>2, <2>3, RangeOfAppend DEF IInv, BuildInv
    <3>3. ASSUME NEW i \in 1..(Len(stack') - 1)
          PROVE  stack'[i + 1] = BaseClass(stack'[i])
      <4>1. CASE i < Len(stack)
        BY <3>1, <4>1 DEF IInv, BuildInv
      <4>2. CASE i = Len(stack)
        <5>1. stack # <<>> /\ stack'[i] = Top
          BY <1>2, <3>1, <4>2, TopFacts, EmptySeq DEF IInv
        <5>2. QED BY <3>1, <4>2, <5>1
      <4>3. QED BY <3>1, <4>1, <4>2
    <3>4. QED BY ZenonT(60), <1>2, <2>3, <3>1, <3>2, <3>3 DEF IInv, BuildInv
  <2>4. QED BY <2>1, <2>2, <2>3 DEF Call
<1>4. TypeOK'
  BY <1>2, <1>3 DEF IInv, TypeOK, programVars, classVars, layoutVars
<1>5. cycles' = 0 => BasesBefore'
  BY <1>1, <1>2, <1>3 DEF IInv, BuildInv, BasesBefore
<1>6. BuildInv'
  <2>1. 2..(next' - 1) \subseteq Range(stack') \cup Range(order)
    BY <1>3 DEF IInv, BuildInv
  <2>2. QED BY <1>1, <1>2, <1>3, <1>5, <2>1 DEF IInv, BuildInv, Top, RelationsBuilt
<1>7. LayoutInv'
  BY <1>1, <1>2, LayoutNotBegun DEF IInv
<1>8. QED BY <1>1, <1>4, <1>6, <1>7 DEF IInv

LEMMA CallForNextStep ==
  ASSUME IInv, CallForNext, UNCHANGED <<layoutVars, executed>>
  PROVE  IInv'
<1>1. /\ pass = "relations" /\ stack = <<>> /\ next \in Declarations /\ next' = next + 1
      /\ Call(next) /\ UNCHANGED <<programVars, pass, order, chains, layoutVars>>
  BY DEF CallForNext
<1>2. next' \in 2..(Len(declared) + 1) /\ 2..(next' - 1) \subseteq (2..(next - 1)) \cup {next}
  BY <1>1, RelationsAssumption DEF IInv, ProgramInv, Declarations
<1>3. QED BY <1>1, <1>2, CallStep

LEMMA CallForBaseStep ==
  ASSUME IInv, CallForBase, UNCHANGED <<layoutVars, executed>>
  PROVE  IInv'
<1>1. /\ pass = "relations" /\ stack # <<>> /\ next' = next /\ BaseClass(Top) # 0
      /\ Call(BaseClass(Top)) /\ UNCHANGED <<programVars, pass, order, chains, layoutVars>>
  BY DEF CallForBase
<1>2. BaseClass(Top) \in Declarations
  BY <1>1, TopFacts, BaseClassType DEF IInv
<1>3. next' \in 2..(Len(declared) + 1)
  BY <1>1 DEF IInv, BuildInv
<1>4. QED BY <1>1, <1>2, <1>3, CallStep

LEMMA FinishClassStep ==
  ASSUME IInv, FinishClass, UNCHANGED <<layoutVars, executed>>
  PROVE  IInv'
<1>1. /\ pass = "relations" /\ pass' = "relations" /\ stack # <<>>
      /\ returned \/ BaseClass(Top) = 0
      /\ chains' = [chains EXCEPT ![Top] = ChainThrough(Top)]
      /\ order' = Append(order, Top) /\ stack' = Front(stack) /\ returned' = TRUE
      /\ UNCHANGED <<programVars, next, cycles, layoutVars>>
  BY DEF FinishClass, OrderWith
<1>2. /\ Declarations' = Declarations /\ Len(declared)' = Len(declared)
      /\ \A d : BaseClass(d)' = BaseClass(d)
      /\ ProgramInv' /\ laid = 0
  BY <1>1, RelationsStep
<1>3. /\ Len(stack) \in Nat \ {0} /\ Top = stack[Len(stack)] /\ Top \in Declarations
      /\ Top \in Range(stack) /\ Top \notin Range(order)
  BY <1>1, TopFacts DEF IInv
<1>4. /\ stack \in Seq(Declarations) /\ order \in Seq(Declarations)
      /\ IsInjective(stack) /\ IsInjective(order) /\ Range(stack) \cap Range(order) = {}
  BY DEF IInv, BuildInv
<1>5. /\ stack' \in Seq(Declarations) /\ Len(stack') = Len(stack) - 1
      /\ \A i \in 1..(Len(stack) - 1) : stack'[i] = stack[i]
      /\ Range(stack) = Range(stack') \cup {Top} /\ Top \notin Range(stack')
      /\ IsInjective(stack')
  BY <1>1, <1>4, FrontProperties, RangeOfFront DEF Top
<1>6. /\ order' \in Seq(Declarations) /\ Len(order) \in Nat /\ Len(order') = Len(order) + 1
      /\ \A i \in 1..Len(order) : order'[i] = order[i]
      /\ order'[Len(order) + 1] = Top
      /\ Range(order') = Range(order) \cup {Top} /\ IsInjective(order')
      /\ DOMAIN order = 1..Len(order) /\ DOMAIN order' = 1..(Len(order) + 1)
  BY <1>1, <1>3, <1>4, AppendType, RangeOfAppend, LenProperties
<1>7. TypeOK'
  <2>1. /\ stack' \in Seq(Slots) /\ order' \in Seq(Slots)
        /\ Top \in Slots /\ BaseClass(Top) \in {0} \cup Slots
    BY <1>3, <1>5, <1>6, DeclarationsAreSlots, BaseClassType DEF IInv
  <2>2. chains \in [Slots -> Seq(Slots)]
    BY DEF IInv, TypeOK
  <2>3. ChainThrough(Top) \in Seq(Slots)
    <3>1. (IF BaseClass(Top) = 0 THEN <<>> ELSE chains[BaseClass(Top)]) \in Seq(Slots)
      BY <2>1, <2>2
    <3>2. QED BY <2>1, <3>1, AppendType DEF ChainThrough
  <2>4. chains' \in [Slots -> Seq(Slots)]
    BY <1>1, <2>2, <2>3
  <2>5. QED BY <1>1, <2>1, <2>4 DEF IInv, TypeOK, programVars, classVars, layoutVars
<1>8. \A i \in 1..(Len(stack') - 1) : stack'[i + 1] = BaseClass(stack'[i])
  BY <1>3, <1>5 DEF IInv, BuildInv
<1>9. ASSUME cycles' = 0
      PROVE  BasesBefore'
  <2>1. BasesBefore
    BY <1>1, <1>9 DEF IInv, BuildInv
  <2>2. SUFFICES ASSUME NEW i \in 1..(Len(order) + 1), BaseClass(order'[i]) # 0
                 PROVE  \E j \in 1..(i - 1) : order'[j] = BaseClass(order'[i])
    BY <1>2, <1>6 DEF BasesBefore
  <2>3. CASE i \in 1..Len(order)
    <3>1. order'[i] = order[i]
      BY <1>6, <2>3
    <3>2. PICK j \in 1..(i - 1) : order[j] = BaseClass(order[i])
      BY <1>6, <2>1, <2>2, <2>3, <3>1 DEF BasesBefore
    <3>3. order'[j] = order[j]
      BY <1>6, <2>3, <3>2
    <3>4. QED BY <3>1, <3>2, <3>3
  <2>4. CASE i = Len(order) + 1
    <3>1. order'[i] = Top /\ BaseClass(Top) \in Range(order)
      BY <1>1, <1>6, <1>9, <2>2, <2>4 DEF IInv, BuildInv
    <3>2. PICK j \in 1..Len(order) : order[j] = BaseClass(Top)
      BY <1>6, <3>1 DEF Range
    <3>3. QED BY <1>6, <2>4, <3>1, <3>2
  <2>5. QED BY <1>6, <2>3, <2>4
<1>10. ASSUME stack' # <<>>
       PROVE  BaseClass(Last(stack')) \in Range(order')
  <2>1. Len(stack') \in Nat \ {0} /\ Last(stack') = stack'[Len(stack')]
    BY <1>5, <1>10, LastProperties
  <2>2. stack[Len(stack') + 1] = BaseClass(stack[Len(stack')])
    BY <1>3, <1>5, <2>1 DEF IInv, BuildInv
  <2>3. BaseClass(Last(stack')) = Top
    BY <1>3, <1>5, <2>1, <2>2
  <2>4. QED BY <1>6, <2>3
<1>11. BuildInv'
  <2>1. /\ Range(stack') \cap Range(order') = {}
        /\ Range(stack) \cup Range(order) = Range(stack') \cup Range(order')
    BY <1>3, <1>4, <1>5, <1>6
  <2>2. 2..(next' - 1) \subseteq Range(stack') \cup Range(order')
    BY <1>1, <2>1 DEF IInv, BuildInv
  <2>3. QED BY <1>1, <1>2, <1>5, <1>6, <1>8, <1>9, <1>10, <2>1, <2>2
            DEF IInv, BuildInv, RelationsBuilt, Top
<1>12. LayoutInv'
  BY <1>1, <1>2, <1>6, LayoutNotBegun DEF IInv
<1>13. QED BY <1>2, <1>7, <1>11, <1>12 DEF IInv

\* A step that only changes pass, executed or neither.
LEMMA PassStep ==
  ASSUME IInv, UNCHANGED <<programVars, buildVars, layoutVars>>,
         pass' \in Passes \ {"parse"}, pass' \in {"relations", "throws"} => laid = 0,
         RelationsBuilt' => stack = <<>> /\ next = Len(declared) + 1,
         RelationsBuilt' /\ pass' # "throws" => cycles = 0
  PROVE  IInv'
<1>1. /\ UNCHANGED <<classType, declared, methods, open>>
      /\ UNCHANGED <<next, stack, returned, order, chains, cycles>>
      /\ UNCHANGED <<laid, filled, info>>
  BY DEF programVars, classVars, buildVars, layoutVars
<1>2. TypeOK'
  BY <1>1 DEF IInv, TypeOK
<1>3. ProgramInv'
  BY <1>1 DEF IInv, ProgramInv, Declarations
<1>4. BuildInv'
  <2>1. \A k : BaseClass(k)' = BaseClass(k)
    BY <1>1 DEF BaseClass
  <2>2. Declarations' = Declarations /\ Top' = Top
    BY <1>1 DEF Declarations, Top
  <2>3. BasesBefore' <=> BasesBefore
    BY <1>1, <2>1 DEF BasesBefore
  <2>4. QED BY <1>1, <2>1, <2>2, <2>3 DEF IInv, BuildInv, RelationsBuilt
<1>5. LayoutInv'
  BY LayoutStays DEF IInv
<1>6. QED BY <1>2, <1>3, <1>4, <1>5 DEF IInv

LEMMA EndRelationsStep ==
  ASSUME IInv, EndRelations, UNCHANGED <<layoutVars, executed>>
  PROVE  IInv'
<1>1. /\ pass = "relations" /\ stack = <<>> /\ next \notin Declarations
      /\ pass' = IF cycles > 0 THEN "throws" ELSE "layout"
      /\ UNCHANGED <<programVars, buildVars, layoutVars>>
  BY DEF EndRelations
<1>2. /\ next \in 2..(Len(declared) + 1) /\ Len(declared) \in Nat
      /\ cycles \in Nat /\ laid = 0
  BY <1>1, DeclarationsAreSlots DEF IInv, TypeOK, ProgramInv, BuildInv
<1>3. next = Len(declared) + 1
  BY <1>1, <1>2 DEF Declarations
<1>4. QED BY <1>1, <1>2, <1>3, PassStep DEF Passes

-----------------------------------------------------------------------------
(* The layout *)

\* What holds while the classes are laid out, and what a step of it leaves.
LEMMA LayoutFacts ==
  ASSUME IInv, pass = "layout"
  PROVE  /\ BasesBefore /\ IsInjective(order) /\ order \in Seq(Declarations)
         /\ Len(order) \in Nat /\ DOMAIN order = 1..Len(order)
         /\ \A i \in 1..Len(order) : order[i] \in Declarations /\ order[i] \in Slots
         /\ laid \in 0..Len(order)
         /\ info \in [Slots -> ClassInfos]
<1>1. cycles = 0 /\ order \in Seq(Declarations) /\ IsInjective(order)
  BY DEF IInv, BuildInv, RelationsBuilt
<1>2. /\ Len(order) \in Nat /\ DOMAIN order = 1..Len(order)
      /\ \A i \in 1..Len(order) : order[i] \in Declarations
  BY <1>1, LenProperties, ElementOfSeq
<1>3. QED BY <1>1, <1>2, DeclarationsAreSlots DEF IInv, BuildInv, LayoutInv, TypeOK

LEMMA LayoutStep ==
  ASSUME IInv, pass = "layout", pass' = "layout", UNCHANGED <<programVars, buildVars>>
  PROVE  /\ UNCHANGED <<classType, declared, methods, open>>
         /\ UNCHANGED <<next, stack, returned, order, chains, cycles>>
         /\ \A k : BaseClass(k)' = BaseClass(k)
         /\ ProgramInv' /\ BuildInv'
<1>1. /\ UNCHANGED <<classType, declared, methods, open>>
      /\ UNCHANGED <<next, stack, returned, order, chains, cycles>>
  BY DEF programVars, classVars, buildVars
<1>2. /\ \A k : BaseClass(k)' = BaseClass(k)
      /\ Declarations' = Declarations /\ Top' = Top
  BY <1>1 DEF BaseClass, Declarations, Top
<1>3. ProgramInv'
  BY <1>1, <1>2 DEF IInv, ProgramInv
<1>4. BasesBefore' <=> BasesBefore
  BY <1>1, <1>2 DEF BasesBefore
<1>5. BuildInv'
  BY <1>1, <1>2, <1>4 DEF IInv, BuildInv, RelationsBuilt
<1>6. QED BY <1>1, <1>2, <1>3, <1>5

\* Classes laid out before are neither the one in hand nor have it as a base.
LEMMA EarlierClasses ==
  ASSUME BasesBefore, IsInjective(order), DOMAIN order = 1..Len(order), Len(order) \in Nat,
         NEW i \in 1..Len(order), NEW h \in i..Len(order)
  PROVE  /\ h # i => order[i] # order[h]
         /\ BaseClass(order[i]) # 0 => /\ BaseClass(order[i]) # order[h]
                                       /\ BaseClass(order[i]) \in {order[j] : j \in 1..(i - 1)}
<1>1. h # i => order[i] # order[h]
  BY DEF IsInjective
<1>2. ASSUME BaseClass(order[i]) # 0
      PROVE  /\ BaseClass(order[i]) # order[h]
             /\ BaseClass(order[i]) \in {order[j] : j \in 1..(i - 1)}
  <2>1. PICK j \in 1..(i - 1) : order[j] = BaseClass(order[i])
    BY <1>2 DEF BasesBefore
  <2>2. j \in 1..Len(order) /\ j # h
    BY <2>1
  <2>3. QED BY <2>1, <2>2 DEF IsInjective
<1>3. QED BY <1>1, <1>2

\* What the invariant says of a class already laid out outlives a step that
\* gives another ClassInfo to class h of the order, and no slot to it.
LEMMA EarlierStays ==
  ASSUME BasesBefore, IsInjective(order), DOMAIN order = 1..Len(order), Len(order) \in Nat,
         UNCHANGED <<order, methods>>, \A k : BaseClass(k)' = BaseClass(k),
         NEW i \in 1..Len(order), NEW h \in (i + 1)..Len(order),
         \A k \in {order[j] : j \in 1..Len(order)} : k # order[h] => info'[k] = info[k],
         FilledOf(i)' = FilledOf(i)
  PROVE  /\ (BaseClass(order[i]) # 0 => ExtendsLayout(order[i], BaseClass(order[i])))
            => (BaseClass(order[i]) # 0 => ExtendsLayout(order[i], BaseClass(order[i])))'
         /\ (\A n \in Names :
               IF n \in FilledNames(i) THEN HasOwn(order[i], n) ELSE HasInherited(order[i], n))
            => (\A n \in Names :
               IF n \in FilledNames(i) THEN HasOwn(order[i], n) ELSE HasInherited(order[i], n))'
<1>1. /\ order[i] # order[h]
      /\ BaseClass(order[i]) # 0 => /\ BaseClass(order[i]) # order[h]
                                    /\ BaseClass(order[i]) \in {order[j] : j \in 1..(i - 1)}
  BY EarlierClasses
<1>2. /\ info'[order[i]] = info[order[i]]
      /\ BaseClass(order[i]) # 0 => info'[BaseClass(order[i])] = info[BaseClass(order[i])]
  BY <1>1
<1>3. FilledNames(i)' = FilledNames(i)
  BY DEF FilledNames
<1>4. QED BY ZenonT(60), <1>2, <1>3 DEF ExtendsLayout, HasOwn, HasInherited, SameEntry, SlotOf

\* A step that gives the h-th class another ClassInfo: it is enough that the
\* invariant holds of that class.
LEMMA LayoutOfOne ==
  ASSUME IInv, pass = "layout", pass' = "layout", UNCHANGED <<programVars, buildVars>>,
         NEW h \in 1..Len(order), laid' = h, filled' \in 0..Len(methods[order[h]]),
         NEW row \in ClassInfos, info' = [info EXCEPT ![order[h]] = row],
         h = laid \/ (h = laid + 1 /\ ClassDone),
         WellFormed(order[h])',
         BaseClass(order[h]) # 0 => ExtendsLayout(order[h], BaseClass(order[h]))',
         \A n \in Names :
           IF n \in FilledNames(h)' THEN HasOwn(order[h], n)' ELSE HasInherited(order[h], n)'
  PROVE  IInv'
<1>1. /\ BasesBefore /\ IsInjective(order) /\ order \in Seq(Declarations)
      /\ Len(order) \in Nat /\ DOMAIN order = 1..Len(order)
      /\ \A i \in 1..Len(order) : order[i] \in Declarations /\ order[i] \in Slots
      /\ laid \in 0..Len(order) /\ info \in [Slots -> ClassInfos]
  BY LayoutFacts
<1>2. /\ UNCHANGED <<classType, declared, methods, open>>
      /\ UNCHANGED <<next, stack, returned, order, chains, cycles>>
      /\ \A k : BaseClass(k)' = BaseClass(k)
      /\ ProgramInv' /\ BuildInv'
  BY LayoutStep
<1>3. info' \in [Slots -> ClassInfos] /\ \A k \in Slots : k # order[h] => info'[k] = info[k]
  BY <1>1
<1>4. filled' \in Nat /\ laid' \in Nat
  <2>1. order[h] \in 1..Len(methods)
    BY <1>1 DEF IInv, ProgramInv, Declarations
  <2>2. methods[order[h]] \in Seq([name : Names, type : Signatures])
    BY <2>1 DEF IInv, TypeOK
  <2>3. QED BY <2>2, LenProperties
<1>5. TypeOK'
  BY <1>2, <1>3, <1>4 DEF IInv, TypeOK
<1>6. \A k \in Slots : WellFormed(k)'
  BY <1>2, <1>3 DEF IInv, LayoutInv, WellFormed, SlotOf
<1>7. ASSUME NEW i \in 1..(h - 1)
      PROVE  /\ (BaseClass(order[i]) # 0 => ExtendsLayout(order[i], BaseClass(order[i])))'
             /\ (\A n \in Names :
                   IF n \in FilledNames(i) THEN HasOwn(order[i], n) ELSE HasInherited(order[i], n))'
  <2>1. i \in 1..Len(order) /\ h \in (i + 1)..Len(order) /\ i \in 1..laid
    BY <1>1
  <2>2. FilledOf(i)' = FilledOf(i)
    BY <1>1, <1>2, <2>1 DEF FilledOf, ClassDone, Current
  <2>3. \A k \in {order[j] : j \in 1..Len(order)} : k # order[h] => info'[k] = info[k]
    BY <1>1, <1>3
  <2>4. /\ BaseClass(order[i]) # 0 => ExtendsLayout(order[i], BaseClass(order[i]))
        /\ \A n \in Names :
             IF n \in FilledNames(i) THEN HasOwn(order[i], n) ELSE HasInherited(order[i], n)
    BY <2>1 DEF IInv, LayoutInv, SlotsStable, NearestOverride
  <2>5. QED BY <1>1, <1>2, <2>1, <2>2, <2>3, <2>4, EarlierStays
<1>8. SlotsStable' /\ NearestOverride'
  <2>1. 1..laid' = 1..(h - 1) \cup {h}
    OBVIOUS
  <2>2. order' = order
    BY <1>2
  <2>3. (BaseClass(order[h]) # 0 => ExtendsLayout(order[h], BaseClass(order[h])))'
    BY <1>2
  <2>4. SlotsStable'
    BY <1>7, <2>1, <2>2, <2>3 DEF SlotsStable
  <2>5. NearestOverride'
    BY <1>7, <2>1, <2>2 DEF NearestOverride
  <2>6. QED BY <2>4, <2>5
<1>9. LayoutInv'
  BY <1>1, <1>2, <1>6, <1>8 DEF LayoutInv, Current
<1>10. QED BY <1>2, <1>5, <1>9 DEF IInv

LEMMA BeginClassStep ==
  ASSUME IInv, BeginClass
  PROVE  IInv'
<1> PICK h : h = laid + 1
  OBVIOUS
<1> PICK k : k = order[h]
  OBVIOUS
<1> PICK row : row = InheritedLayout(k)
  OBVIOUS
<1>1. /\ pass = "layout" /\ pass' = "layout" /\ ClassDone /\ laid < Len(order)
      /\ info' = [info EXCEPT ![k] = row] /\ laid' = h /\ filled' = 0
      /\ UNCHANGED <<programVars, buildVars>>
  BY DEF BeginClass
<1>2. /\ BasesBefore /\ IsInjective(order) /\ Len(order) \in Nat /\ DOMAIN order = 1..Len(order)
      /\ h \in 1..Len(order) /\ k \in Declarations /\ k \in Slots
      /\ laid \in 0..Len(order) /\ info \in [Slots -> ClassInfos]
  BY <1>1, LayoutFacts
<1>3. /\ UNCHANGED <<methods, order>> /\ \A d : BaseClass(d)' = BaseClass(d)
  BY <1>1, LayoutStep
<1>4. BaseClass(k) # 0 => BaseClass(k) # k /\ BaseClass(k) \in Slots
  <2>1. BaseClass(k) # 0 => BaseClass(k) # order[h]
    BY <1>2, EarlierClasses
  <2>2. BaseClass(k) \in {0} \cup Slots
    BY <1>2, BaseClassType, DeclarationsAreSlots DEF IInv
  <2>3. QED BY <2>1, <2>2
<1>5. /\ row \in ClassInfos /\ row = IF BaseClass(k) = 0 THEN EmptyInfo ELSE info[BaseClass(k)]
  BY <1>2, <1>4 DEF InheritedLayout, EmptyInfo, ClassInfos
<1>6. info'[k] = row /\ (BaseClass(k) # 0 => info'[BaseClass(k)] = row)
  BY <1>1, <1>2, <1>4, <1>5
<1>7. WellFormed(k)'
  <2>1. CASE BaseClass(k) = 0
    BY <1>5, <1>6, <2>1 DEF WellFormed, SlotOf, EmptyInfo
  <2>2. CASE BaseClass(k) # 0
    <3>1. WellFormed(BaseClass(k))
      BY <1>4, <2>2 DEF IInv, LayoutInv
    <3>2. QED BY <1>5, <1>6, <2>2, <3>1 DEF WellFormed, SlotOf
  <2>3. QED BY <2>1, <2>2
<1>8. BaseClass(k) # 0 => ExtendsLayout(k, BaseClass(k))'
  BY <1>3, <1>6 DEF ExtendsLayout, SlotOf
<1>9. ASSUME NEW n \in Names
      PROVE  n \notin FilledNames(h)' /\ HasInherited(k, n)'
  <2>1. FilledNames(h)' = {}
    BY <1>1 DEF FilledNames, FilledOf
  <2>2. CASE BaseClass(k) = 0
    BY <1>3, <1>5, <1>6, <2>1, <2>2 DEF HasInherited, SameEntry, SlotOf, EmptyInfo
  <2>3. CASE BaseClass(k) # 0
    BY <1>3, <1>6, <2>1, <2>3 DEF HasInherited, SameEntry, SlotOf
  <2>4. QED BY <2>1, <2>2, <2>3
<1>10. filled' \in 0..Len(methods[k])
  <2>1. k \in 1..Len(methods)
    BY <1>2 DEF IInv, ProgramInv, Declarations
  <2>2. methods[k] \in Seq([name : Names, type : Signatures])
    BY <2>1 DEF IInv, TypeOK
  <2>3. QED BY <1>1, <2>2, LenProperties
<1>11. /\ WellFormed(order[h])' /\ filled' \in 0..Len(methods[order[h]])
       /\ info' = [info EXCEPT ![order[h]] = row]
       /\ BaseClass(order[h]) # 0 => ExtendsLayout(order[h], BaseClass(order[h]))'
       /\ \A n \in Names :
            IF n \in FilledNames(h)' THEN HasOwn(order[h], n)' ELSE HasInherited(order[h], n)'
  BY <1>1, <1>3, <1>7, <1>8, <1>9, <1>10
<1>12. h = laid \/ (h = laid + 1 /\ ClassDone)
  BY <1>1
<1>13. QED BY <1>1, <1>2, <1>5, <1>11, <1>12, LayoutOfOne

\* The class in hand and the method to be given a slot.
LEMMA CurrentFacts ==
  ASSUME IInv, pass = "layout", ~ClassDone
  PROVE  /\ laid \in 1..Len(order) /\ Current = order[laid] /\ Current \in Slots
         /\ filled \in Nat /\ filled + 1 \in 1..Len(methods[Current])
         /\ Method.name \in Names /\ Method.type \in Signatures
         /\ info[Current] \in ClassInfos /\ WellFormed(Current)
<1>1. /\ laid \in 1..Len(order) /\ filled \in 0..Len(methods[Current])
      /\ filled # Len(methods[Current]) /\ Len(order) \in Nat
      /\ Current \in Declarations /\ Current \in Slots
  BY LayoutFacts DEF IInv, LayoutInv, ClassDone, Current
<1>2. Current \in 1..Len(methods)
  BY <1>1 DEF IInv, ProgramInv, Declarations
<1>3. methods[Current] \in Seq([name : Names, type : Signatures])
  BY <1>2 DEF IInv, TypeOK
<1>4. Len(methods[Current]) \in Nat /\ filled + 1 \in 1..Len(methods[Current]) /\ filled \in Nat
  BY <1>1, <1>3, LenProperties
<1>5. Method \in [name : Names, type : Signatures]
  BY <1>3, <1>4, ElementOfSeq DEF Method
<1>6. QED BY <1>1, <1>4, <1>5, LayoutFacts DEF IInv, LayoutInv, Current

\* The ClassInfo of class k with a slot for one more method: the slots there
\* were stay, and the other names keep theirs.
FillsSlot(k, name, row) ==
  /\ Len(row.slot_types) = Len(row.vtable_methods)
  /\ \A i \in 1..Len(info[k].slot_types) :
       i \in 1..Len(row.slot_types) /\ row.slot_types[i] = info[k].slot_types[i]
  /\ row.slot_index[name] \in 1..Len(row.vtable_methods)
  /\ row.vtable_methods[row.slot_index[name]] = [class |-> k, name |-> name]
  /\ SlotOf(k, name) # 0 => row.slot_index[name] = SlotOf(k, name)
  /\ \A n \in Names \ {name} :
       /\ row.slot_index[n] = SlotOf(k, n)
       /\ SlotOf(k, n) # 0 =>
            /\ SlotOf(k, n) \in 1..Len(row.vtable_methods)
            /\ row.vtable_methods[SlotOf(k, n)] = info[k].vtable_methods[SlotOf(k, n)]

LEMMA FillSlot ==
  ASSUME IInv, pass = "layout", pass' = "layout", ~ClassDone,
         UNCHANGED <<programVars, buildVars, laid>>, filled' = filled + 1,
         NEW k, k = Current, NEW name, name = Method.name,
         NEW row \in ClassInfos, info' = [info EXCEPT ![k] = row], FillsSlot(k, name, row)
  PROVE  IInv'
<1> PICK h : h = laid
  OBVIOUS
<1>1. /\ BasesBefore /\ IsInjective(order) /\ Len(order) \in Nat /\ DOMAIN order = 1..Len(order)
      /\ h \in 1..Len(order) /\ k = order[h] /\ k \in Slots /\ laid' = h
      /\ filled \in Nat /\ filled + 1 \in 1..Len(methods[k])
      /\ name \in Names /\ info \in [Slots -> ClassInfos] /\ WellFormed(k)
      /\ row.slot_index \in [Names -> Nat]
  BY LayoutFacts, CurrentFacts DEF ClassInfos
<1>2. /\ UNCHANGED <<methods, order>> /\ \A d : BaseClass(d)' = BaseClass(d)
  BY LayoutStep
<1>3. BaseClass(k) # 0 => BaseClass(k) # k /\ BaseClass(k) \in Slots
  <2>1. BaseClass(k) # 0 => BaseClass(k) # order[h]
    BY <1>1, EarlierClasses
  <2>2. k \in Declarations
    BY <1>1, LayoutFacts
  <2>3. BaseClass(k) \in {0} \cup Slots
    BY <2>2, BaseClassType, DeclarationsAreSlots DEF IInv
  <2>4. QED BY <1>1, <2>1, <2>3
<1>4. info'[k] = row /\ (BaseClass(k) # 0 => info'[BaseClass(k)] = info[BaseClass(k)])
  BY <1>1, <1>3
<1>5. WellFormed(k)'
  <2>1. ASSUME NEW n \in Names
        PROVE  /\ row.slot_index[n] \in 0..Len(row.vtable_methods)
               /\ row.slot_index[n] # 0 => row.vtable_methods[row.slot_index[n]].name = n
    <3>1. CASE n = name
      BY <3>1 DEF FillsSlot
    <3>2. CASE n # name
      BY SMTT(30), <1>1, <3>2 DEF WellFormed, FillsSlot
    <3>3. QED BY <3>1, <3>2
  <2>2. QED BY <1>4, <2>1 DEF WellFormed, SlotOf, FillsSlot
<1>6. ASSUME BaseClass(k) # 0
      PROVE  ExtendsLayout(k, BaseClass(k))'
  <2>1. ExtendsLayout(k, BaseClass(k))
    BY <1>1, <1>6 DEF IInv, LayoutInv, SlotsStable
  <2>2. /\ DOMAIN info[k].slot_types = 1..Len(info[k].slot_types)
        /\ DOMAIN row.slot_types = 1..Len(row.slot_types)
    BY <1>1, LenProperties DEF ClassInfos
  <2>3. ASSUME NEW i \in DOMAIN info[BaseClass(k)].slot_types
        PROVE  i \in DOMAIN row.slot_types /\ row.slot_types[i] = info[BaseClass(k)].slot_types[i]
    BY <2>1, <2>2 DEF ExtendsLayout, FillsSlot
  <2>4. ASSUME NEW n \in Names, SlotOf(BaseClass(k), n) # 0
        PROVE  row.slot_index[n] = SlotOf(BaseClass(k), n)
    BY <1>1, <2>1, <2>4 DEF ExtendsLayout, FillsSlot
  <2>5. QED BY <1>2, <1>4, <1>6, <2>3, <2>4 DEF ExtendsLayout, SlotOf
<1>7. ASSUME NEW n \in Names
      PROVE  IF n \in FilledNames(h)' THEN HasOwn(k, n)' ELSE HasInherited(k, n)'
  <2>1. FilledNames(h)' = FilledNames(h) \cup {name}
    <3>1. FilledOf(h) = filled /\ FilledOf(h)' = filled + 1
      BY <1>1 DEF FilledOf
    <3>2. name = methods[order[h]][filled + 1].name /\ methods' = methods /\ order' = order
      BY <1>1, <1>2 DEF Method, Current
    <3>3. 1..(filled + 1) = 1..filled \cup {filled + 1}
      BY <1>1
    <3>4. QED BY <3>1, <3>2, <3>3 DEF FilledNames
  <2>2. CASE n = name
    BY <1>4, <2>1, <2>2 DEF HasOwn, SlotOf, FillsSlot
  <2>3. CASE n # name
    <3>1. IF n \in FilledNames(h) THEN HasOwn(k, n) ELSE HasInherited(k, n)
      BY <1>1 DEF IInv, LayoutInv, NearestOverride
    <3>2. /\ info'[k].slot_index[n] = info[k].slot_index[n]
          /\ info[k].slot_index[n] # 0 =>
               info'[k].vtable_methods[info[k].slot_index[n]] =
                 info[k].vtable_methods[info[k].slot_index[n]]
      BY <1>4, <2>3 DEF SlotOf, FillsSlot
    <3>3. HasOwn(k, n) => HasOwn(k, n)'
      BY <3>2 DEF HasOwn, SlotOf
    <3>4. HasInherited(k, n) => HasInherited(k, n)'
      BY <1>2, <1>4, <3>2 DEF HasInherited, SameEntry, SlotOf
    <3>5. QED BY <2>1, <2>3, <3>1, <3>3, <3>4
  <2>4. QED BY <2>2, <2>3
<1>8. QED
  <2>1. /\ WellFormed(order[h])' /\ filled' \in 0..Len(methods[order[h]])
        /\ info' = [info EXCEPT ![order[h]] = row]
        /\ BaseClass(order[h]) # 0 => ExtendsLayout(order[h], BaseClass(order[h]))'
        /\ \A n \in Names :
             IF n \in FilledNames(h)' THEN HasOwn(order[h], n)' ELSE HasInherited(order[h], n)'
    BY <1>1, <1>2, <1>5, <1>6, <1>7
  <2>2. QED BY <1>1, <2>1, LayoutOfOne

LEMMA NewSlotStep ==
  ASSUME IInv, NewSlot
  PROVE  IInv'
<1> PICK k : k = Current
  OBVIOUS
<1> PICK name : name = Method.name
  OBVIOUS
<1> PICK type : type = Method.type
  OBVIOUS
<1> PICK old : old = info[k]
  OBVIOUS
<1> DEFINE entry == [class |-> k, name |-> name]
           size == Len(old.vtable_methods)
           row == [slot_types |-> Append(old.slot_types, type),
                   vtable_methods |-> Append(old.vtable_methods, entry),
                   slot_index |-> [old.slot_index EXCEPT ![name] = size + 1]]
<1>1. /\ pass = "layout" /\ pass' = "layout" /\ ~ClassDone /\ SlotOf(k, name) = 0
      /\ filled' = filled + 1 /\ UNCHANGED <<programVars, buildVars, laid>>
  BY DEF NewSlot
<1>2. info' = [info EXCEPT ![k] = row]
  BY DEF NewSlot
<1>3. /\ k \in Slots /\ name \in Names /\ type \in Signatures
      /\ old \in ClassInfos /\ WellFormed(k)
  BY <1>1, CurrentFacts
<1>4. /\ old.slot_types \in Seq(Signatures) /\ old.vtable_methods \in Seq(MethodRefs)
      /\ old.slot_index \in [Names -> Nat] /\ entry \in MethodRefs
      /\ size \in Nat /\ Len(old.slot_types) = size
      /\ \A n \in Names : SlotOf(k, n) = old.slot_index[n] /\ old.slot_index[n] \in 0..size
  BY <1>3, LenProperties DEF ClassInfos, MethodRefs, Slots, WellFormed, SlotOf
<1>5. /\ row.slot_types \in Seq(Signatures) /\ Len(row.slot_types) = size + 1
      /\ \A i \in 1..size : row.slot_types[i] = old.slot_types[i]
  BY <1>3, <1>4, AppendType
<1>6. /\ row.vtable_methods \in Seq(MethodRefs) /\ Len(row.vtable_methods) = size + 1
      /\ \A i \in 1..size : row.vtable_methods[i] = old.vtable_methods[i]
      /\ row.vtable_methods[size + 1] = entry
  BY <1>4, AppendType
<1>7. /\ row.slot_index \in [Names -> Nat]
      /\ \A n \in Names : row.slot_index[n] = IF n = name THEN size + 1 ELSE old.slot_index[n]
  BY <1>3, <1>4
<1>8. row \in ClassInfos
  BY <1>5, <1>6, <1>7 DEF ClassInfos
<1> HIDE DEF row, size
<1>9. FillsSlot(k, name, row)
  BY <1>1, <1>3, <1>4, <1>5, <1>6, <1>7 DEF FillsSlot
<1>10. QED BY <1>1, <1>2, <1>8, <1>9, FillSlot

LEMMA OverrideSlotStep ==
  ASSUME IInv, OverrideSlot
  PROVE  IInv'
<1> PICK k : k = Current
  OBVIOUS
<1> PICK name : name = Method.name
  OBVIOUS
<1> PICK old : old = info[k]
  OBVIOUS
<1> DEFINE entry == [class |-> k, name |-> name]
           slot == old.slot_index[name]
           table == [old.vtable_methods EXCEPT ![slot] = entry]
           row == [old EXCEPT !.vtable_methods = table]
<1>1. /\ pass = "layout" /\ pass' = "layout" /\ ~ClassDone /\ slot # 0
      /\ filled' = filled + 1 /\ UNCHANGED <<programVars, buildVars, laid>>
  BY DEF OverrideSlot, SlotOf
<1>2. info' = [info EXCEPT ![k] = row]
  BY DEF OverrideSlot, Overriding, SlotOf
<1>3. /\ k \in Slots /\ name \in Names /\ old \in ClassInfos /\ WellFormed(k)
  BY <1>1, CurrentFacts
<1>4. /\ old.slot_types \in Seq(Signatures) /\ old.vtable_methods \in Seq(MethodRefs)
      /\ old.slot_index \in [Names -> Nat] /\ entry \in MethodRefs
      /\ Len(old.vtable_methods) \in Nat /\ Len(old.slot_types) = Len(old.vtable_methods)
      /\ \A n \in Names : /\ SlotOf(k, n) = old.slot_index[n]
                          /\ old.slot_index[n] \in 0..Len(old.vtable_methods)
                          /\ old.slot_index[n] # 0 =>
                               old.vtable_methods[old.slot_index[n]].name = n
  BY <1>3, LenProperties DEF ClassInfos, MethodRefs, Slots, WellFormed, SlotOf
<1>5. slot \in 1..Len(old.vtable_methods)
  BY <1>1, <1>3, <1>4
<1>6. /\ table \in Seq(MethodRefs) /\ Len(table) = Len(old.vtable_methods)
      /\ \A i \in 1..Len(old.vtable_methods) :
           table[i] = IF i = slot THEN entry ELSE old.vtable_methods[i]
  BY <1>4, <1>5, ExceptSeq
<1>7. /\ row \in ClassInfos /\ row.vtable_methods = table
      /\ row.slot_types = old.slot_types /\ row.slot_index = old.slot_index
  BY <1>3, <1>6 DEF ClassInfos
<1>8. ASSUME NEW n \in Names \ {name}, old.slot_index[n] # 0
      PROVE  /\ old.slot_index[n] \in 1..Len(old.vtable_methods)
             /\ table[old.slot_index[n]] = old.vtable_methods[old.slot_index[n]]
  <2>1. old.slot_index[n] \in 1..Len(old.vtable_methods)
    BY <1>4, <1>8
  <2>2. old.vtable_methods[old.slot_index[n]].name = n /\ old.vtable_methods[slot].name = name
    BY <1>1, <1>3, <1>4, <1>8
  <2>3. QED BY <1>6, <2>1, <2>2
<1> HIDE DEF row, table
<1>9. FillsSlot(k, name, row)
  BY <1>3, <1>4, <1>5, <1>6, <1>7, <1>8 DEF FillsSlot
<1>10. QED BY <1>1, <1>2, <1>7, <1>9, FillSlot

LEMMA AssertSameTypeStep ==
  ASSUME IInv, AssertSameType
  PROVE  IInv'
<1>1. /\ pass = "layout" /\ pass' = "slot of another type"
      /\ UNCHANGED <<programVars, buildVars, layoutVars>>
  BY DEF AssertSameType
<1>2. QED BY <1>1, PassStep DEF IInv, BuildInv, RelationsBuilt, Passes

LEMMA EndLayoutStep ==
  ASSUME IInv, EndLayout
  PROVE  IInv'
<1>1. /\ pass = "layout" /\ pass' = "calls"
      /\ UNCHANGED <<programVars, buildVars, layoutVars>>
  BY DEF EndLayout
<1>2. QED BY <1>1, PassStep DEF IInv, BuildInv, RelationsBuilt, Passes

-----------------------------------------------------------------------------
(* The calls *)

LEMMA CallsStep ==
  ASSUME IInv, pass = "calls", pass' \in {"calls", "no slot"},
         UNCHANGED <<programVars, buildVars, layoutVars>>
  PROVE  IInv'
  BY PassStep DEF IInv, BuildInv, RelationsBuilt, Passes

LEMMA Stutter ==
  ASSUME IInv, UNCHANGED vars
  PROVE  IInv'
<1>1. UNCHANGED <<programVars, pass, buildVars, layoutVars>>
  BY DEF vars
<1>2. CASE pass = "parse"
  <2>1. /\ UNCHANGED <<classType, declared, methods, open>>
        /\ UNCHANGED <<next, stack, returned, order, chains, cycles>>
        /\ UNCHANGED <<laid, filled, info>>
    BY <1>1 DEF programVars, classVars, buildVars, layoutVars
  <2>2. TypeOK' /\ ProgramInv'
    BY <1>1, <2>1 DEF IInv, TypeOK, ProgramInv, Declarations
  <2>3. QED BY <1>1, <1>2, <2>2, ParseStep DEF IInv
<1>3. CASE pass # "parse"
  BY <1>1, <1>3, PassStep DEF IInv, TypeOK, ProgramInv, BuildInv, RelationsBuilt
<1>4. QED BY <1>2, <1>3

LEMMA NextIInv == IInv /\ [Next]_vars => IInv'
<1> SUFFICES ASSUME IInv, [Next]_vars PROVE IInv'
  OBVIOUS
<1>1. CASE RelationsNext /\ UNCHANGED <<layoutVars, executed>>
  <2>1. ASSUME NEW c \in Classes, OpenClass(c) PROVE IInv'
    BY <1>1, <2>1, OpenClassStep
  <2>2. ASSUME NEW n \in Names, NEW type \in Signatures, AddMethod(n, type) PROVE IInv'
    BY <1>1, <2>2, AddMethodStep
  <2>3. ASSUME NEW base \in Classes \cup {NoClass}, CloseClass(base) PROVE IInv'
    BY <1>1, <2>3, CloseClassStep
  <2>4. CASE EndProgram
    BY <1>1, <2>4, EndProgramStep
  <2>5. CASE CallForNext
    BY <1>1, <2>5, CallForNextStep
  <2>6. CASE CallForBase
    BY <1>1, <2>6, CallForBaseStep
  <2>7. CASE FinishClass
    BY <1>1, <2>7, FinishClassStep
  <2>8. CASE EndRelations
    BY <1>1, <2>8, EndRelationsStep
  <2>9. ASSUME NEW n \in Names, AddField(n) PROVE IInv'
    BY <1>1, <2>9, AddFieldStep
  <2>10. QED BY <1>1, <2>1, <2>2, <2>3, <2>4, <2>5, <2>6, <2>7, <2>8, <2>9 DEF RelationsNext
<1>2. CASE BeginClass
  BY <1>2, BeginClassStep
<1>3. CASE NewSlot
  BY <1>3, NewSlotStep
<1>4. CASE OverrideSlot
  BY <1>4, OverrideSlotStep
<1>5. CASE AssertSameType
  BY <1>5, AssertSameTypeStep
<1>6. CASE EndLayout
  BY <1>6, EndLayoutStep
<1>7. ASSUME NEW c \in Classes, NEW n \in Names, MethodCall(c, n) PROVE IInv'
  BY <1>7, CallsStep DEF MethodCall
<1>8. ASSUME NEW k \in Slots, NEW n \in Names, ImplicitCall(k, n) PROVE IInv'
  BY <1>8, CallsStep DEF ImplicitCall
<1>9. ASSUME NEW k \in Slots, NEW n \in Names, AssertSlot(k, n) PROVE IInv'
  BY <1>9, CallsStep DEF AssertSlot
<1>10. CASE UNCHANGED vars
  BY <1>10, Stutter
<1>11. QED BY <1>1, <1>2, <1>3, <1>4, <1>5, <1>6, <1>7, <1>8, <1>9, <1>10 DEF Next, Ended

-----------------------------------------------------------------------------
(* The theorems *)

\* IInv holds of every state of the relations, the layout and the calls.
THEOREM Invariant == Spec => []IInv
<1>1. QED BY InitIInv, NextIInv, PTL DEF Spec

\* Every variable keeps its type.
THEOREM TypeCorrect == Spec => []TypeOK
<1>1. IInv => TypeOK
  BY DEF IInv
<1>2. QED BY <1>1, Invariant, PTL

\* Without a cycle BuildClassRelations lists every class once, after its base.
THEOREM BasesComeFirst == Spec => []BasesFirst
<1>1. IInv => BasesFirst
  <2> SUFFICES ASSUME IInv, RelationsBuilt, cycles = 0
               PROVE  Range(order) = Declarations /\ IsInjective(order) /\ BasesBefore
    BY DEF BasesFirst
  <2>1. /\ order \in Seq(Declarations) /\ IsInjective(order) /\ BasesBefore
        /\ stack = <<>> /\ next = Len(declared) + 1
        /\ 2..(next - 1) \subseteq Range(stack) \cup Range(order)
    BY DEF IInv, BuildInv
  <2>2. Range(order) \subseteq Declarations /\ Range(stack) = {}
    BY <2>1, RangeOfSeq DEF Range
  <2>3. 2..(next - 1) = Declarations
    BY <2>1, DeclarationsAreSlots DEF IInv, Declarations
  <2>4. QED BY <2>1, <2>2, <2>3
<1>2. QED BY <1>1, Invariant, PTL

\* Every derived class has the slots of its base, from the moment its layout begins.
THEOREM SlotsStayStable == Spec => []SlotsStable
<1>1. IInv => SlotsStable
  BY DEF IInv, LayoutInv
<1>2. QED BY <1>1, Invariant, PTL

\* Every v-table has the methods of its class over those of its base's table.
THEOREM OverridesAreNearest == Spec => []NearestOverride
<1>1. IInv => NearestOverride
  BY DEF IInv, LayoutInv
<1>2. QED BY <1>1, Invariant, PTL

-----------------------------------------------------------------------------
(* The class types above one *)

\* TypesAbove, after each number of turns.
StepsAbove(c) ==
  LET above[i \in 0..Cardinality(Classes)] ==
        IF i = 0 THEN {c}
        ELSE above[i - 1] \cup ({classType[t].base : t \in above[i - 1]} \ {NoClass})
  IN  above

ClosedUpwards(T) == \A t \in T \cap Classes : classType[t].base \in T \cup {NoClass}

LEMMA CountsClasses ==
  /\ Cardinality(Classes) \in Nat
  /\ \A T \in SUBSET Classes : IsFiniteSet(T) /\ Cardinality(T) \in 0..Cardinality(Classes)
<1>1. IsFiniteSet(Classes) /\ Cardinality(Classes) \in Nat
  BY RelationsAssumption, FS_CardinalityType
<1>2. \A T \in SUBSET Classes : /\ IsFiniteSet(T) /\ Cardinality(T) \in Nat
                                /\ Cardinality(T) <= Cardinality(Classes)
  BY <1>1, FS_Subset, FS_CardinalityType
<1>3. QED BY <1>1, <1>2

LEMMA StepsAboveDefined ==
  ASSUME ProgramInv, NEW c \in Classes
  PROVE  /\ StepsAbove(c) \in [0..Cardinality(Classes) -> SUBSET Classes]
         /\ StepsAbove(c)[0] = {c}
         /\ \A i \in 1..Cardinality(Classes) :
              StepsAbove(c)[i] = StepsAbove(c)[i - 1] \cup
                ({classType[t].base : t \in StepsAbove(c)[i - 1]} \ {NoClass})
<1> DEFINE N == Cardinality(Classes)
           Up(T) == T \cup ({classType[t].base : t \in T} \ {NoClass})
           Eq(f) == f = [i \in 0..N |-> IF i = 0 THEN {c} ELSE Up(f[i - 1])]
           g == [T \in SUBSET Classes |-> Up(T)]
<1>1. N \in Nat
  BY CountsClasses
<1>2. g \in [SUBSET Classes -> SUBSET Classes]
  BY DEF ProgramInv
<1>3. PICK f : /\ f \in [0..N -> SUBSET Classes] /\ f[0] = {c}
              /\ \A i \in 1..N : f[i] = g[f[i - 1]]
  <2> DEFINE V == SUBSET Classes
             a == {c}
  <2>1. a \in V /\ g \in [V -> V]
    BY <1>2
  <2> HIDE DEF g, N, V, a
  <2>2. \E f : Iterates(f, N, V, a, g)
    BY <1>1, <2>1, IterationExists
  <2>3. QED BY <2>2 DEF V, a, Iterates
<1>4. \A i \in 0..N : i # 0 => i \in 1..N /\ f[i - 1] \in SUBSET Classes
  BY <1>1, <1>3
<1>5. \A i \in 0..N : i # 0 => i \in 1..N /\ g[f[i - 1]] = Up(f[i - 1])
  BY <1>4
<1>6. Eq(f)
  <2> HIDE DEF g, N, Up
  <2>1. QED BY <1>3, <1>5
<1>7. StepsAbove(c) = CHOOSE h : Eq(h)
  BY DEF StepsAbove
<1>8. Eq(StepsAbove(c))
  <2> HIDE DEF Eq
  <2>1. QED BY <1>6, <1>7
<1> DEFINE s == StepsAbove(c)
<1>9. s = [i \in 0..N |-> IF i = 0 THEN {c} ELSE Up(s[i - 1])]
  BY <1>8
<1> HIDE DEF s
<1>10. /\ \A i \in 0..N : s[i] = IF i = 0 THEN {c} ELSE Up(s[i - 1])
       /\ DOMAIN s = 0..N
  <2> HIDE DEF Up, N
  <2>1. QED BY <1>9
<1>11. \A i \in 0..N : s[i] \in SUBSET Classes
  <2> DEFINE S == {i \in 0..N : s[i] \in SUBSET Classes}
  <2>1. 0 \in S
    BY <1>1, <1>10
  <2>2. ASSUME NEW i \in 0..(N - 1), i \in S
        PROVE  i + 1 \in S
    <3>1. i + 1 \in 0..N /\ s[i + 1] = Up(s[i])
      BY <1>1, <1>10
    <3>2. Up(s[i]) \in SUBSET Classes
      BY <2>2 DEF ProgramInv
    <3>3. QED BY <3>1, <3>2
  <2> HIDE DEF S
  <2>3. \A i \in 0..N : i \in S
    BY <1>1, <2>1, <2>2, InductionUpTo
  <2>4. QED BY <2>3 DEF S
<1>12. s \in [0..N -> SUBSET Classes]
  <2> HIDE DEF N, Up
  <2>1. s = [i \in 0..N |-> s[i]]
    BY <1>9, <1>10
  <2>2. QED BY <1>11, <2>1
<1>13. s[0] = {c} /\ \A i \in 1..N : s[i] = Up(s[i - 1])
  <2> HIDE DEF Up
  <2>1. 0 \in 0..N /\ \A i \in 1..N : i \in 0..N /\ i # 0
    BY <1>1
  <2>2. QED BY <1>10, <2>1
<1>14. QED BY <1>12, <1>13 DEF s

\* TypesAbove is the least set with the class that has the base of each of its
\* classes: as many turns as there are classes reach them all.
LEMMA LeastClosed ==
  ASSUME ProgramInv, NEW c \in Classes
  PROVE  /\ TypesAbove(c) \subseteq Classes /\ c \in TypesAbove(c)
         /\ ClosedUpwards(TypesAbove(c))
         /\ \A T : c \in T /\ ClosedUpwards(T) => TypesAbove(c) \subseteq T
<1> DEFINE N == Cardinality(Classes)
           s == StepsAbove(c)
           Up(T) == T \cup ({classType[t].base : t \in T} \ {NoClass})
<1>1. N \in Nat
  BY CountsClasses
<1>2. /\ \A i \in 0..N : s[i] \subseteq Classes
      /\ s[0] = {c}
      /\ \A i \in 1..N : s[i] = Up(s[i - 1])
  BY StepsAboveDefined
<1>3. TypesAbove(c) = s[N]
  BY DEF TypesAbove, StepsAbove
<1> HIDE DEF s, N
<1>4. \A i \in 0..N : c \in s[i]
  <2> DEFINE S == {i \in 0..N : c \in s[i]}
  <2>1. 0 \in S /\ \A i \in 0..(N - 1) : i \in S => i + 1 \in S
    BY <1>1, <1>2
  <2> HIDE DEF S
  <2>2. \A i \in 0..N : i \in S
    BY <1>1, <2>1, InductionUpTo
  <2>3. QED BY <2>2 DEF S
<1>5. ASSUME NEW T, c \in T, ClosedUpwards(T)
      PROVE  \A i \in 0..N : s[i] \subseteq T
  <2> DEFINE S == {i \in 0..N : s[i] \subseteq T}
  <2>1. 0 \in S
    BY <1>1, <1>2, <1>5
  <2>2. ASSUME NEW i \in 0..(N - 1), i \in S
        PROVE  i + 1 \in S
    <3>1. i + 1 \in 0..N /\ i + 1 \in 1..N /\ i \in 0..N /\ (i + 1) - 1 = i
      BY <1>1
    <3>2. s[i + 1] = Up(s[i]) /\ s[i] \subseteq Classes /\ s[i] \subseteq T
      BY <1>2, <2>2, <3>1
    <3>3. s[i + 1] \subseteq T
      BY <1>5, <3>2 DEF ClosedUpwards
    <3>4. QED BY <3>1, <3>3
  <2> HIDE DEF S
  <2>3. \A i \in 0..N : i \in S
    BY <1>1, <2>1, <2>2, InductionUpTo
  <2>4. QED BY <2>3 DEF S
<1>6. \A i \in 0..N : ClosedUpwards(s[i]) \/ Cardinality(s[i]) > i
  <2> DEFINE S == {i \in 0..N : ClosedUpwards(s[i]) \/ Cardinality(s[i]) > i}
  <2>1. 0 \in S
    <3>1. Cardinality(s[0]) = 1
      BY <1>2, FS_Singleton
    <3>2. QED BY <1>1, <3>1
  <2>2. ASSUME NEW i \in 0..(N - 1), i \in S
        PROVE  i + 1 \in S
    <3>1. i + 1 \in 0..N /\ i + 1 \in 1..N /\ i \in 0..N /\ (i + 1) - 1 = i
      BY <1>1
    <3>2. s[i + 1] = Up(s[i]) /\ s[i] \subseteq Classes /\ s[i + 1] \subseteq Classes
      BY <1>2, <3>1
    <3>3. CASE ClosedUpwards(s[i])
      <4>1. s[i + 1] = s[i]
        BY <3>2, <3>3 DEF ClosedUpwards
      <4>2. QED BY <3>1, <3>3, <4>1
    <3>4. CASE ~ClosedUpwards(s[i])
      <4>1. PICK t \in s[i] : classType[t].base \notin s[i] \cup {NoClass}
        BY <3>2, <3>4 DEF ClosedUpwards
      <4>2. s[i] \cup {classType[t].base} \subseteq s[i + 1]
        BY <3>2, <4>1
      <4>3. /\ IsFiniteSet(s[i]) /\ IsFiniteSet(s[i + 1])
            /\ Cardinality(s[i]) \in Nat /\ Cardinality(s[i + 1]) \in Nat
        BY <3>2, CountsClasses
      <4>4. Cardinality(s[i] \cup {classType[t].base}) = Cardinality(s[i]) + 1
        BY <4>1, <4>3, FS_AddElement
      <4>5. Cardinality(s[i] \cup {classType[t].base}) <= Cardinality(s[i + 1])
        BY <4>2, <4>3, FS_Subset
      <4>6. Cardinality(s[i]) > i
        BY <2>2, <3>4
      <4>7. Cardinality(s[i + 1]) > i + 1
        BY <4>3, <4>4, <4>5, <4>6
      <4>8. QED BY <3>1, <4>7
    <3>5. QED BY <3>3, <3>4
  <2> HIDE DEF S
  <2>3. \A i \in 0..N : i \in S
    BY <1>1, <2>1, <2>2, InductionUpTo
  <2>4. QED BY <2>3 DEF S
<1>7. ClosedUpwards(s[N])
  <2>1. N \in 0..N /\ s[N] \subseteq Classes
    BY <1>1, <1>2
  <2>2. Cardinality(s[N]) <= N /\ Cardinality(s[N]) \in Nat
    BY <2>1, CountsClasses DEF N
  <2>3. QED BY <1>1, <1>6, <2>1, <2>2
<1>8. N \in 0..N
  BY <1>1
<1>9. QED BY <1>2, <1>3, <1>4, <1>5, <1>7, <1>8

\* A class and those above its base.
LEMMA AboveByOne ==
  ASSUME ProgramInv, NEW c \in Classes
  PROVE  TypesAbove(c) = IF classType[c].base = NoClass THEN {c}
                         ELSE {c} \cup TypesAbove(classType[c].base)
<1> DEFINE b == classType[c].base
<1>1. b \in Classes \cup {NoClass}
  BY DEF ProgramInv
<1>2. CASE b = NoClass
  <2>1. ClosedUpwards({c})
    BY <1>2 DEF ClosedUpwards
  <2>2. QED BY <1>2, <2>1, LeastClosed
<1>3. CASE b # NoClass
  <2>1. b \in Classes
    BY <1>1, <1>3
  <2>2. ClosedUpwards({c} \cup TypesAbove(b))
    BY <2>1, LeastClosed DEF ClosedUpwards
  <2>3. TypesAbove(c) \subseteq {c} \cup TypesAbove(b)
    BY <2>2, LeastClosed
  <2>4. b \in TypesAbove(c)
    BY <1>3, LeastClosed DEF ClosedUpwards
  <2>5. TypesAbove(b) \subseteq TypesAbove(c)
    BY <2>1, <2>4, LeastClosed
  <2>6. QED BY <1>3, <2>3, <2>5, LeastClosed
<1>4. QED BY <1>2, <1>3

-----------------------------------------------------------------------------
(* The second invariant *)

\* TypesAbove depends on the class types alone.
AboveIn(types, c) ==
  LET above[i \in 0..Cardinality(Classes)] ==
        IF i = 0 THEN {c}
        ELSE above[i - 1] \cup ({types[t].base : t \in above[i - 1]} \ {NoClass})
  IN  above[Cardinality(Classes)]

LEMMA ReportsStay ==
  ASSUME UNCHANGED <<classType, declared>>
  PROVE  \A k : ReportsCycle(k)' <=> ReportsCycle(k)
<1>1. \A c : TypesAbove(c) = AboveIn(classType, c)
  BY DEF TypesAbove, AboveIn
<1>2. \A c : TypesAbove(c)' = AboveIn(classType', c)
  BY DEF TypesAbove, AboveIn
<1>3. \A c : TypesAbove(c)' = TypesAbove(c)
  BY <1>1, <1>2
<1>4. \A k : BaseClass(k)' = BaseClass(k)
  BY DEF BaseClass
<1>5. QED BY <1>3, <1>4 DEF ReportsCycle, IsDerivedClassOf

LEMMA InitDispatchInv == Init => DispatchInv
<1> SUFFICES ASSUME Init PROVE DispatchInv
  OBVIOUS
<1>1. /\ classType = [c \in Classes |-> [decl |-> 0, base |-> NoClass]]
      /\ members = <<NoMembers>> /\ Len(declared) = 1 /\ order = <<>> /\ cycles = 0
      /\ pass = "parse" /\ executed = NoCall
  BY DEF Init, InitRelations, InitClassTypes
<1>2. Declarations = {}
  BY <1>1 DEF Declarations
<1>3. NoMembers \in [Names -> [kind : MemberKinds \cup {"None"}, id : Nat, type : {NoClass}]]
  BY DEF NoMembers, NoMember
<1>4. TypesInv
  BY <1>1, <1>2, <1>3 DEF TypesInv
<1>5. ChainsInv /\ CallsInv
  BY <1>1 DEF ChainsInv, CallsInv, Range
<1>6. QED BY <1>4, <1>5 DEF DispatchInv

\* A step of the parser: nothing of the relations is there yet.
LEMMA ParseDispatchStep ==
  ASSUME IInv, DispatchInv, pass = "parse", pass' \in {"parse", "relations"}, TypesInv',
         UNCHANGED <<buildVars, executed>>
  PROVE  DispatchInv'
<1>1. order' = <<>> /\ cycles' = 0 /\ executed' = NoCall
  BY DEF IInv, ProgramInv, DispatchInv, ChainsInv, CallsInv, buildVars
<1>2. Range(order') = {}
  BY <1>1 DEF Range
<1>3. ChainsInv'
  BY <1>1, <1>2 DEF ChainsInv
<1>4. CallsInv'
  BY <1>1 DEF CallsInv
<1>5. QED BY <1>3, <1>4 DEF DispatchInv

MemberRows == [Names -> [kind : MemberKinds \cup {"None"}, id : Nat, type : {NoClass}]]

LEMMA OpenClassDispatch ==
  ASSUME IInv, DispatchInv, NEW c \in Classes, OpenClass(c), UNCHANGED <<layoutVars, executed>>
  PROVE  DispatchInv'
<1> DEFINE class == [name |-> c, enclosing |-> open]
<1>1. /\ pass = "parse" /\ pass' = "parse"
      /\ declared' = Append(declared, class) /\ methods' = Append(methods, <<>>)
      /\ members' = Append(members, NoMembers)
      /\ classType' = classType /\ UNCHANGED buildVars
  BY DEF OpenClass
<1>2. /\ Len(declared) \in Nat /\ Len(methods) = Len(declared) /\ Len(members) = Len(declared)
      /\ members \in Seq(MemberRows) /\ NoMembers \in MemberRows
      /\ methods \in Seq(Seq([name : Names, type : Signatures]))
      /\ declared \in Seq([name : Classes \cup {NoClass}, enclosing : Nat])
      /\ class \in [name : Classes \cup {NoClass}, enclosing : Nat]
      /\ <<>> \in Seq([name : Names, type : Signatures])
  BY EmptySeq, DeclarationsAreSlots
     DEF IInv, TypeOK, ProgramInv, DispatchInv, TypesInv, MemberRows, NoMembers, NoMember, Slots
<1>3. /\ members' \in Seq(MemberRows) /\ Len(members') = Len(declared) + 1
      /\ \A k \in 1..Len(declared) : members'[k] = members[k]
      /\ members'[Len(declared) + 1] = NoMembers
  BY <1>1, <1>2, AppendType
<1>4. /\ \A k \in 1..Len(declared) : methods'[k] = methods[k]
      /\ methods'[Len(declared) + 1] = <<>>
  BY <1>1, <1>2, AppendType
<1>5. Len(declared') = Len(declared) + 1 /\ \A k \in 1..Len(declared) : declared'[k] = declared[k]
  BY <1>1, <1>2, AppendType
<1>6. ASSUME NEW d \in Classes
      PROVE  /\ classType'[d].decl = 0 => classType'[d].base = NoClass
             /\ classType'[d].decl # 0 => declared'[classType'[d].decl].name = d
  <2>1. classType[d].decl \in {0} \cup 1..Len(declared)
    BY DEF IInv, ProgramInv, Declarations
  <2>2. QED BY <1>1, <1>5, <2>1 DEF DispatchInv, TypesInv
<1>7. ASSUME NEW k \in Declarations', NEW n \in Names
      PROVE  IF n \in MethodNames(k)'
               THEN members'[k][n] = MemberOf(k, "Method")
               ELSE members'[k][n] \in {NoMember, MemberOf(k, "Field")}
  <2>1. CASE k \in Declarations
    <3>1. k \in 1..Len(declared)
      BY <2>1 DEF Declarations
    <3>2. MethodNames(k)' = MethodNames(k) /\ members'[k] = members[k]
      BY <1>3, <1>4, <3>1 DEF MethodNames
    <3>3. QED BY <2>1, <3>2 DEF DispatchInv, TypesInv
  <2>2. CASE k = Len(declared) + 1
    <3>1. MethodNames(k)' = {}
      BY <1>4, <2>2 DEF MethodNames
    <3>2. QED BY <1>3, <2>2, <3>1 DEF NoMembers
  <2>3. QED BY <1>2, <1>5, <2>1, <2>2 DEF Declarations
<1>8. TypesInv'
  BY <1>3, <1>5, <1>6, <1>7 DEF TypesInv, MemberRows
<1>9. QED BY <1>1, <1>8, ParseDispatchStep

LEMMA AddMethodDispatch ==
  ASSUME IInv, DispatchInv, NEW n \in Names, NEW type \in Signatures, AddMethod(n, type),
         UNCHANGED <<layoutVars, executed>>
  PROVE  DispatchInv'
<1> DEFINE method == [name |-> n, type |-> type]
           member == MemberOf(open, "Method")
<1>1. /\ pass = "parse" /\ pass' = "parse" /\ members[open][n] = NoMember
      /\ methods' = [methods EXCEPT ![open] = Append(methods[open], method)]
      /\ members' = [members EXCEPT ![open] = [members[open] EXCEPT ![n] = member]]
      /\ UNCHANGED <<classType, declared, open, buildVars>>
  BY DEF AddMethod, MayAdd, MembersAfterAdd
<1>2. /\ methods \in Seq(Seq([name : Names, type : Signatures]))
      /\ members \in Seq(MemberRows) /\ Len(members) = Len(declared)
      /\ open \in 1..Len(methods) /\ open \in 1..Len(members) /\ open \in Nat
      /\ method \in [name : Names, type : Signatures]
  BY DEF IInv, TypeOK, ProgramInv, DispatchInv, TypesInv, MemberRows, Slots
<1>3. members[open] \in MemberRows /\ methods[open] \in Seq([name : Names, type : Signatures])
  BY <1>2
<1>4. [members[open] EXCEPT ![n] = member] \in MemberRows
  BY <1>2, <1>3 DEF MemberRows, MemberKinds, MemberOf
<1>5. members' \in Seq(MemberRows) /\ Len(members') = Len(members)
  BY <1>1, <1>2, <1>4, ExceptSeq
<1>6. /\ DOMAIN methods[open] = 1..Len(methods[open]) /\ Len(methods[open]) \in Nat
      /\ methods'[open] = Append(methods[open], method)
      /\ Len(methods'[open]) = Len(methods[open]) + 1
      /\ DOMAIN methods'[open] = 1..(Len(methods[open]) + 1)
      /\ \A i \in 1..Len(methods[open]) : methods'[open][i] = methods[open][i]
      /\ methods'[open][Len(methods[open]) + 1] = method
  BY <1>1, <1>2, <1>3, AppendType, LenProperties
<1>7. MethodNames(open)' = MethodNames(open) \cup {n}
  <2>1. MethodNames(open)' = {methods'[open][i].name : i \in 1..(Len(methods[open]) + 1)}
    BY <1>1, <1>6 DEF MethodNames
  <2>2. MethodNames(open) = {methods[open][i].name : i \in 1..Len(methods[open])}
    BY <1>6 DEF MethodNames
  <2>3. QED BY <1>6, <2>1, <2>2
<1>8. ASSUME NEW k \in Declarations, NEW m \in Names
      PROVE  IF m \in MethodNames(k)'
               THEN members'[k][m] = MemberOf(k, "Method")
               ELSE members'[k][m] \in {NoMember, MemberOf(k, "Field")}
  <2>1. k \in 1..Len(members) /\ k \in 1..Len(methods)
    BY <1>2 DEF Declarations, IInv, ProgramInv
  <2>2. IF m \in MethodNames(k) THEN members[k][m] = MemberOf(k, "Method")
                                ELSE members[k][m] \in {NoMember, MemberOf(k, "Field")}
    BY DEF DispatchInv, TypesInv
  <2>3. CASE k # open
    <3>1. methods'[k] = methods[k] /\ members'[k] = members[k]
      BY <1>1, <1>2, <2>1, <2>3
    <3>2. MethodNames(k)' = MethodNames(k)
      BY <3>1 DEF MethodNames
    <3>3. QED BY <2>2, <3>1, <3>2
  <2>4. CASE k = open
    <3>1. members'[k] = [members[open] EXCEPT ![n] = member]
      <4> DEFINE row == [members[open] EXCEPT ![n] = member]
      <4>1. members' = [members EXCEPT ![open] = row] /\ open \in DOMAIN members
        BY <1>1, <1>2
      <4> HIDE DEF row
      <4>2. members'[open] = row
        BY <4>1
      <4>3. QED BY <2>4, <4>2 DEF row
    <3>2. members'[k][m] = IF m = n THEN member ELSE members[k][m]
      BY <1>3, <2>4, <3>1 DEF MemberRows
    <3>3. MethodNames(k)' = MethodNames(k) \cup {n}
      BY <1>1, <1>7, <2>4
    <3>4. QED BY <2>2, <2>4, <3>2, <3>3
  <2>5. QED BY <2>3, <2>4
<1>9. Declarations' = Declarations
  BY <1>1 DEF Declarations
<1>10. TypesInv'
  BY <1>1, <1>2, <1>5, <1>8, <1>9 DEF TypesInv, MemberRows, DispatchInv
<1>11. QED BY <1>1, <1>10, ParseDispatchStep

\* A field is no method.
LEMMA AddFieldDispatch ==
  ASSUME IInv, DispatchInv, NEW n \in Names, AddField(n), UNCHANGED <<layoutVars, executed>>
  PROVE  DispatchInv'
<1> DEFINE member == MemberOf(open, "Field")
<1>1. /\ pass = "parse" /\ pass' = "parse" /\ methods[open] = <<>>
      /\ members[open][n] = NoMember
      /\ members' = [members EXCEPT ![open] = [members[open] EXCEPT ![n] = member]]
      /\ UNCHANGED <<classType, declared, methods, open, buildVars>>
  BY DEF AddField, MayAdd, MembersAfterAdd
<1>2. /\ members \in Seq(MemberRows) /\ Len(members) = Len(declared)
      /\ open \in 1..Len(members) /\ open \in Nat
  BY DEF IInv, TypeOK, ProgramInv, DispatchInv, TypesInv, MemberRows, Slots
<1>3. members[open] \in MemberRows
  BY <1>2
<1>4. [members[open] EXCEPT ![n] = member] \in MemberRows
  BY <1>2, <1>3 DEF MemberRows, MemberKinds, MemberOf
<1>5. members' \in Seq(MemberRows) /\ Len(members') = Len(members)
  BY <1>1, <1>2, <1>4, ExceptSeq
<1>6. \A k : MethodNames(k)' = MethodNames(k)
  BY <1>1 DEF MethodNames
<1>7. MethodNames(open) = {}
  BY <1>1 DEF MethodNames
<1>8. ASSUME NEW k \in Declarations, NEW m \in Names
      PROVE  IF m \in MethodNames(k)'
               THEN members'[k][m] = MemberOf(k, "Method")
               ELSE members'[k][m] \in {NoMember, MemberOf(k, "Field")}
  <2>1. k \in 1..Len(members)
    BY <1>2 DEF Declarations
  <2>2. IF m \in MethodNames(k) THEN members[k][m] = MemberOf(k, "Method")
                                ELSE members[k][m] \in {NoMember, MemberOf(k, "Field")}
    BY DEF DispatchInv, TypesInv
  <2>3. members'[k][m] = IF k = open /\ m = n THEN member ELSE members[k][m]
    BY <1>1, <1>2, <1>3, <2>1 DEF MemberRows
  <2>4. QED BY <1>6, <1>7, <2>2, <2>3
<1>9. Declarations' = Declarations
  BY <1>1 DEF Declarations
<1>10. TypesInv'
  BY <1>1, <1>2, <1>5, <1>8, <1>9 DEF TypesInv, MemberRows, DispatchInv
<1>11. QED BY <1>1, <1>10, ParseDispatchStep

LEMMA CloseClassDispatch ==
  ASSUME IInv, DispatchInv, NEW base \in Classes \cup {NoClass}, CloseClass(base),
         UNCHANGED <<layoutVars, executed>>
  PROVE  DispatchInv'
<1>1. /\ pass = "parse" /\ pass' = "parse" /\ open # 1
      /\ classType' = [classType EXCEPT ![declared[open].name] = [decl |-> open, base |-> base]]
      /\ UNCHANGED <<members, declared, methods, buildVars>>
  BY DEF CloseClass, SyncClassType, Program
<1>2. open \in Declarations /\ open # 0
  BY <1>1, RelationsAssumption DEF IInv, ProgramInv, Declarations
<1>3. declared[open].name \in Classes
  BY <1>2 DEF IInv, ProgramInv
<1>4. ASSUME NEW c \in Classes
      PROVE  /\ classType'[c].decl = 0 => classType'[c].base = NoClass
             /\ classType'[c].decl # 0 => declared[classType'[c].decl].name = c
  <2>1. CASE c = declared[open].name
    BY <1>1, <1>2, <1>3, <2>1 DEF IInv, ProgramInv
  <2>2. CASE c # declared[open].name
    BY <1>1, <1>3, <2>2 DEF IInv, ProgramInv, DispatchInv, TypesInv
  <2>3. QED BY <2>1, <2>2
<1>5. \A k : MethodNames(k)' = MethodNames(k)
  BY <1>1 DEF MethodNames
<1>6. Declarations' = Declarations
  BY <1>1 DEF Declarations
<1>7. TypesInv'
  BY <1>1, <1>4, <1>5, <1>6 DEF TypesInv, DispatchInv
<1>8. QED BY <1>1, <1>7, ParseDispatchStep

\* After the parse the program stays.
LEMMA TypesStay ==
  ASSUME TypesInv, UNCHANGED programVars
  PROVE  TypesInv'
<1>1. UNCHANGED <<classType, members, declared, methods>>
  BY DEF programVars, classVars
<1>2. Declarations' = Declarations /\ \A k : MethodNames(k)' = MethodNames(k)
  BY <1>1 DEF Declarations, MethodNames
<1>3. QED BY <1>1, <1>2 DEF TypesInv

\* A class that is one of the bases of the last one called for, itself or one
\* of those in between, is above the base of its class type.
LEMMA StackIsAbove ==
  ASSUME IInv, DispatchInv, stack # <<>>, BaseClass(Top) \in Range(stack)
  PROVE  ReportsCycle(Top)
<1> DEFINE n == Len(stack)
           t == declared[Top].name
           b == classType[t].base
<1>1. /\ n \in Nat \ {0} /\ Top = stack[n] /\ Top \in Declarations
      /\ \A i \in 1..n : stack[i] \in Declarations
      /\ \A i \in 1..(n - 1) : stack[i + 1] = BaseClass(stack[i])
      /\ DOMAIN stack = 1..n
  BY TopFacts, ElementOfSeq, LenProperties DEF IInv, BuildInv
<1>2. PICK j \in 1..n : stack[j] = BaseClass(Top)
  BY <1>1 DEF Range
<1>3. \A k \in Declarations : /\ declared[k].name \in Classes
                              /\ classType[declared[k].name].base \in Classes \cup {NoClass}
  BY DEF IInv, ProgramInv
<1>4. BaseClass(Top) \in Declarations /\ BaseClass(Top) # 0
  BY <1>1, <1>2, DeclarationsAreSlots DEF IInv
<1>5. t \in Classes /\ b \in Classes /\ classType[b].decl = BaseClass(Top)
  BY <1>1, <1>3, <1>4 DEF BaseClass
<1>6. declared[stack[j]].name = b
  BY <1>2, <1>4, <1>5 DEF DispatchInv, TypesInv
<1>7. /\ b \in TypesAbove(b) /\ TypesAbove(b) \subseteq Classes
      /\ ClosedUpwards(TypesAbove(b))
  BY <1>5, LeastClosed DEF IInv
<1>8. ASSUME NEW i \in 1..(n - 1), declared[stack[i]].name \in TypesAbove(b)
      PROVE  declared[stack[i + 1]].name \in TypesAbove(b)
  <2> DEFINE a == declared[stack[i]].name
  <2>1. /\ stack[i] \in Declarations /\ stack[i + 1] \in Declarations
        /\ stack[i + 1] = BaseClass(stack[i]) /\ stack[i + 1] # 0
    BY <1>1, DeclarationsAreSlots DEF IInv
  <2>2. classType[a].base \in Classes /\ classType[classType[a].base].decl = stack[i + 1]
    BY <1>3, <2>1 DEF BaseClass
  <2>3. declared[stack[i + 1]].name = classType[a].base
    BY <2>1, <2>2 DEF DispatchInv, TypesInv
  <2>4. classType[a].base \in TypesAbove(b)
    BY <1>7, <1>8, <2>2, NoClassAssumption DEF ClosedUpwards
  <2>5. QED BY <2>3, <2>4
<1>9. declared[stack[n]].name \in TypesAbove(b)
  <2> DEFINE S == {i \in 0..(n - j) : declared[stack[j + i]].name \in TypesAbove(b)}
  <2>1. n - j \in Nat /\ j \in Nat /\ j + (n - j) = n
    BY <1>1
  <2>2. 0 \in S
    BY <1>1, <1>6, <1>7, <2>1
  <2>3. ASSUME NEW i \in 0..(n - j - 1), i \in S
        PROVE  i + 1 \in S
    <3>1. j + i \in 1..(n - 1) /\ (j + i) + 1 = j + (i + 1) /\ i + 1 \in 0..(n - j)
      BY <1>1, <2>1
    <3>2. declared[stack[(j + i) + 1]].name \in TypesAbove(b)
      BY <1>8, <2>3, <3>1
    <3>3. QED BY <3>1, <3>2
  <2> HIDE DEF S
  <2>4. \A i \in 0..(n - j) : i \in S
    BY <2>1, <2>2, <2>3, InductionUpTo
  <2>5. (n - j) \in S
    BY <2>1, <2>4
  <2>6. QED BY <2>1, <2>5 DEF S
<1>10. QED BY <1>1, <1>4, <1>9 DEF ReportsCycle, IsDerivedClassOf

LEMMA CallDispatch ==
  ASSUME IInv, DispatchInv, pass = "relations", NEW k \in Declarations, Call(k),
         stack # <<>> => k = BaseClass(Top),
         UNCHANGED <<programVars, pass, order, chains, executed>>
  PROVE  DispatchInv'
<1>1. /\ UNCHANGED <<classType, declared>> /\ Declarations' = Declarations
      /\ \A d : BaseClass(d)' = BaseClass(d)
  BY DEF programVars, classVars, Declarations, BaseClass
<1>2. \A d : ReportsCycle(d)' <=> ReportsCycle(d)
  BY <1>1, ReportsStay
<1>3. cycles \in Nat
  BY DEF IInv, TypeOK
<1>4. cycles' > 0 => \E d \in Declarations : ReportsCycle(d)
  <2>1. CASE cycles' = cycles
    BY <2>1 DEF DispatchInv, ChainsInv
  <2>2. CASE k \in Range(stack)
    <3>1. stack # <<>>
      BY <2>2 DEF Range
    <3>2. QED BY <2>2, <3>1, StackIsAbove, TopFacts DEF IInv
  <2>3. QED BY <2>1, <2>2 DEF Call
<1>5. cycles' = 0 => cycles = 0
  BY <1>3 DEF Call
<1>6. ChainsInv'
  BY <1>1, <1>2, <1>4, <1>5 DEF DispatchInv, ChainsInv, ChainThrough
<1>7. TypesInv' /\ CallsInv'
  BY TypesStay DEF DispatchInv, CallsInv
<1>8. QED BY <1>6, <1>7 DEF DispatchInv

LEMMA FinishClassDispatch ==
  ASSUME IInv, DispatchInv, FinishClass, UNCHANGED <<layoutVars, executed>>
  PROVE  DispatchInv'
<1>1. /\ pass = "relations" /\ pass' = "relations" /\ stack # <<>>
      /\ returned \/ BaseClass(Top) = 0
      /\ chains' = [chains EXCEPT ![Top] = ChainThrough(Top)]
      /\ order' = Append(order, Top)
      /\ UNCHANGED <<programVars, cycles, executed>>
  BY DEF FinishClass, OrderWith
<1>2. /\ UNCHANGED <<classType, declared>> /\ Declarations' = Declarations
      /\ \A d : BaseClass(d)' = BaseClass(d)
  BY <1>1 DEF programVars, classVars, Declarations, BaseClass
<1>3. \A d : ReportsCycle(d)' <=> ReportsCycle(d)
  BY <1>2, ReportsStay
<1>4. /\ Top \in Declarations /\ Top \in Slots /\ Top \notin Range(order)
      /\ order \in Seq(Declarations) /\ Range(order) \subseteq Declarations
      /\ chains \in [Slots -> Seq(Slots)] /\ Declarations \subseteq Slots
  BY <1>1, TopFacts, DeclarationsAreSlots, RangeOfSeq DEF IInv, BuildInv, TypeOK
<1>5. Range(order') = Range(order) \cup {Top}
  BY <1>1, <1>4, RangeOfAppend
<1>6. ASSUME cycles = 0, NEW k \in Range(order')
      PROVE  chains'[k] = ChainThrough(k)'
  <2>1. BaseClass(k) # 0 => BaseClass(k) \in Range(order)
    <3>1. CASE k = Top
      BY <1>1, <1>6, <3>1 DEF IInv, BuildInv
    <3>2. CASE k \in Range(order) /\ BaseClass(k) # 0
      <4>1. BasesBefore
        BY <1>6 DEF IInv, BuildInv
      <4>2. PICK i \in DOMAIN order : order[i] = k
        BY <3>2 DEF Range
      <4>3. PICK j \in 1..(i - 1) : order[j] = BaseClass(order[i])
        BY <3>2, <4>1, <4>2 DEF BasesBefore
      <4>4. j \in DOMAIN order
        BY <1>4, <4>2, <4>3, LenProperties
      <4>5. QED BY <4>2, <4>3, <4>4 DEF Range
    <3>3. QED BY <1>5, <3>1, <3>2
  <2>2. BaseClass(k) # 0 => chains'[BaseClass(k)] = chains[BaseClass(k)]
    BY <1>1, <1>4, <2>1
  <2>3. ChainThrough(k)' = ChainThrough(k)
    BY <1>2, <2>2 DEF ChainThrough
  <2>4. CASE k = Top
    BY <1>1, <1>4, <2>3, <2>4
  <2>5. CASE k # Top
    <3>1. k \in Range(order) /\ chains'[k] = chains[k]
      BY <1>1, <1>4, <1>5, <2>5
    <3>2. chains[k] = ChainThrough(k)
      BY <1>6, <3>1 DEF DispatchInv, ChainsInv
    <3>3. QED BY <2>3, <3>1, <3>2
  <2>6. QED BY <2>4, <2>5
<1>7. ChainsInv'
  BY <1>1, <1>2, <1>3, <1>6 DEF DispatchInv, ChainsInv
<1>8. TypesInv' /\ CallsInv'
  BY <1>1, TypesStay DEF DispatchInv, CallsInv
<1>9. QED BY <1>7, <1>8 DEF DispatchInv

\* A step that leaves the program and the relations alone.
LEMMA RelationsStay ==
  ASSUME DispatchInv, UNCHANGED <<programVars, buildVars>>, pass # "parse", pass' # "parse",
      CallsInv'
  PROVE  DispatchInv'
<1>1. /\ UNCHANGED <<classType, declared, order, chains, cycles>> /\ Declarations' = Declarations
      /\ \A d : BaseClass(d)' = BaseClass(d)
  BY DEF programVars, classVars, buildVars, Declarations, BaseClass
<1>2. \A d : ReportsCycle(d)' <=> ReportsCycle(d)
  BY <1>1, ReportsStay
<1>3. ChainsInv'
  BY <1>1, <1>2 DEF DispatchInv, ChainsInv, ChainThrough
<1>4. QED BY <1>3, TypesStay DEF DispatchInv

LEMMA NextDispatchInv == IInv /\ DispatchInv /\ [Next]_vars => DispatchInv'
<1> SUFFICES ASSUME IInv, DispatchInv, [Next]_vars PROVE DispatchInv'
  OBVIOUS
<1>1. CASE RelationsNext /\ UNCHANGED <<layoutVars, executed>>
  <2>1. ASSUME NEW c \in Classes, OpenClass(c) PROVE DispatchInv'
    BY <1>1, <2>1, OpenClassDispatch
  <2>2. ASSUME NEW n \in Names, NEW type \in Signatures, AddMethod(n, type) PROVE DispatchInv'
    BY <1>1, <2>2, AddMethodDispatch
  <2>3. ASSUME NEW base \in Classes \cup {NoClass}, CloseClass(base) PROVE DispatchInv'
    BY <1>1, <2>3, CloseClassDispatch
  <2>4. CASE EndProgram
    BY <1>1, <2>4, ParseDispatchStep, TypesStay DEF EndProgram, DispatchInv
  <2>5. CASE CallForNext
    BY <1>1, <2>5, CallDispatch DEF CallForNext
  <2>6. CASE CallForBase
    <3>1. BaseClass(Top) \in Declarations
      BY <2>6, TopFacts, BaseClassType DEF IInv, CallForBase
    <3>2. QED BY <1>1, <2>6, <3>1, CallDispatch DEF CallForBase
  <2>7. CASE FinishClass
    BY <1>1, <2>7, FinishClassDispatch
  <2>8. CASE EndRelations
    <3>1. CallsInv'
      BY <1>1, <2>8 DEF EndRelations, DispatchInv, CallsInv
    <3>2. QED BY <2>8, <3>1, RelationsStay DEF EndRelations
  <2>9. ASSUME NEW n \in Names, AddField(n) PROVE DispatchInv'
    BY <1>1, <2>9, AddFieldDispatch
  <2>10. QED BY <1>1, <2>1, <2>2, <2>3, <2>4, <2>5, <2>6, <2>7, <2>8, <2>9 DEF RelationsNext
<1>2. ASSUME BeginClass \/ NewSlot \/ OverrideSlot \/ AssertSameType
      PROVE  DispatchInv'
  <2>1. /\ pass = "layout" /\ pass' \in {"layout", "slot of another type"}
        /\ UNCHANGED <<programVars, buildVars, executed>>
    BY <1>2 DEF BeginClass, NewSlot, OverrideSlot, AssertSameType
  <2>2. CallsInv'
    BY <2>1 DEF DispatchInv, CallsInv
  <2>3. QED BY <2>1, <2>2, RelationsStay
<1>3. CASE EndLayout
  <2>1. /\ pass = "layout" /\ pass' = "calls" /\ laid = Len(order) /\ ClassDone
        /\ UNCHANGED <<programVars, buildVars, layoutVars>>
    BY <1>3 DEF EndLayout
  <2>2. CallsInv'
    BY <2>1 DEF CallsInv, ClassDone, Current, programVars, buildVars, layoutVars
  <2>3. QED BY <2>1, <2>2, RelationsStay
<1>4. ASSUME pass = "calls", pass' \in {"calls", "no slot"},
             UNCHANGED <<programVars, buildVars, layoutVars>>
      PROVE  DispatchInv'
  <2>1. CallsInv'
    BY <1>4 DEF DispatchInv, CallsInv, ClassDone, Current, programVars, buildVars, layoutVars
  <2>2. QED BY <1>4, <2>1, RelationsStay
<1>5. ASSUME NEW c \in Classes, NEW n \in Names, MethodCall(c, n) PROVE DispatchInv'
  BY <1>4, <1>5 DEF MethodCall
<1>6. ASSUME NEW k \in Slots, NEW n \in Names, ImplicitCall(k, n) PROVE DispatchInv'
  BY <1>4, <1>6 DEF ImplicitCall
<1>7. ASSUME NEW k \in Slots, NEW n \in Names, AssertSlot(k, n) PROVE DispatchInv'
  BY <1>4, <1>7 DEF AssertSlot
<1>8. CASE UNCHANGED vars
  <2>1. UNCHANGED <<programVars, pass, buildVars, layoutVars, executed>>
    BY <1>8 DEF vars
  <2>2. CallsInv'
    BY <2>1 DEF DispatchInv, CallsInv, ClassDone, Current, programVars, buildVars, layoutVars
  <2>3. CASE pass = "parse"
    BY <2>1, <2>3, ParseDispatchStep, TypesStay DEF DispatchInv
  <2>4. CASE pass # "parse"
    BY <2>1, <2>2, <2>4, RelationsStay
  <2>5. QED BY <2>3, <2>4
<1>9. QED BY <1>1, <1>2, <1>3, <1>5, <1>6, <1>7, <1>8 DEF Next, Ended

\* DispatchInv holds of every state, with IInv.
THEOREM DispatchInvariant == Spec => []DispatchInv
<1>1. QED BY InitDispatchInv, NextDispatchInv, Invariant, PTL DEF Spec

-----------------------------------------------------------------------------
(* Once the relations are built *)

Rank(k) == CHOOSE i \in DOMAIN order : order[i] = k

\* Without a cycle the rank of a base is less than that of the class.
LEMMA RankFacts ==
  ASSUME IInv, RelationsBuilt, cycles = 0
  PROVE  /\ Range(order) = Declarations /\ IsInjective(order)
         /\ order \in Seq(Declarations) /\ Len(order) \in Nat /\ DOMAIN order = 1..Len(order)
         /\ \A k \in Declarations : Rank(k) \in 1..Len(order) /\ order[Rank(k)] = k
         /\ \A k \in Declarations :
              BaseClass(k) # 0 => BaseClass(k) \in Declarations /\ Rank(BaseClass(k)) < Rank(k)
<1>1. /\ order \in Seq(Declarations) /\ IsInjective(order) /\ BasesBefore
      /\ stack = <<>> /\ next = Len(declared) + 1
      /\ 2..(next - 1) \subseteq Range(stack) \cup Range(order)
  BY DEF IInv, BuildInv
<1>2. Range(order) \subseteq Declarations /\ Range(stack) = {}
  BY <1>1, RangeOfSeq DEF Range
<1>3. 2..(next - 1) = Declarations
  BY <1>1, DeclarationsAreSlots DEF IInv, Declarations
<1>4. Range(order) = Declarations
  BY <1>1, <1>2, <1>3
<1>5. Len(order) \in Nat /\ DOMAIN order = 1..Len(order)
  BY <1>1, LenProperties
<1>6. \A k \in Declarations : Rank(k) \in 1..Len(order) /\ order[Rank(k)] = k
  BY <1>4, <1>5 DEF Range, Rank
<1>7. ASSUME NEW k \in Declarations, BaseClass(k) # 0
      PROVE  BaseClass(k) \in Declarations /\ Rank(BaseClass(k)) < Rank(k)
  <2>1. BaseClass(k) \in Declarations
    BY <1>7, BaseClassType DEF IInv
  <2>2. PICK j \in 1..(Rank(k) - 1) : order[j] = BaseClass(k)
    BY <1>1, <1>5, <1>6, <1>7 DEF BasesBefore
  <2>3. j \in DOMAIN order /\ Rank(BaseClass(k)) \in DOMAIN order
    BY <1>5, <1>6, <2>1, <2>2
  <2>4. Rank(BaseClass(k)) = j
    BY <1>1, <1>6, <2>1, <2>2, <2>3 DEF IsInjective
  <2>5. QED BY <1>6, <2>1, <2>2, <2>4
<1>8. QED BY <1>1, <1>4, <1>5, <1>6, <1>7

\* The declaration of a class type, and that of its base.
LEMMA TypeFacts ==
  ASSUME IInv, DispatchInv, NEW c \in Classes
  PROVE  /\ classType[c].base \in Classes \cup {NoClass}
         /\ classType[c].decl = 0 => classType[c].base = NoClass
         /\ classType[c].decl # 0 =>
              /\ classType[c].decl \in Declarations
              /\ declared[classType[c].decl].name = c
              /\ BaseClass(classType[c].decl) =
                   IF classType[c].base = NoClass THEN 0 ELSE classType[classType[c].base].decl
  BY DEF IInv, ProgramInv, DispatchInv, TypesInv, BaseClass

LEMMA CyclesAgree ==
  ASSUME IInv, DispatchInv, RelationsBuilt
  PROVE  cycles > 0 <=> \E k \in Declarations : ReportsCycle(k)
<1>1. cycles \in Nat
  BY DEF IInv, TypeOK
<1>2. ASSUME cycles = 0, NEW k \in Declarations, ReportsCycle(k)
      PROVE  FALSE
  <2> DEFINE c == declared[k].name
             b == classType[c].base
             d == classType[c].decl
             T == {t \in Classes :
                     classType[t].decl # 0 => Rank(classType[t].decl) < Rank(d)}
  <2>1. c \in Classes /\ BaseClass(k) # 0 /\ c \in TypesAbove(b)
    BY <1>2 DEF IInv, ProgramInv, ReportsCycle, IsDerivedClassOf
  <2>2. b \in Classes /\ d # 0 /\ d \in Declarations /\ BaseClass(d) = BaseClass(k)
        /\ BaseClass(d) = classType[b].decl
    BY <2>1, TypeFacts DEF BaseClass
  <2>3. /\ \A e \in Declarations : Rank(e) \in Nat
        /\ \A e \in Declarations :
              BaseClass(e) # 0 => BaseClass(e) \in Declarations /\ Rank(BaseClass(e)) < Rank(e)
    BY <1>2, RankFacts
  <2>4. b \in T
    BY <2>1, <2>2, <2>3
  <2>5. ASSUME NEW t \in T, classType[t].base # NoClass
        PROVE  classType[t].base \in T
    <3>1. /\ t \in Classes /\ classType[t].base \in Classes
          /\ classType[t].decl # 0 /\ classType[t].decl \in Declarations
          /\ BaseClass(classType[t].decl) = classType[classType[t].base].decl
      BY <2>5, TypeFacts
    <3>2. Rank(classType[t].decl) < Rank(d)
      BY <2>5, <3>1
    <3> DEFINE e == classType[classType[t].base].decl
    <3>3. ASSUME e # 0 PROVE Rank(e) < Rank(d)
      <4>1. e \in Declarations /\ Rank(e) < Rank(classType[t].decl)
        BY <2>3, <3>1, <3>3
      <4>2. QED BY <2>2, <2>3, <3>1, <3>2, <4>1
    <3>4. QED BY <3>1, <3>3
  <2>6. ClosedUpwards(T)
    BY <2>5 DEF ClosedUpwards
  <2>7. c \in T
    <3> HIDE DEF T, c, b
    <3>1. QED BY <2>1, <2>2, <2>4, <2>6, LeastClosed DEF IInv
  <2>8. QED BY <2>2, <2>3, <2>7
<1>3. QED BY <1>1, <1>2 DEF DispatchInv, ChainsInv

\* A program whose classes pass the check of CheckTypes for cycles has no cycle
\* BuildClassRelations would throw for, and one that fails it has.
THEOREM CyclesAreReportedTwice == Spec => []CycleReportsAgree
<1>1. IInv /\ DispatchInv => CycleReportsAgree
  BY CyclesAgree DEF CycleReportsAgree
<1>2. QED BY <1>1, Invariant, DispatchInvariant, PTL

\* The declaration of a class type is an object's class, and so is its base.
LEMMA ObjectFacts ==
  ASSUME IInv, DispatchInv, NEW k \in Objects
  PROVE  /\ k \in Declarations /\ k # 0 /\ declared[k].name \in Classes
         /\ classType[declared[k].name].decl = k
         /\ BaseClass(k) # 0 => /\ BaseClass(k) \in Objects
                                /\ classType[declared[k].name].base \in Classes
                                /\ declared[BaseClass(k)].name = classType[declared[k].name].base
<1> DEFINE c == declared[k].name
           b == classType[c].base
<1>1. k \in Declarations /\ k # 0 /\ c \in Classes /\ classType[c].decl = k
  BY DeclarationsAreSlots DEF IInv, ProgramInv, Objects
<1>2. ASSUME BaseClass(k) # 0
      PROVE  b \in Classes /\ BaseClass(k) \in Objects /\ declared[BaseClass(k)].name = b
  <2>1. b \in Classes /\ classType[b].decl = BaseClass(k)
    BY <1>1, <1>2, TypeFacts DEF BaseClass
  <2>2. QED BY <1>2, <2>1, TypeFacts DEF Objects
<1>3. QED BY <1>1, <1>2

\* The chain of a class is that of its base and the class.
LEMMA ChainByOne ==
  ASSUME IInv, DispatchInv, RelationsBuilt, cycles = 0, NEW k \in Declarations
  PROVE  /\ chains[k] \in Seq(Slots)
         /\ Range(chains[k]) = IF BaseClass(k) = 0 THEN {k}
                               ELSE Range(chains[BaseClass(k)]) \cup {k}
<1>1. k \in Range(order) /\ BaseClass(k) \in {0} \cup Declarations
  BY RankFacts, BaseClassType DEF IInv
<1>2. k \in Slots /\ BaseClass(k) \in {0} \cup Slots /\ chains \in [Slots -> Seq(Slots)]
  BY <1>1, DeclarationsAreSlots DEF IInv, TypeOK
<1>3. chains[k] = ChainThrough(k)
  BY <1>1 DEF DispatchInv, ChainsInv
<1>4. CASE BaseClass(k) = 0
  <2>1. chains[k] = <<k>>
    BY <1>3, <1>4 DEF ChainThrough
  <2>2. Range(<<k>>) = {k}
    BY DEF Range
  <2>3. <<k>> \in Seq(Slots)
    BY <1>2
  <2>4. QED BY <1>4, <2>1, <2>2, <2>3
<1>5. CASE BaseClass(k) # 0
  <2>1. chains[k] = Append(chains[BaseClass(k)], k) /\ chains[BaseClass(k)] \in Seq(Slots)
    BY <1>2, <1>3, <1>5 DEF ChainThrough
  <2>2. QED BY <1>2, <1>5, <2>1, RangeOfAppend
<1>6. QED BY <1>2, <1>4, <1>5

\* What holds of a class if it holds of its base holds of all: the ranks go down.
LEMMA InductionOverBases ==
  ASSUME IInv, RelationsBuilt, cycles = 0, NEW S,
         \A k \in Declarations : (BaseClass(k) # 0 => BaseClass(k) \in S) => k \in S
  PROVE  Declarations \subseteq S
<1> DEFINE T == {n \in Nat : \A k \in Declarations : Rank(k) = n => k \in S}
<1>1. /\ \A k \in Declarations : Rank(k) \in Nat
      /\ \A k \in Declarations :
           BaseClass(k) # 0 => BaseClass(k) \in Declarations /\ Rank(BaseClass(k)) < Rank(k)
  BY RankFacts
<1>2. ASSUME NEW n \in Nat, \A m \in Nat : m < n => m \in T
      PROVE  n \in T
  <2>1. ASSUME NEW k \in Declarations, Rank(k) = n
        PROVE  k \in S
    <3>1. ASSUME BaseClass(k) # 0 PROVE BaseClass(k) \in S
      BY <1>1, <1>2, <2>1, <3>1
    <3>2. QED BY <3>1
  <2>2. QED BY <2>1
<1>3. \A n \in Nat : n \in T
  <2> HIDE DEF T
  <2>1. QED BY <1>2, StrongInduction
<1>4. QED BY <1>1, <1>3

LEMMA EmbeddedBases ==
  ASSUME IInv, DispatchInv, RelationsBuilt, cycles = 0, NEW b \in Objects
  PROVE  \A k \in Objects :
           IsDerivedClassOf(declared[k].name, declared[b].name) <=> b \in Range(chains[k])
<1> DEFINE B == declared[b].name
           S == {k \in Declarations : k \in Objects =>
                   (IsDerivedClassOf(declared[k].name, B) <=> b \in Range(chains[k]))}
<1>1. B \in Classes /\ classType[B].decl = b /\ b # 0
  BY ObjectFacts
<1>2. ASSUME NEW k \in Declarations, BaseClass(k) # 0 => BaseClass(k) \in S, k \in Objects
      PROVE  IsDerivedClassOf(declared[k].name, B) <=> b \in Range(chains[k])
  <2> DEFINE c == declared[k].name
             a == classType[c].base
  <2>1. c \in Classes /\ classType[c].decl = k
    BY <1>2, ObjectFacts
  <2>2. TypesAbove(c) = IF a = NoClass THEN {c} ELSE {c} \cup TypesAbove(a)
    BY <2>1, AboveByOne DEF IInv
  <2>3. B = c <=> b = k
    BY <1>1, <2>1
  <2>4. CASE BaseClass(k) = 0
    <3>1. b \in Range(chains[k]) <=> b = k
      BY <2>4, ChainByOne
    <3>2. ASSUME a # NoClass, B \in TypesAbove(a) PROVE FALSE
      <4>1. a \in Classes /\ classType[a].decl = 0 /\ classType[a].base = NoClass
        BY <2>1, <2>4, <3>2, TypeFacts DEF BaseClass
      <4>2. TypesAbove(a) = {a}
        BY <4>1, AboveByOne DEF IInv
      <4>3. QED BY <1>1, <3>2, <4>1, <4>2
    <3>3. B \in TypesAbove(c) <=> B = c
      BY <2>2, <3>2
    <3>4. QED BY <2>3, <3>1, <3>3 DEF IsDerivedClassOf
  <2>5. CASE BaseClass(k) # 0
    <3>1. /\ BaseClass(k) \in Objects /\ a \in Classes
          /\ declared[BaseClass(k)].name = a
      BY <1>2, <2>5, ObjectFacts
    <3>2. B \in TypesAbove(a) <=> b \in Range(chains[BaseClass(k)])
      BY <1>2, <2>5, <3>1 DEF IsDerivedClassOf
    <3>3. B \in TypesAbove(c) <=> B = c \/ B \in TypesAbove(a)
      BY <2>2, <3>1, NoClassAssumption
    <3>4. b \in Range(chains[k]) <=> b = k \/ b \in Range(chains[BaseClass(k)])
      BY <2>5, ChainByOne
    <3>5. QED BY <2>3, <3>2, <3>3, <3>4 DEF IsDerivedClassOf
  <2>6. QED BY <2>4, <2>5
<1>3. Declarations \subseteq S
  <2>1. \A k \in Declarations : (BaseClass(k) # 0 => BaseClass(k) \in S) => k \in S
    BY <1>2
  <2> HIDE DEF S
  <2>2. QED BY <2>1, InductionOverBases
<1>4. QED BY <1>3, ObjectFacts

\* An object that the type checker lets a variable of a class type hold has
\* the class among the bases the lowering embeds in it, and no other has.
THEOREM AssignableObjectsAreEmbedded == Spec => []AssignableIsEmbedded
<1>1. IInv /\ DispatchInv => AssignableIsEmbedded
  BY EmbeddedBases DEF AssignableIsEmbedded
<1>2. QED BY <1>1, Invariant, DispatchInvariant, PTL

-----------------------------------------------------------------------------
(* Once the tables are complete *)

LEMMA CallsAreLast ==
  ASSUME IInv, pass = "calls"
  PROVE  RelationsBuilt /\ cycles = 0
  BY DEF IInv, BuildInv, RelationsBuilt

\* Every class has its own methods and, for the rest, what its base has.
LEMMA TablesComplete ==
  ASSUME IInv, DispatchInv, pass = "calls", NEW k \in Declarations, NEW n \in Names
  PROVE  IF n \in MethodNames(k) THEN HasOwn(k, n) ELSE HasInherited(k, n)
<1> DEFINE i == Rank(k)
<1>1. /\ i \in 1..laid /\ order[i] = k /\ laid \in Nat
      /\ laid # 0 => filled = Len(methods[order[laid]])
  BY CallsAreLast, RankFacts DEF DispatchInv, CallsInv, ClassDone, Current, IInv, TypeOK
<1>2. methods[k] \in Seq([name : Names, type : Signatures])
  BY SMTT(40) DEF IInv, TypeOK, ProgramInv, Declarations
<1>3. DOMAIN methods[k] = 1..Len(methods[k])
  BY <1>2, LenProperties
<1>4. FilledOf(i) = Len(methods[k])
  <2> HIDE DEF i
  <2>1. QED BY <1>1 DEF FilledOf
<1>5. FilledNames(i) = MethodNames(k)
  <2> HIDE DEF i
  <2>1. QED BY <1>1, <1>3, <1>4 DEF FilledNames, MethodNames
<1>6. IF n \in FilledNames(i) THEN HasOwn(order[i], n) ELSE HasInherited(order[i], n)
  BY <1>1 DEF IInv, LayoutInv, NearestOverride
<1>7. QED BY <1>1, <1>5, <1>6

\* LookedUp, after each number of turns.
LookupSteps(c, n) ==
  LET at[i \in 0..Cardinality(Classes)] ==
        IF i = 0 THEN StartLookup(c)
        ELSE IF LookupContinues(at[i - 1], n, FALSE) THEN NextLookup(at[i - 1])
        ELSE at[i - 1]
  IN  at

Lookups == [class : Classes, visited : SUBSET Classes]

LookupAfter(l, n) == IF LookupContinues(l, n, FALSE) THEN NextLookup(l) ELSE l

\* The turns a lookup has left: it goes on only where there is a base.
LEMMA LookupTurn ==
  ASSUME IInv, NEW l \in Lookups, NEW n \in Names, LookupContinues(l, n, FALSE)
  PROVE  /\ FoundMember(l, n) = NoMember /\ DeclOf(l) # 0
         /\ BaseOf(l) \in Classes /\ BaseOf(l) # NoClass
         /\ NextLookup(l) \in Lookups
         /\ NextLookup(l).class = BaseOf(l)
         /\ NextLookup(l).visited = l.visited \cup {BaseOf(l)}
<1>1. FoundMember(l, n) = NoMember /\ DeclOf(l) # 0 /\ BaseOf(l) # NoClass
  BY DEF LookupContinues, LookupFails
<1>2. l.class \in Classes /\ l.visited \subseteq Classes
  BY DEF Lookups
<1>3. BaseOf(l) \in Classes
  BY <1>1, <1>2 DEF IInv, ProgramInv, BaseOf
<1>4. QED BY <1>1, <1>2, <1>3 DEF NextLookup, Lookups

LEMMA LookupStepsDefined ==
  ASSUME IInv, NEW c \in Classes, NEW m \in Names
  PROVE  /\ LookupSteps(c, m)[0] = StartLookup(c)
         /\ \A i \in 1..Cardinality(Classes) :
              LookupSteps(c, m)[i] = LookupAfter(LookupSteps(c, m)[i - 1], m)
<1> DEFINE N == Cardinality(Classes)
           a == StartLookup(c)
           g == [l \in Lookups |-> LookupAfter(l, m)]
           Eq(f) == f = [i \in 0..N |-> IF i = 0 THEN a ELSE LookupAfter(f[i - 1], m)]
<1>1. N \in Nat
  BY CountsClasses
<1>2. g \in [Lookups -> Lookups] /\ a \in Lookups
  <2>1. \A l \in Lookups : LookupAfter(l, m) \in Lookups
    BY LookupTurn DEF LookupAfter
  <2>2. a \in Lookups
    BY DEF StartLookup, Lookups
  <2> HIDE DEF a
  <2>3. QED BY <2>1, <2>2
<1>3. PICK f : f \in [0..N -> Lookups] /\ f[0] = a /\ \A i \in 1..N : f[i] = g[f[i - 1]]
  <2> HIDE DEF g, N, a
  <2>1. \E f : Iterates(f, N, Lookups, a, g)
    BY <1>1, <1>2, IterationExists
  <2>2. QED BY <2>1 DEF Iterates
<1>4. \A i \in 0..N : i # 0 => i \in 1..N /\ g[f[i - 1]] = LookupAfter(f[i - 1], m)
  BY <1>1, <1>3
<1>5. Eq(f)
  <2> HIDE DEF g, N, a
  <2>1. QED BY <1>3, <1>4
<1>6. LookupSteps(c, m) = CHOOSE h : Eq(h)
  BY DEF LookupSteps, LookupAfter
<1>7. Eq(LookupSteps(c, m))
  <2> HIDE DEF Eq
  <2>1. QED BY <1>5, <1>6
<1> DEFINE s == LookupSteps(c, m)
<1>8. s = [i \in 0..N |-> IF i = 0 THEN a ELSE LookupAfter(s[i - 1], m)]
  BY <1>7
<1>9. s[0] = a /\ \A i \in 1..N : s[i] = LookupAfter(s[i - 1], m)
  <2> HIDE DEF s, a, N
  <2>1. 0 \in 0..N /\ \A i \in 1..N : i \in 0..N /\ i # 0
    BY <1>1
  <2>2. QED BY <1>8, <2>1
<1>10. QED BY <1>9

\* A lookup of n that began at class k: the class it is at has the entry of k, and is
\* before those visited, so that it meets none of them again.
OnItsWay(l, k, n) ==
  /\ l \in Lookups
  /\ SameEntry(DeclOf(l), k, n)
  /\ DeclOf(l) # 0 => \A t \in l.visited : /\ classType[t].decl # 0
                                           /\ Rank(DeclOf(l)) <= Rank(classType[t].decl)

LEMMA StaysOnItsWay ==
  ASSUME IInv, DispatchInv, pass = "calls", NEW k \in Objects, NEW n \in Names, NEW l,
         OnItsWay(l, k, n), LookupContinues(l, n, FALSE)
  PROVE  OnItsWay(NextLookup(l), k, n) /\ BaseOf(l) \notin l.visited
<1> DEFINE d == DeclOf(l)
           b == BaseOf(l)
           e == DeclOf(NextLookup(l))
<1>1. /\ l \in Lookups /\ FoundMember(l, n) = NoMember /\ d # 0
      /\ b \in Classes /\ b # NoClass /\ NextLookup(l) \in Lookups
      /\ NextLookup(l).class = b /\ NextLookup(l).visited = l.visited \cup {b}
  BY LookupTurn DEF OnItsWay
<1>2. l.class \in Classes /\ l.visited \subseteq Classes
  BY <1>1 DEF Lookups
<1>3. d \in Declarations /\ BaseClass(d) = e /\ e = classType[b].decl
  BY <1>1, <1>2, TypeFacts DEF DeclOf, BaseOf
<1>4. n \notin MethodNames(d)
  <2>1. members[d][n] = NoMember
    BY <1>1 DEF FoundMember
  <2>2. n \in MethodNames(d) => members[d][n] = MemberOf(d, "Method")
    BY <1>3 DEF DispatchInv, TypesInv
  <2>3. MemberOf(d, "Method") # NoMember
    BY DEF NoMember, MemberOf
  <2>4. QED BY <2>1, <2>2, <2>3
<1>5. HasInherited(d, n)
  BY <1>3, <1>4, TablesComplete
<1>6. SameEntry(d, k, n) /\ \A t \in l.visited : /\ classType[t].decl # 0
                                                 /\ Rank(d) <= Rank(classType[t].decl)
  BY <1>1 DEF OnItsWay
<1>7. SameEntry(e, k, n)
  BY <1>1, <1>3, <1>5, <1>6 DEF HasInherited, SameEntry
<1>8. /\ \A x \in Declarations : Rank(x) \in Nat
      /\ e # 0 => e \in Declarations /\ Rank(e) < Rank(d)
  BY <1>3, CallsAreLast, RankFacts
<1>9. \A t \in l.visited : classType[t].decl \in Declarations
  BY <1>2, <1>6, TypeFacts
<1>10. e # 0 => \A t \in l.visited : Rank(e) < Rank(classType[t].decl)
  BY <1>3, <1>6, <1>8, <1>9
<1>11. b \notin l.visited
  <2>1. CASE e = 0
    BY <1>3, <1>6, <2>1
  <2>2. CASE e # 0
    BY <1>3, <1>8, <1>10, <2>2
  <2>3. QED BY <2>1, <2>2
<1>12. e # 0 => \A t \in NextLookup(l).visited :
         classType[t].decl # 0 /\ Rank(e) <= Rank(classType[t].decl)
  BY <1>1, <1>3, <1>6, <1>8, <1>9, <1>10
<1>13. QED BY <1>1, <1>7, <1>11, <1>12 DEF OnItsWay

\* After i turns a lookup that is not over has visited more than i classes.
Counted(l, n, i) == ~LookupContinues(l, n, FALSE) \/ Cardinality(l.visited) > i

\* As many turns as there are classes end a lookup, with the method of the slot.
LEMMA LookupAgrees ==
  ASSUME IInv, DispatchInv, pass = "calls", NEW k \in Objects, NEW n \in Names
  PROVE  LET found == LookedUp(declared[k].name, n)
         IN  /\ found.kind = "None" => SlotOf(k, n) = 0
             /\ found.kind = "Method" => /\ SlotOf(k, n) # 0
                                         /\ info[k].vtable_methods[SlotOf(k, n)] =
                                              [class |-> found.id, name |-> n]
             /\ found.kind = "Field" => SameEntry(BaseClass(found.id), k, n)
<1> DEFINE N == Cardinality(Classes)
           c == declared[k].name
           s == LookupSteps(c, n)
<1>1. N \in Nat
  BY CountsClasses
<1>2. c \in Classes /\ classType[c].decl = k /\ k # 0 /\ k \in Declarations
  BY ObjectFacts
<1>3. /\ s[0] = StartLookup(c)
      /\ \A i \in 1..N : s[i] = LookupAfter(s[i - 1], n)
  BY <1>2, LookupStepsDefined
<1>4. LookedUp(c, n) = FoundMember(s[N], n)
  BY DEF LookedUp, LookupSteps
<1> HIDE DEF s, N
<1>5. ASSUME NEW i \in 0..(N - 1)
      PROVE  /\ i + 1 \in 1..N /\ i \in Nat
             /\ s[i + 1] = LookupAfter(s[i], n)
  <2>1. i + 1 \in 1..N /\ (i + 1) - 1 = i /\ i \in Nat
    BY <1>1
  <2>2. QED BY <1>3, <2>1
<1>6. \A i \in 0..N : OnItsWay(s[i], k, n) /\ Counted(s[i], n, i)
  <2> DEFINE S == {i \in 0..N : OnItsWay(s[i], k, n) /\ Counted(s[i], n, i)}
  <2>1. 0 \in S
    <3>1. s[0] \in Lookups /\ s[0].class = c /\ s[0].visited = {c}
      BY <1>2, <1>3 DEF StartLookup, Lookups
    <3>2. DeclOf(s[0]) = k
      BY <1>2, <3>1 DEF DeclOf
    <3>3. Rank(k) \in Nat
      BY <1>2, CallsAreLast, RankFacts
    <3>4. OnItsWay(s[0], k, n)
      BY <1>2, <3>1, <3>2, <3>3 DEF OnItsWay, SameEntry
    <3>5. Cardinality(s[0].visited) = 1
      BY <3>1, FS_Singleton
    <3>6. Counted(s[0], n, 0)
      BY <3>5 DEF Counted
    <3>7. QED BY <1>1, <3>4, <3>6
  <2>2. ASSUME NEW i \in 0..(N - 1), i \in S
        PROVE  i + 1 \in S
    <3>1. /\ i + 1 \in 1..N /\ i + 1 \in 0..N /\ i \in Nat
          /\ s[i + 1] = LookupAfter(s[i], n)
      BY <1>5
    <3>2. OnItsWay(s[i], k, n) /\ Counted(s[i], n, i)
      BY <2>2
    <3>3. CASE ~LookupContinues(s[i], n, FALSE)
      <4>1. s[i + 1] = s[i]
        BY <3>1, <3>3 DEF LookupAfter
      <4>2. OnItsWay(s[i + 1], k, n) /\ Counted(s[i + 1], n, i + 1)
        BY <3>2, <3>3, <4>1 DEF Counted
      <4>3. QED BY <3>1, <4>2
    <3>4. CASE LookupContinues(s[i], n, FALSE)
      <4>1. OnItsWay(s[i + 1], k, n) /\ BaseOf(s[i]) \notin s[i].visited
        BY <3>1, <3>2, <3>4, StaysOnItsWay DEF LookupAfter
      <4>2. s[i] \in Lookups /\ s[i + 1].visited = s[i].visited \cup {BaseOf(s[i])}
        BY <3>1, <3>2, <3>4, LookupTurn DEF OnItsWay, LookupAfter
      <4>3. IsFiniteSet(s[i].visited) /\ Cardinality(s[i].visited) \in Nat
        BY <4>2, CountsClasses DEF Lookups
      <4>4. Cardinality(s[i + 1].visited) = Cardinality(s[i].visited) + 1
        BY <4>1, <4>2, <4>3, FS_AddElement
      <4>5. Cardinality(s[i].visited) > i
        BY <3>2, <3>4 DEF Counted
      <4>6. Cardinality(s[i + 1].visited) > i + 1
        BY <3>1, <4>3, <4>4, <4>5
      <4>7. Counted(s[i + 1], n, i + 1)
        BY <4>6 DEF Counted
      <4>8. QED BY <3>1, <4>1, <4>7
    <3>5. QED BY <3>3, <3>4
  <2> HIDE DEF S
  <2>3. \A i \in 0..N : i \in S
    BY <1>1, <2>1, <2>2, InductionUpTo
  <2>4. QED BY <2>3 DEF S
<1> DEFINE l == s[N]
           d == DeclOf(l)
<1>7. OnItsWay(l, k, n) /\ ~LookupContinues(l, n, FALSE)
  <2>1. N \in 0..N
    BY <1>1
  <2>2. OnItsWay(l, k, n) /\ Counted(l, n, N)
    BY <1>6, <2>1
  <2>3. l.visited \in SUBSET Classes
    BY <2>2 DEF OnItsWay, Lookups
  <2>4. Cardinality(l.visited) \in 0..N
    BY <2>3, CountsClasses DEF N
  <2>5. ~(Cardinality(l.visited) > N)
    BY <1>1, <2>4
  <2>6. QED BY <2>2, <2>5 DEF Counted
<1> HIDE DEF l
<1>8. l.class \in Classes /\ SameEntry(d, k, n)
  BY <1>7 DEF OnItsWay, Lookups
<1>9. d # 0 => /\ d \in Declarations
               /\ BaseClass(d) = IF BaseOf(l) = NoClass THEN 0 ELSE classType[BaseOf(l)].decl
  BY <1>8, TypeFacts DEF DeclOf, BaseOf
<1>10. d # 0 => IF n \in MethodNames(d)
                  THEN members[d][n] = MemberOf(d, "Method")
                  ELSE members[d][n] \in {NoMember, MemberOf(d, "Field")}
  BY <1>9 DEF DispatchInv, TypesInv
<1> DEFINE found == LookedUp(c, n)
<1>11. found = IF d = 0 THEN NoMember ELSE members[d][n]
  BY <1>4 DEF FoundMember, l
<1> HIDE DEF found
<1>12. CASE d # 0 /\ n \in MethodNames(d)
  <2>1. found.kind = "Method" /\ found.id = d
    BY <1>10, <1>11, <1>12 DEF MemberOf
  <2>2. HasOwn(d, n)
    BY <1>9, <1>12, TablesComplete
  <2>3. SlotOf(k, n) # 0 /\ info[k].vtable_methods[SlotOf(k, n)] = [class |-> d, name |-> n]
    BY <1>8, <1>12, <2>2 DEF SameEntry, HasOwn
  <2>4. QED BY <2>1, <2>3 DEF found
<1>13. CASE d # 0 /\ n \notin MethodNames(d) /\ found # NoMember
  <2>1. found.kind = "Field" /\ found.id = d
    BY <1>10, <1>11, <1>13 DEF MemberOf
  <2>2. HasInherited(d, n)
    BY <1>9, <1>13, TablesComplete
  <2>3. SameEntry(BaseClass(d), k, n)
    BY <1>8, <1>13, <2>2 DEF HasInherited, SameEntry
  <2>4. QED BY <2>1, <2>3 DEF found
<1>14. CASE found = NoMember
  <2>1. found.kind = "None"
    BY <1>14 DEF NoMember
  <2>2. FoundMember(l, n) = NoMember /\ (d # 0 => n \notin MethodNames(d))
    <3>1. FoundMember(l, n) = NoMember
      BY <1>11, <1>14 DEF FoundMember
    <3>2. QED BY <1>10, <1>11, <1>14, <3>1 DEF MemberOf, NoMember
  <2>3. LookupFails(l, n, FALSE)
    BY <1>7, <2>2 DEF LookupContinues
  <2>4. SlotOf(k, n) = 0
    <3>1. CASE d = 0
      BY <1>8, <3>1 DEF SameEntry
    <3>2. CASE d # 0
      <4>1. BaseClass(d) = 0
        BY <1>9, <2>3, <3>2 DEF LookupFails
      <4>2. HasInherited(d, n)
        BY <1>9, <2>2, <3>2, TablesComplete
      <4>3. QED BY <1>8, <3>2, <4>1, <4>2 DEF SameEntry, HasInherited
    <3>3. QED BY <3>1, <3>2
  <2>5. QED BY <2>1, <2>4 DEF found
<1>15. QED BY <1>11, <1>12, <1>13, <1>14 DEF found

\* The method LookupClassMember finds, by the class types, is the one in the slot
\* of the v-table; without a member there is no slot; and where a field is found
\* the slot has what it has in the base of the field's class.
THEOREM LookupFindsTheSlot == Spec => []LookupAgreesWithSlots
<1>1. IInv /\ DispatchInv => LookupAgreesWithSlots
  BY LookupAgrees DEF LookupAgreesWithSlots
<1>2. QED BY <1>1, Invariant, DispatchInvariant, PTL

-----------------------------------------------------------------------------
(* Going up from a class *)

\* DynamicDispatch!Above for any bases, and its values on the way.
UpSteps(b, k, n) ==
  LET above[i \in 0..n] ==
        IF i = 0 THEN k ELSE IF above[i - 1] = 0 THEN 0 ELSE b[above[i - 1]]
  IN  above
UpFrom(b, k, n) == UpSteps(b, k, n)[n]
OneUp(b, k) == IF k = 0 THEN 0 ELSE b[k]

LEMMA UpStepsDefined ==
  ASSUME NEW M \in Nat, NEW b \in [1..M -> 0..M], NEW k \in 0..M, NEW n \in Nat
  PROVE  /\ UpSteps(b, k, n)[0] = k
         /\ \A i \in 1..n : UpSteps(b, k, n)[i] = OneUp(b, UpSteps(b, k, n)[i - 1])
<1> DEFINE V == 0..M
           g == [a \in V |-> OneUp(b, a)]
           Eq(f) == f = [i \in 0..n |-> IF i = 0 THEN k ELSE OneUp(b, f[i - 1])]
<1>1. g \in [V -> V] /\ k \in V
  BY DEF OneUp
<1>2. PICK f : f \in [0..n -> V] /\ f[0] = k /\ \A i \in 1..n : f[i] = g[f[i - 1]]
  <2> HIDE DEF g, V
  <2>1. \E f : Iterates(f, n, V, k, g)
    BY <1>1, IterationExists
  <2>2. QED BY <2>1 DEF Iterates
<1>3. \A i \in 0..n : i # 0 => i \in 1..n /\ g[f[i - 1]] = OneUp(b, f[i - 1])
  BY <1>2
<1>4. Eq(f)
  <2> HIDE DEF g, V
  <2>1. QED BY <1>2, <1>3
<1>5. UpSteps(b, k, n) = CHOOSE h : Eq(h)
  BY DEF UpSteps, OneUp
<1>6. Eq(UpSteps(b, k, n))
  <2> HIDE DEF Eq
  <2>1. QED BY <1>4, <1>5
<1> DEFINE s == UpSteps(b, k, n)
<1>7. s = [i \in 0..n |-> IF i = 0 THEN k ELSE OneUp(b, s[i - 1])]
  BY <1>6
<1>8. s[0] = k /\ \A i \in 1..n : s[i] = OneUp(b, s[i - 1])
  <2> HIDE DEF s
  <2>1. 0 \in 0..n /\ \A i \in 1..n : i \in 0..n /\ i # 0
    OBVIOUS
  <2>2. QED BY <1>7, <2>1
<1>9. QED BY <1>8

\* The way does not depend on where it ends.
LEMMA UpStepsAgree ==
  ASSUME NEW M \in Nat, NEW b \in [1..M -> 0..M], NEW k \in 0..M, NEW n \in Nat
  PROVE  \A i \in 0..n : UpSteps(b, k, n)[i] = UpFrom(b, k, i)
<1> DEFINE S == {i \in Nat : \A m \in Nat : i <= m => UpSteps(b, k, m)[i] = UpSteps(b, k, i)[i]}
<1>1. 0 \in S
  BY UpStepsDefined
<1>2. ASSUME NEW i \in Nat, i \in S
      PROVE  i + 1 \in S
  <2>1. ASSUME NEW m \in Nat, i + 1 <= m
        PROVE  UpSteps(b, k, m)[i + 1] = OneUp(b, UpSteps(b, k, i)[i])
    <3>1. i + 1 \in 1..m /\ (i + 1) - 1 = i /\ i <= m
      BY <2>1
    <3>2. UpSteps(b, k, m)[i + 1] = OneUp(b, UpSteps(b, k, m)[i])
      <4>1. \A j \in 1..m : UpSteps(b, k, m)[j] = OneUp(b, UpSteps(b, k, m)[j - 1])
        BY UpStepsDefined
      <4>2. QED BY <3>1, <4>1
    <3>3. UpSteps(b, k, m)[i] = UpSteps(b, k, i)[i]
      BY <1>2, <3>1
    <3>4. QED BY <3>2, <3>3
  <2>2. i + 1 \in Nat /\ i + 1 <= i + 1
    OBVIOUS
  <2>3. QED BY <2>1, <2>2
<1>3. \A i \in Nat : i \in S
  <2> HIDE DEF S
  <2>1. QED BY <1>1, <1>2, Induction
<1>4. QED BY <1>3 DEF UpFrom

LEMMA UpByOne ==
  ASSUME NEW M \in Nat, NEW b \in [1..M -> 0..M], NEW k \in 0..M, NEW n \in Nat
  PROVE  /\ UpFrom(b, k, 0) = k
         /\ UpFrom(b, k, n + 1) = OneUp(b, UpFrom(b, k, n))
<1>1. UpFrom(b, k, 0) = k
  BY UpStepsDefined DEF UpFrom
<1>2. n + 1 \in Nat /\ n + 1 \in 1..(n + 1) /\ (n + 1) - 1 = n /\ n \in 0..(n + 1)
  OBVIOUS
<1>3. UpSteps(b, k, n + 1)[n + 1] = OneUp(b, UpSteps(b, k, n + 1)[n])
  <2> DEFINE m == n + 1
  <2>1. m \in Nat
    BY <1>2
  <2> HIDE DEF m
  <2>2. \A j \in 1..m : UpSteps(b, k, m)[j] = OneUp(b, UpSteps(b, k, m)[j - 1])
    BY <2>1, UpStepsDefined
  <2>3. QED BY <1>2, <2>2 DEF m
<1>4. UpSteps(b, k, n + 1)[n] = UpFrom(b, k, n)
  BY <1>2, UpStepsAgree
<1>5. QED BY <1>1, <1>3, <1>4 DEF UpFrom

\* One step more from a class is as many from its base.
LEMMA UpFromBase ==
  ASSUME NEW M \in Nat, NEW b \in [1..M -> 0..M], NEW k \in 1..M
  PROVE  \A n \in Nat : UpFrom(b, k, n + 1) = UpFrom(b, b[k], n)
<1> DEFINE S == {n \in Nat : UpFrom(b, k, n + 1) = UpFrom(b, b[k], n)}
<1>1. k \in 0..M /\ b[k] \in 0..M
  OBVIOUS
<1>2. 0 \in S
  <2>1. UpFrom(b, k, 0 + 1) = OneUp(b, UpFrom(b, k, 0)) /\ UpFrom(b, k, 0) = k
    BY <1>1, UpByOne
  <2>2. UpFrom(b, b[k], 0) = b[k]
    BY <1>1, UpByOne
  <2>3. QED BY <2>1, <2>2 DEF OneUp
<1>3. ASSUME NEW n \in Nat, n \in S
      PROVE  n + 1 \in S
  <2>1. n + 1 \in Nat
    OBVIOUS
  <2>2. UpFrom(b, k, (n + 1) + 1) = OneUp(b, UpFrom(b, k, n + 1))
    BY <1>1, <2>1, UpByOne
  <2>3. UpFrom(b, b[k], n + 1) = OneUp(b, UpFrom(b, b[k], n))
    BY <1>1, UpByOne
  <2>4. QED BY <1>3, <2>1, <2>2, <2>3
<1>4. \A n \in Nat : n \in S
  <2> HIDE DEF S
  <2>1. QED BY <1>2, <1>3, Induction
<1>5. QED BY <1>4

-----------------------------------------------------------------------------
(* The refinement of DynamicDispatch *)

Bases == [k \in Slots |-> IF k \in Declarations THEN BaseClass(k) ELSE 0]
DeclaredNames == [k \in Slots |-> IF k \in Declarations THEN MethodNames(k) ELSE {}]

LEMMA AbstractAbove == \A k, n : AbstractDispatch!Above(k, n) = UpFrom(Bases, k, n)
  BY DEF AbstractDispatch!Above, UpFrom, UpSteps, Bases

LEMMA BasesType ==
  ASSUME ProgramInv
  PROVE  /\ Bases \in [1..(MaxClasses + 1) -> 0..(MaxClasses + 1)]
         /\ \A k \in Declarations : Bases[k] = BaseClass(k)
<1>1. \A k \in Declarations : k \in Slots /\ BaseClass(k) \in 0..(MaxClasses + 1)
  BY BaseClassType, DeclarationsAreSlots, RelationsAssumption DEF Slots
<1>2. 0 \in 0..(MaxClasses + 1)
  BY RelationsAssumption
<1>3. QED BY <1>1, <1>2 DEF Bases, Slots

\* There are no more steps up than classes.
LEMMA OrderIsShort ==
  ASSUME IInv, RelationsBuilt, cycles = 0
  PROVE  Len(order) <= MaxClasses
<1> DEFINE T == 2..(MaxClasses + 1)
<1>1. /\ IsInjective(order) /\ Len(order) \in Nat /\ DOMAIN order = 1..Len(order)
      /\ order \in Seq(Declarations)
  BY RankFacts
<1>2. Declarations \subseteq T
  BY DeclarationsAreSlots, RelationsAssumption DEF IInv, Declarations, Slots
<1>3. order \in [1..Len(order) -> T]
  <2>1. order \in [1..Len(order) -> Declarations]
    BY <1>1, LenProperties
  <2> HIDE DEF T
  <2>2. QED BY <1>2, <2>1
<1>4. order \in Injection(1..Len(order), T)
  BY <1>1, <1>3 DEF Injection
<1>5. IsFiniteSet(T) /\ Cardinality(T) = MaxClasses
  BY RelationsAssumption, FS_Interval
<1>6. Cardinality(1..Len(order)) = Len(order)
  BY <1>1, FS_Interval
<1>7. Cardinality(1..Len(order)) <= Cardinality(T)
  <2> HIDE DEF T
  <2>1. QED BY <1>4, <1>5, FS_Injection
<1>8. QED BY <1>5, <1>6, <1>7

\* A class of the chain is some steps up, and its slots are those of the class.
EmbeddedIn(b, k) ==
  /\ b \in Declarations
  /\ \E n \in 0..(Rank(k) - 1) : UpFrom(Bases, k, n) = b
  /\ \A m \in Names : SlotOf(b, m) # 0 => SlotOf(k, m) = SlotOf(b, m)

LEMMA ChainsAreEmbedded ==
  ASSUME IInv, DispatchInv, pass = "calls", NEW k \in Declarations, NEW b \in Range(chains[k])
  PROVE  EmbeddedIn(b, k)
<1> DEFINE M == MaxClasses + 1
           S == {x \in Declarations : \A y \in Range(chains[x]) : EmbeddedIn(y, x)}
<1>1. RelationsBuilt /\ cycles = 0 /\ M \in Nat /\ Bases \in [1..M -> 0..M]
  BY CallsAreLast, BasesType, RelationsAssumption DEF IInv
<1>2. /\ \A x \in Declarations : Rank(x) \in Nat \ {0} /\ x \in 1..M /\ Bases[x] = BaseClass(x)
      /\ \A x \in Declarations :
           BaseClass(x) # 0 => BaseClass(x) \in Declarations /\ Rank(BaseClass(x)) < Rank(x)
  BY SMTT(30), <1>1, RankFacts, BasesType, DeclarationsAreSlots DEF IInv, Slots
<1>3. ASSUME NEW x \in Declarations, BaseClass(x) # 0 => BaseClass(x) \in S,
             NEW y \in Range(chains[x])
      PROVE  EmbeddedIn(y, x)
  <2>1. CASE y = x
    <3>1. UpFrom(Bases, x, 0) = x
      <4>1. x \in 0..M
        BY <1>2
      <4> HIDE DEF M
      <4>2. QED BY <1>1, <4>1, UpByOne
    <3>2. 0 \in 0..(Rank(x) - 1)
      BY <1>2
    <3>3. QED BY <2>1, <3>1, <3>2 DEF EmbeddedIn
  <2>2. CASE y # x
    <3> DEFINE z == BaseClass(x)
    <3>1. z # 0 /\ y \in Range(chains[z])
      BY <1>1, <2>2, ChainByOne
    <3>2. z \in Declarations /\ Rank(z) < Rank(x) /\ EmbeddedIn(y, z) /\ Bases[x] = z
      BY <1>2, <1>3, <3>1
    <3>3. PICK n \in 0..(Rank(z) - 1) : UpFrom(Bases, z, n) = y
      BY <3>2 DEF EmbeddedIn
    <3>4. n + 1 \in 0..(Rank(x) - 1) /\ n \in Nat
      BY <1>2, <3>2, <3>3
    <3>5. UpFrom(Bases, x, n + 1) = y
      <4>1. x \in 1..M
        BY <1>2
      <4> HIDE DEF M, z
      <4>2. UpFrom(Bases, x, n + 1) = UpFrom(Bases, Bases[x], n)
        BY <1>1, <3>4, <4>1, UpFromBase
      <4>3. QED BY <3>2, <3>3, <4>2
    <3>6. ASSUME NEW m \in Names
          PROVE  SlotOf(z, m) # 0 => SlotOf(x, m) = SlotOf(z, m)
      <4>1. Rank(x) \in 1..laid /\ order[Rank(x)] = x
        BY <1>1, RankFacts DEF DispatchInv, CallsInv
      <4>2. ExtendsLayout(x, z)
        BY <3>1, <4>1 DEF IInv, LayoutInv, SlotsStable
      <4>3. QED BY <4>2 DEF ExtendsLayout
    <3>7. \A m \in Names : SlotOf(y, m) # 0 => SlotOf(x, m) = SlotOf(y, m)
      BY <3>2, <3>6 DEF EmbeddedIn
    <3>8. QED BY <3>2, <3>4, <3>5, <3>7 DEF EmbeddedIn
  <2>3. QED BY <2>1, <2>2
<1>4. Declarations \subseteq S
  <2>1. \A x \in Declarations : (BaseClass(x) # 0 => BaseClass(x) \in S) => x \in S
    BY <1>3
  <2> HIDE DEF S
  <2>2. QED BY <1>1, <2>1, InductionOverBases
<1>5. QED BY <1>4

\* The nearest class upwards that declares a method, n steps up.
NearestAfter(k, m, owner, n) ==
  /\ n \in 0..(Rank(k) - 1)
  /\ UpFrom(Bases, k, n) = owner /\ owner \in Declarations /\ m \in MethodNames(owner)
  /\ \A i \in 0..(n - 1) : /\ UpFrom(Bases, k, i) \in Declarations
                           /\ m \notin MethodNames(UpFrom(Bases, k, i))

\* The method in the slot of a class is that of the nearest class that declares it.
SlotHasNearest(k, m) ==
  SlotOf(k, m) # 0 =>
    \E owner, n : /\ NearestAfter(k, m, owner, n)
                  /\ info[k].vtable_methods[SlotOf(k, m)] = [class |-> owner, name |-> m]

LEMMA SlotsHaveNearest ==
  ASSUME IInv, DispatchInv, pass = "calls", NEW k \in Declarations, NEW m \in Names
  PROVE  SlotHasNearest(k, m)
<1> DEFINE M == MaxClasses + 1
           S == {x \in Declarations : SlotHasNearest(x, m)}
<1>1. RelationsBuilt /\ cycles = 0 /\ M \in Nat /\ Bases \in [1..M -> 0..M]
  BY CallsAreLast, BasesType, RelationsAssumption DEF IInv
<1>2. /\ \A x \in Declarations : Rank(x) \in Nat \ {0} /\ x \in 1..M /\ Bases[x] = BaseClass(x)
      /\ \A x \in Declarations :
           BaseClass(x) # 0 => BaseClass(x) \in Declarations /\ Rank(BaseClass(x)) < Rank(x)
  BY SMTT(30), <1>1, RankFacts, BasesType, DeclarationsAreSlots DEF IInv, Slots
<1>3. ASSUME NEW x \in Declarations, BaseClass(x) # 0 => BaseClass(x) \in S, SlotOf(x, m) # 0
      PROVE  \E owner, n : /\ NearestAfter(x, m, owner, n)
                           /\ info[x].vtable_methods[SlotOf(x, m)] = [class |-> owner, name |-> m]
  <2>1. UpFrom(Bases, x, 0) = x
    <3>1. x \in 0..M
      BY <1>2
    <3> HIDE DEF M
    <3>2. QED BY <1>1, <3>1, UpByOne
  <2>2. CASE m \in MethodNames(x)
    <3>1. HasOwn(x, m)
      BY <2>2, TablesComplete
    <3>2. NearestAfter(x, m, x, 0)
      BY <1>2, <2>1, <2>2 DEF NearestAfter
    <3>3. QED BY <3>1, <3>2 DEF HasOwn
  <2>3. CASE m \notin MethodNames(x)
    <3> DEFINE z == BaseClass(x)
    <3>1. HasInherited(x, m)
      BY <2>3, TablesComplete
    <3>2. /\ z # 0 /\ SlotOf(z, m) = SlotOf(x, m)
          /\ info[x].vtable_methods[SlotOf(x, m)] = info[z].vtable_methods[SlotOf(x, m)]
      BY <1>3, <3>1 DEF HasInherited, SameEntry
    <3>3. z \in Declarations /\ Rank(z) < Rank(x) /\ SlotHasNearest(z, m) /\ Bases[x] = z
      BY <1>2, <1>3, <3>2
    <3>4. PICK owner, n : /\ NearestAfter(z, m, owner, n)
                          /\ info[z].vtable_methods[SlotOf(z, m)] = [class |-> owner, name |-> m]
      BY <1>3, <3>2, <3>3 DEF SlotHasNearest
    <3>5. /\ n \in 0..(Rank(z) - 1) /\ n \in Nat /\ n + 1 \in 0..(Rank(x) - 1)
          /\ UpFrom(Bases, z, n) = owner /\ owner \in Declarations /\ m \in MethodNames(owner)
          /\ \A i \in 0..(n - 1) : /\ UpFrom(Bases, z, i) \in Declarations
                                   /\ m \notin MethodNames(UpFrom(Bases, z, i))
      BY <1>2, <3>3, <3>4 DEF NearestAfter
    <3>6. \A i \in Nat : UpFrom(Bases, x, i + 1) = UpFrom(Bases, z, i)
      <4>1. x \in 1..M
        BY <1>2
      <4> HIDE DEF M, z
      <4>2. \A i \in Nat : UpFrom(Bases, x, i + 1) = UpFrom(Bases, Bases[x], i)
        BY <1>1, <4>1, UpFromBase
      <4>3. QED BY <3>3, <4>2
    <3>7. ASSUME NEW i \in 0..((n + 1) - 1)
          PROVE  /\ UpFrom(Bases, x, i) \in Declarations
                 /\ m \notin MethodNames(UpFrom(Bases, x, i))
      <4>1. CASE i = 0
        BY <2>1, <2>3, <4>1
      <4>2. CASE i # 0
        <5>1. i - 1 \in 0..(n - 1) /\ i - 1 \in Nat /\ (i - 1) + 1 = i
          BY <3>5, <4>2
        <5>2. UpFrom(Bases, x, i) = UpFrom(Bases, z, i - 1)
          BY <3>6, <5>1
        <5>3. QED BY <3>5, <5>1, <5>2
      <4>3. QED BY <4>1, <4>2
    <3>8. NearestAfter(x, m, owner, n + 1)
      BY <3>5, <3>6, <3>7 DEF NearestAfter
    <3>9. QED BY <3>2, <3>4, <3>8
  <2>4. QED BY <2>2, <2>3
<1>4. Declarations \subseteq S
  <2>1. \A x \in Declarations : (BaseClass(x) # 0 => BaseClass(x) \in S) => x \in S
    BY <1>3 DEF SlotHasNearest
  <2> HIDE DEF S
  <2>2. QED BY <1>1, <2>1, InductionOverBases
<1>5. QED BY <1>4

\* A call made through the slot of a class runs the nearest override.
LEMMA CallStepsDown ==
  ASSUME IInv, DispatchInv, pass = "calls", NEW static \in Declarations, NEW m \in Names,
         NEW k \in Declarations, static \in Range(chains[k]), SlotOf(static, m) # 0,
         executed' = VirtualCall(static, k, m),
         UNCHANGED <<programVars, pass, buildVars, layoutVars>>
  PROVE  AbstractDispatch!Next
<1> DEFINE M == MaxClasses + 1
<1>1. /\ EmbeddedIn(static, k) /\ SlotOf(k, m) = SlotOf(static, m)
      /\ SlotHasNearest(k, m) /\ SlotHasNearest(static, m)
  BY ChainsAreEmbedded, SlotsHaveNearest DEF EmbeddedIn
<1>2. PICK owner, n : /\ NearestAfter(k, m, owner, n)
                      /\ info[k].vtable_methods[SlotOf(k, m)] = [class |-> owner, name |-> m]
  BY <1>1 DEF SlotHasNearest
<1>3. PICK statics, up : NearestAfter(static, m, statics, up)
  BY <1>1 DEF SlotHasNearest
<1>4. executed' = [object |-> k, method |-> [class |-> owner, name |-> m]]
  BY <1>1, <1>2 DEF VirtualCall, VTableOf
<1>5. /\ \A x \in Declarations : x \in 1..M /\ x # 0 /\ DeclaredNames[x] = MethodNames(x)
      /\ \A x \in Declarations : 0..(Rank(x) - 1) \subseteq 0..M
  <2>1. Len(order) <= MaxClasses /\ Len(order) \in Nat
    BY CallsAreLast, OrderIsShort, RankFacts
  <2>2. \A x \in Declarations : Rank(x) \in 1..Len(order)
    BY CallsAreLast, RankFacts
  <2>3. \A x \in Declarations : 0..(Rank(x) - 1) \subseteq 0..M
    BY <2>1, <2>2, RelationsAssumption
  <2>4. \A x \in Declarations : x \in Slots /\ x # 0
    BY DeclarationsAreSlots DEF IInv
  <2>5. \A x \in Declarations : DeclaredNames[x] = MethodNames(x)
    BY <2>4 DEF DeclaredNames
  <2>6. QED BY <2>3, <2>4, <2>5 DEF Slots
<1>6. AbstractDispatch!Derives(k, static)
  BY <1>1, <1>5, AbstractAbove DEF AbstractDispatch!Derives, EmbeddedIn
<1>7. ASSUME NEW x \in Declarations, NEW o, NEW s, NearestAfter(x, m, o, s)
      PROVE  o \in 1..M /\ AbstractDispatch!IsNearest(x, m, o) /\ m \in DeclaredNames[o]
  <2>1. /\ s \in 0..(Rank(x) - 1) /\ UpFrom(Bases, x, s) = o /\ o \in Declarations
        /\ m \in MethodNames(o)
        /\ \A i \in 0..(s - 1) : /\ UpFrom(Bases, x, i) \in Declarations
                                 /\ m \notin MethodNames(UpFrom(Bases, x, i))
    BY <1>7 DEF NearestAfter
  <2>2. s \in 0..M /\ o \in 1..M /\ o # 0 /\ m \in DeclaredNames[o]
    BY <1>5, <2>1
  <2>3. \A i \in 0..(s - 1) : m \notin DeclaredNames[UpFrom(Bases, x, i)]
    BY <1>5, <2>1
  <2> HIDE DEF M
  <2>4. AbstractDispatch!IsNearest(x, m, o)
    <3>1. AbstractDispatch!IsNearest(x, m, o) <=>
            \E i \in 0..(MaxClasses + 1) :
              /\ AbstractDispatch!Above(x, i) = o /\ o # 0 /\ m \in DeclaredNames[o]
              /\ \A j \in 0..(i - 1) : m \notin DeclaredNames[AbstractDispatch!Above(x, j)]
      BY DEF AbstractDispatch!IsNearest, DeclaredNames
    <3>2. QED BY <2>1, <2>2, <2>3, <3>1, AbstractAbove DEF M
  <2>5. QED BY <2>2, <2>4
<1>8. AbstractDispatch!Understands(static, m)
  <2>1. statics \in 1..M /\ AbstractDispatch!IsNearest(static, m, statics)
    BY <1>3, <1>7
  <2>2. QED BY <2>1 DEF AbstractDispatch!Understands
<1>9. Bases' = Bases /\ DeclaredNames' = DeclaredNames
  <2>1. UNCHANGED <<classType, declared, methods>>
    BY DEF programVars, classVars
  <2>2. /\ Declarations' = Declarations /\ \A x : BaseClass(x)' = BaseClass(x)
        /\ \A x : MethodNames(x)' = MethodNames(x)
    BY <2>1 DEF Declarations, BaseClass, MethodNames
  <2>3. QED BY <2>2 DEF Bases, DeclaredNames
<1>10. owner \in 1..M /\ AbstractDispatch!IsNearest(k, m, owner) /\ m \in DeclaredNames[owner]
  BY <1>2, <1>7
<1>11. AbstractDispatch!Call(static, k, m)
  BY <1>4, <1>6, <1>8, <1>9, <1>10 DEF AbstractDispatch!Call, Bases, DeclaredNames
<1>12. m \in UNION {DeclaredNames[c] : c \in 1..M}
  BY <1>10
<1>13. static \in 1..M /\ k \in 1..M
  BY <1>5
<1>14. QED BY <1>11, <1>12, <1>13 DEF AbstractDispatch!Next, DeclaredNames

LEMMA DispatchStep ==
  IInv /\ DispatchInv /\ [Next]_vars => [AbstractDispatch!Next]_(AbstractDispatch!vars)
<1> SUFFICES ASSUME IInv, DispatchInv, [Next]_vars
             PROVE  AbstractDispatch!Next \/ UNCHANGED AbstractDispatch!vars
  OBVIOUS
<1>1. ASSUME pass \notin {"calls", "no slot"}, executed' = executed
      PROVE  AbstractDispatch!Next
  <2>1. executed = NoCall /\ executed' = NoCall
    BY <1>1 DEF DispatchInv, CallsInv
  <2>2. QED BY <2>1 DEF AbstractDispatch!Next, AbstractDispatch!Declare
<1>2. ASSUME UNCHANGED <<programVars, executed>>
      PROVE  UNCHANGED AbstractDispatch!vars
  <2>1. UNCHANGED <<classType, declared, methods>>
    BY <1>2 DEF programVars, classVars
  <2>2. /\ Declarations' = Declarations /\ \A x : BaseClass(x)' = BaseClass(x)
        /\ \A x : MethodNames(x)' = MethodNames(x)
    BY <2>1 DEF Declarations, BaseClass, MethodNames
  <2>3. Bases' = Bases /\ DeclaredNames' = DeclaredNames
    BY <2>2 DEF Bases, DeclaredNames
  <2>4. QED BY <1>2, <2>3 DEF AbstractDispatch!vars, Bases, DeclaredNames
<1>3. CASE RelationsNext /\ UNCHANGED <<layoutVars, executed>>
  <2>1. pass \in {"parse", "relations"}
    BY <1>3 DEF RelationsNext, OpenClass, MayAdd, AddField, AddMethod, CloseClass,
                EndProgram, CallForNext, CallForBase, FinishClass, EndRelations
  <2>2. QED BY <1>1, <1>3, <2>1
<1>4. ASSUME BeginClass \/ NewSlot \/ OverrideSlot \/ AssertSameType \/ EndLayout
      PROVE  AbstractDispatch!Next
  <2>1. pass = "layout" /\ executed' = executed
    BY <1>4 DEF BeginClass, NewSlot, OverrideSlot, AssertSameType, EndLayout
  <2>2. QED BY <1>1, <2>1
<1>5. ASSUME NEW c \in Classes, NEW n \in Names, MethodCall(c, n)
      PROVE  AbstractDispatch!Next
  <2> DEFINE s == classType[c].decl
  <2>1. /\ pass = "calls" /\ s # 0 /\ LookedUp(c, n).kind = "Method"
        /\ UNCHANGED <<programVars, pass, buildVars, layoutVars>>
    BY <1>5 DEF MethodCall
  <2>2. PICK k \in Assignable(c) : executed' = VirtualCall(s, k, n)
    BY <1>5 DEF MethodCall
  <2>3. s \in Declarations /\ s \in Objects /\ declared[s].name = c
    BY <2>1, TypeFacts DEF Objects
  <2>4. SlotOf(s, n) # 0
    BY <2>1, <2>3, LookupAgrees
  <2>5. k \in Objects /\ k \in Declarations /\ IsDerivedClassOf(declared[k].name, c)
    BY DEF Assignable, Objects
  <2>6. s \in Range(chains[k])
    BY <2>1, <2>3, <2>5, CallsAreLast, EmbeddedBases
  <2> HIDE DEF s
  <2>7. QED BY <2>1, <2>2, <2>3, <2>4, <2>5, <2>6, CallStepsDown
<1>6. ASSUME NEW k \in Slots, NEW n \in Names, ImplicitCall(k, n)
      PROVE  AbstractDispatch!Next
  <2>1. /\ pass = "calls" /\ k \in Declarations /\ SlotOf(k, n) # 0
        /\ UNCHANGED <<programVars, pass, buildVars, layoutVars>>
    BY <1>6 DEF ImplicitCall
  <2>2. PICK object \in Objects :
          k \in Range(chains[object]) /\ executed' = VirtualCall(k, object, n)
    BY <1>6 DEF ImplicitCall
  <2>3. object \in Declarations
    BY DEF Objects
  <2>4. QED BY <2>1, <2>2, <2>3, CallStepsDown
<1>7. ASSUME NEW k \in Slots, NEW n \in Names, AssertSlot(k, n)
      PROVE  UNCHANGED AbstractDispatch!vars
  BY <1>2, <1>7 DEF AssertSlot
<1>8. CASE UNCHANGED vars
  BY <1>2, <1>8 DEF vars
<1>9. QED BY <1>3, <1>4, <1>5, <1>6, <1>7, <1>8 DEF Next, Ended

\* The v-tables, with the slots the calls are compiled to, implement dynamic dispatch:
\* a call runs the nearest declaration of the method, from the class of the object up.
THEOREM VTablesDispatch == Spec => CallsDispatch
<1>1. Init => AbstractDispatch!Init
  BY DEF Init, AbstractDispatch!Init
<1>2. QED BY <1>1, DispatchStep, Invariant, DispatchInvariant, PTL
          DEF Spec, CallsDispatch, AbstractDispatch!Spec
=============================================================================
