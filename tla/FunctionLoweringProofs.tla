------------------------ MODULE FunctionLoweringProofs ------------------------
(***************************************************************************)
(* A body of any number of statements and operands is lowered to a         *)
(* function that VerifyModule accepts, and that does in every run what the *)
(* body does in it, in the same order.                                     *)
(***************************************************************************)
EXTENDS FunctionLowering, CommonLemmas

-----------------------------------------------------------------------------
(* Code of one block *)

IsCode(code) == \E S : code \in Seq(S)
IsModule(bs) == \E S : bs \in Seq([code : Seq(S), placed : BOOLEAN])

Ends(code) == code # <<>> /\ IsTerminator(Last(code))
Targets(ins) == {ins.to[i] : i \in DOMAIN ins.to}
To(code) == IF Ends(code) THEN Targets(Last(code)) ELSE {}
HasPhi(code) == code # <<>> /\ code[1].op = "phi"
Returns(ins, valued) == ins.op = "ret" => (ins.valued <=> valued)
Fits(code, i, valued) ==
  /\ IsTerminator(code[i]) => i = Len(code)
  /\ code[i].op = "phi" => i = 1
  /\ Returns(code[i], valued)
WellFormed(code, valued) == \A i \in 1..Len(code) : Fits(code, i, valued)

LEMMA EmptyCode ==
  ASSUME NEW d
  PROVE  IsCode(<<>>) /\ WellFormed(<<>>, d) /\ ~Ends(<<>>) /\ ~HasPhi(<<>>) /\ To(<<>>) = {}
<1>1. <<>> \in Seq({}) /\ Len(<<>>) = 0
  OBVIOUS
<1>2. QED BY <1>1 DEF IsCode, WellFormed, Ends, HasPhi, To

LEMMA Appended ==
  ASSUME NEW d, NEW code, IsCode(code), WellFormed(code, d), ~Ends(code), NEW ins,
         ins.op = "phi" => code = <<>>,
         Returns(ins, d)
  PROVE  LET new == Append(code, ins)
         IN  /\ IsCode(new) /\ WellFormed(new, d) /\ new # <<>>
             /\ Ends(new) <=> IsTerminator(ins)
             /\ IsTerminator(ins) => To(new) = Targets(ins)
             /\ ~IsTerminator(ins) => To(new) = {}
             /\ HasPhi(new) <=> HasPhi(code) \/ ins.op = "phi"
             /\ HasPhi(code) => new[1] = code[1]
             /\ ins.op = "phi" => new[1] = ins
<1> DEFINE new == Append(code, ins)
<1>1. PICK S : code \in Seq(S)
  BY DEF IsCode
<1> DEFINE T == S \cup {ins}
<1>2. code \in Seq(T) /\ ins \in T
  BY <1>1
<1>3. /\ new \in Seq(T) /\ Len(new) = Len(code) + 1 /\ Len(code) \in Nat
      /\ \A i \in 1..Len(code) : new[i] = code[i]
      /\ new[Len(code) + 1] = ins
  BY <1>2, AppendType, LenProperties
<1>4. new # <<>> /\ Last(new) = ins /\ IsCode(new)
  BY <1>3 DEF Last, IsCode
<1>5. WellFormed(new, d)
  <2> SUFFICES ASSUME NEW i \in 1..Len(new) PROVE Fits(new, i, d)
    BY DEF WellFormed
  <2>1. CASE i = Len(new)
    <3>1. new[i] = ins
      BY <1>3, <2>1
    <3>2. ins.op = "phi" => i = 1
      BY <1>3, <2>1
    <3>3. QED BY <2>1, <3>1, <3>2 DEF Fits
  <2>2. CASE i # Len(new)
    <3>1. i \in 1..Len(code) /\ new[i] = code[i]
      BY <1>3, <2>2
    <3>2. Fits(code, i, d) /\ code # <<>>
      BY <3>1 DEF WellFormed
    <3>3. ~IsTerminator(code[i])
      BY <1>3, <3>1, <3>2 DEF Fits, Ends, Last
    <3>4. QED BY <3>1, <3>2, <3>3 DEF Fits
  <2>3. QED BY <2>1, <2>2
<1>6. /\ HasPhi(code) => new[1] = code[1] /\ HasPhi(new)
      /\ ins.op = "phi" => new[1] = ins
      /\ HasPhi(new) => HasPhi(code) \/ ins.op = "phi"
  <2>1. CASE code = <<>>
    BY <1>3, <1>4, <2>1 DEF HasPhi
  <2>2. CASE code # <<>>
    <3>1. 1 \in 1..Len(code)
      BY <1>1, <1>3, <2>2
    <3>2. QED BY <1>3, <1>4, <2>2, <3>1 DEF HasPhi
  <2>3. QED BY <2>1, <2>2
<1>7. ins.op = "phi" => HasPhi(new)
  BY <1>4, <1>6 DEF HasPhi
<1>8. (Ends(new) <=> IsTerminator(ins))
  BY <1>4 DEF Ends
<1> HIDE DEF new
<1>9. /\ IsTerminator(ins) => To(new) = Targets(ins)
      /\ ~IsTerminator(ins) => To(new) = {}
  BY <1>4, <1>8 DEF To
<1>10. QED BY <1>4, <1>5, <1>6, <1>7, <1>8, <1>9 DEF new

-----------------------------------------------------------------------------
(* Blocks *)

LEMMA Elements ==
  ASSUME NEW S, NEW seq \in Seq(S)
  PROVE  /\ Len(seq) \in Nat /\ DOMAIN seq = 1..Len(seq)
         /\ \A i \in DOMAIN seq : seq[i] \in S
  BY LenProperties, ElementOfSeq

LEMMA Updated ==
  ASSUME NEW S, NEW seq \in Seq(S), NEW n \in DOMAIN seq, NEW e \in S
  PROVE  LET new == [seq EXCEPT ![n] = e]
         IN  /\ new \in Seq(S) /\ Len(new) = Len(seq) /\ DOMAIN new = DOMAIN seq
             /\ new[n] = e /\ \A i \in DOMAIN seq : i # n => new[i] = seq[i]
  BY ExceptSeq, Elements

LEMMA ABlock ==
  ASSUME NEW C, NEW block \in [code : C, placed : BOOLEAN], NEW code
  PROVE  /\ block.code \in C /\ block.placed \in BOOLEAN
         /\ LET new == [block EXCEPT !.code = code]
            IN  /\ new.code = code /\ new.placed = block.placed
                /\ code \in C => new \in [code : C, placed : BOOLEAN]
         /\ LET new == [block EXCEPT !.placed = TRUE]
            IN  /\ new.code = block.code /\ new.placed = TRUE
                /\ new \in [code : C, placed : BOOLEAN]
  OBVIOUS

LEMMA WiderModule ==
  ASSUME NEW S, NEW T, S \subseteq T, NEW bs \in Seq([code : Seq(S), placed : BOOLEAN])
  PROVE  bs \in Seq([code : Seq(T), placed : BOOLEAN])
<1> DEFINE R == [code : Seq(S), placed : BOOLEAN]
           Q == [code : Seq(T), placed : BOOLEAN]
<1>1. Seq(S) \subseteq Seq(T)
  OBVIOUS
<1>2. R \subseteq Q
  BY <1>1
<1>3. bs \in Seq(R)
  OBVIOUS
<1> HIDE DEF R, Q
<1>4. bs \in Seq(Q)
  BY <1>2, <1>3
<1>5. QED BY <1>4 DEF Q

LEMMA ModuleFacts ==
  ASSUME NEW bs, IsModule(bs)
  PROVE  /\ Len(bs) \in Nat /\ DOMAIN bs = 1..Len(bs)
         /\ \A b \in DOMAIN bs : IsCode(bs[b].code) /\ bs[b].placed \in BOOLEAN
<1>1. PICK S : bs \in Seq([code : Seq(S), placed : BOOLEAN])
  BY DEF IsModule
<1> DEFINE R == [code : Seq(S), placed : BOOLEAN]
<1>2. \A b \in R : b.code \in Seq(S) /\ b.placed \in BOOLEAN
  OBVIOUS
<1> HIDE DEF R
<1>3. Len(bs) \in Nat /\ DOMAIN bs = 1..Len(bs) /\ \A b \in DOMAIN bs : bs[b] \in R
  BY <1>1, Elements DEF R
<1>4. QED BY <1>2, <1>3 DEF IsCode

LEMMA Emitted ==
  ASSUME NEW bs, IsModule(bs), NEW b \in DOMAIN bs, NEW ins
  PROVE  LET new == Emit(bs, b, ins)
         IN  /\ IsModule(new) /\ DOMAIN new = DOMAIN bs /\ Len(new) = Len(bs)
             /\ \A c \in DOMAIN bs : c # b => new[c] = bs[c]
             /\ new[b].code = Append(bs[b].code, ins) /\ new[b].placed = bs[b].placed
<1>1. PICK S : bs \in Seq([code : Seq(S), placed : BOOLEAN])
  BY DEF IsModule
<1> DEFINE T == S \cup {ins}
           C == Seq(T)
           R == [code : C, placed : BOOLEAN]
           block == [bs[b] EXCEPT !.code = Append(bs[b].code, ins)]
<1>2. bs \in Seq(R)
  BY <1>1, WiderModule
<1> HIDE DEF R
<1>3. bs[b] \in R
  BY <1>2, Elements
<1>4. bs[b].code \in Seq(T) /\ ins \in T
  BY <1>3 DEF R
<1>5. Append(bs[b].code, ins) \in C
  BY <1>4, AppendType
<1>6. block \in R /\ block.code = Append(bs[b].code, ins) /\ block.placed = bs[b].placed
  <2> HIDE DEF C
  <2>1. QED BY <1>3, <1>5, ABlock DEF R
<1>7. Emit(bs, b, ins) = [bs EXCEPT ![b] = block]
  BY DEF Emit
<1> HIDE DEF block
<1>8. /\ Emit(bs, b, ins) \in Seq(R) /\ DOMAIN Emit(bs, b, ins) = DOMAIN bs
      /\ Len(Emit(bs, b, ins)) = Len(bs) /\ Emit(bs, b, ins)[b] = block
      /\ \A c \in DOMAIN bs : c # b => Emit(bs, b, ins)[c] = bs[c]
  BY <1>2, <1>6, <1>7, Updated
<1>9. IsModule(Emit(bs, b, ins))
  BY <1>8 DEF IsModule, R
<1>10. QED BY <1>6, <1>8, <1>9

\* Block b of bs is put into the function in new.
IsPlacing(bs, b, new) ==
  /\ DOMAIN new = DOMAIN bs /\ Len(new) = Len(bs)
  /\ \A c \in DOMAIN bs : c # b => new[c] = bs[c]
  /\ new[b].code = bs[b].code /\ new[b].placed = TRUE

LEMMA PlacedBlock ==
  ASSUME NEW bs, IsModule(bs), NEW b \in DOMAIN bs, NEW new, new = Place(bs, b)
  PROVE  IsModule(new) /\ IsPlacing(bs, b, new)
<1>1. PICK S : bs \in Seq([code : Seq(S), placed : BOOLEAN])
  BY DEF IsModule
<1> DEFINE C == Seq(S)
           R == [code : C, placed : BOOLEAN]
           block == [bs[b] EXCEPT !.placed = TRUE]
<1>2. bs \in Seq(R)
  BY <1>1
<1> HIDE DEF R
<1>3. bs[b] \in R
  BY <1>2, Elements
<1>4. block \in R /\ block.code = bs[b].code /\ block.placed = TRUE
  <2> HIDE DEF C
  <2>1. QED BY <1>3, ABlock DEF R
<1>5. Place(bs, b) = [bs EXCEPT ![b] = block]
  BY DEF Place
<1> HIDE DEF block
<1>6. /\ Place(bs, b) \in Seq(R) /\ DOMAIN Place(bs, b) = DOMAIN bs
      /\ Len(Place(bs, b)) = Len(bs) /\ Place(bs, b)[b] = block
      /\ \A c \in DOMAIN bs : c # b => Place(bs, b)[c] = bs[c]
  BY <1>2, <1>4, <1>5, Updated
<1>7. IsModule(Place(bs, b))
  BY <1>6 DEF IsModule, R
<1>8. QED BY <1>4, <1>6, <1>7 DEF IsPlacing

\* Three blocks are made: a empty, e with code, and m outside the function.
IsExtension(bs, code, a, e, m, new) ==
  /\ DOMAIN new = DOMAIN bs \cup {a, e, m}
  /\ a \notin DOMAIN bs /\ e \notin DOMAIN bs /\ m \notin DOMAIN bs
  /\ a # e /\ a # m /\ e # m
  /\ \A b \in DOMAIN bs : new[b] = bs[b]
  /\ new[a].code = <<>> /\ new[a].placed = TRUE
  /\ new[e].code = code /\ new[e].placed = TRUE
  /\ new[m].code = <<>> /\ new[m].placed = FALSE

\* Three elements more.
IsLonger(seq, x, y, z, new) == new = seq \o <<x, y, z>>

LEMMA ThreeMore ==
  ASSUME NEW S, NEW seq \in Seq(S), NEW x \in S, NEW y \in S, NEW z \in S,
         NEW new, IsLonger(seq, x, y, z, new)
  PROVE  /\ new \in Seq(S) /\ DOMAIN new = 1..(Len(seq) + 3)
         /\ \A i \in 1..Len(seq) : new[i] = seq[i]
         /\ new[Len(seq) + 1] = x /\ new[Len(seq) + 2] = y /\ new[Len(seq) + 3] = z
<1>1. <<x, y, z>> \in Seq(S) /\ Len(<<x, y, z>>) = 3
  OBVIOUS
<1>2. /\ new \in Seq(S) /\ Len(new) = Len(seq) + 3 /\ Len(seq) \in Nat
      /\ \A b \in 1..Len(seq) : new[b] = seq[b]
      /\ new[Len(seq) + 1] = x /\ new[Len(seq) + 2] = y /\ new[Len(seq) + 3] = z
  BY <1>1 DEF IsLonger
<1>3. DOMAIN new = 1..(Len(seq) + 3)
  BY <1>2, Elements
<1>4. QED BY <1>2, <1>3

IsBlock(x, code, placed) == x = [code |-> code, placed |-> placed]

LEMMA ExtendedWith ==
  ASSUME NEW bs, IsModule(bs), NEW code, IsCode(code),
         NEW x, IsBlock(x, <<>>, TRUE), NEW y, IsBlock(y, code, TRUE),
         NEW z, IsBlock(z, <<>>, FALSE), NEW new, IsLonger(bs, x, y, z, new)
  PROVE  /\ IsModule(new)
         /\ IsExtension(bs, code, Len(bs) + 1, Len(bs) + 2, Len(bs) + 3, new)
<1>1. PICK S : bs \in Seq([code : Seq(S), placed : BOOLEAN])
  BY DEF IsModule
<1>2. PICK U : code \in Seq(U)
  BY DEF IsCode
<1> DEFINE T == S \cup U
           C == Seq(T)
           R == [code : C, placed : BOOLEAN]
<1>3. bs \in Seq(R)
  BY <1>1, WiderModule
<1>4. code \in C /\ <<>> \in C
  BY <1>2
<1> HIDE DEF C
<1>5. x \in R /\ y \in R /\ z \in R
  BY <1>4 DEF IsBlock
<1>6. /\ x.code = <<>> /\ x.placed = TRUE /\ y.code = code /\ y.placed = TRUE
      /\ z.code = <<>> /\ z.placed = FALSE
  BY DEF IsBlock
<1> HIDE DEF R
<1>7. /\ new \in Seq(R) /\ DOMAIN new = 1..(Len(bs) + 3)
      /\ \A b \in 1..Len(bs) : new[b] = bs[b]
      /\ new[Len(bs) + 1] = x /\ new[Len(bs) + 2] = y /\ new[Len(bs) + 3] = z
  BY <1>3, <1>5, ThreeMore
<1>8. DOMAIN bs = 1..Len(bs) /\ Len(bs) \in Nat
  BY <1>3, Elements
<1>9. 1..(Len(bs) + 3) = 1..Len(bs) \cup {Len(bs) + 1, Len(bs) + 2, Len(bs) + 3}
  BY <1>8
<1>10. /\ Len(bs) + 1 \notin 1..Len(bs) /\ Len(bs) + 2 \notin 1..Len(bs)
       /\ Len(bs) + 3 \notin 1..Len(bs)
       /\ Len(bs) + 1 # Len(bs) + 2 /\ Len(bs) + 1 # Len(bs) + 3 /\ Len(bs) + 2 # Len(bs) + 3
  BY <1>8
<1>11. IsModule(new)
  BY <1>7 DEF IsModule, R, C
<1>12. QED BY <1>6, <1>7, <1>8, <1>9, <1>10, <1>11 DEF IsExtension

LEMMA Extended ==
  ASSUME NEW bs, IsModule(bs), NEW code, IsCode(code), NEW new,
         new = bs \o <<NewBlock(TRUE), [code |-> code, placed |-> TRUE], NewBlock(FALSE)>>
  PROVE  /\ IsModule(new)
         /\ IsExtension(bs, code, Len(bs) + 1, Len(bs) + 2, Len(bs) + 3, new)
  BY ExtendedWith DEF IsLonger, IsBlock, NewBlock

-----------------------------------------------------------------------------
(* Calls *)

IsStack(cs) == \E S : cs \in Seq(S)

LEMMA StackFacts ==
  ASSUME NEW cs, IsStack(cs)
  PROVE  /\ Len(cs) \in Nat /\ DOMAIN cs = 1..Len(cs) /\ (cs = <<>> <=> Len(cs) = 0)
         /\ cs # <<>> => Last(cs) = cs[Len(cs)] /\ Len(cs) \in DOMAIN cs
  BY EmptySeq DEF IsStack, Last

LEMMA Pushed ==
  ASSUME NEW cs, IsStack(cs), NEW f
  PROVE  LET new == Append(cs, f)
         IN  /\ IsStack(new) /\ Len(new) = Len(cs) + 1 /\ DOMAIN new = 1..(Len(cs) + 1)
             /\ \A i \in DOMAIN cs : new[i] = cs[i]
             /\ new[Len(cs) + 1] = f
<1>1. PICK S : cs \in Seq(S)
  BY DEF IsStack
<1> DEFINE T == S \cup {f}
<1>2. cs \in Seq(T) /\ f \in T
  BY <1>1
<1> HIDE DEF T
<1>3. /\ Append(cs, f) \in Seq(T) /\ Len(Append(cs, f)) = Len(cs) + 1
      /\ Append(cs, f)[Len(cs) + 1] = f /\ \A i \in 1..Len(cs) : Append(cs, f)[i] = cs[i]
  BY <1>2, AppendType
<1>4. DOMAIN Append(cs, f) = 1..(Len(cs) + 1) /\ DOMAIN cs = 1..Len(cs)
  BY <1>2, <1>3, Elements
<1>5. QED BY <1>3, <1>4 DEF IsStack

LEMMA Popped ==
  ASSUME NEW cs, IsStack(cs), cs # <<>>
  PROVE  /\ IsStack(Front(cs)) /\ Len(Front(cs)) = Len(cs) - 1
         /\ DOMAIN Front(cs) = 1..(Len(cs) - 1)
         /\ \A i \in DOMAIN Front(cs) : Front(cs)[i] = cs[i]
<1>1. PICK S : cs \in Seq(S)
  BY DEF IsStack
<1>2. /\ Front(cs) \in Seq(S) /\ Len(Front(cs)) = Len(cs) - 1
      /\ \A i \in 1..(Len(cs) - 1) : Front(cs)[i] = cs[i]
  BY <1>1, FrontProperties
<1>3. DOMAIN Front(cs) = 1..(Len(cs) - 1)
  BY <1>2, Elements
<1>4. QED BY <1>2, <1>3 DEF IsStack

LEMMA Replaced ==
  ASSUME NEW cs, IsStack(cs), cs # <<>>, NEW f
  PROVE  LET new == Append(Front(cs), f)
         IN  /\ IsStack(new) /\ Len(new) = Len(cs) /\ DOMAIN new = DOMAIN cs
             /\ \A i \in DOMAIN cs : i # Len(cs) => new[i] = cs[i]
             /\ new[Len(cs)] = f
<1>1. /\ IsStack(Front(cs)) /\ Len(Front(cs)) = Len(cs) - 1 /\ Len(cs) \in Nat
      /\ DOMAIN Front(cs) = 1..(Len(cs) - 1) /\ DOMAIN cs = 1..Len(cs)
      /\ \A i \in DOMAIN Front(cs) : Front(cs)[i] = cs[i]
  BY Popped, StackFacts
<1>2. QED BY <1>1, Pushed

\* What \o appends, one or two calls.
LEMMA Concatenated ==
  ASSUME NEW cs, IsStack(cs), NEW f, NEW g
  PROVE  cs \o <<f>> = Append(cs, f) /\ cs \o <<f, g>> = Append(Append(cs, f), g)
<1>1. PICK S : cs \in Seq(S)
  BY DEF IsStack
<1> DEFINE T == S \cup {f, g}
<1>2. cs \in Seq(T) /\ f \in T /\ g \in T
  BY <1>1
<1> HIDE DEF T
<1>3. QED BY <1>2
-----------------------------------------------------------------------------
(***************************************************************************)
(* The inductive invariant.  A call in progress holds the blocks it made   *)
(* and has yet to come back to: the false side of an if, the short way of  *)
(* an && or an ||, and the block they are merged in, which is put into the *)
(* function last.                                                          *)
(***************************************************************************)

HoldingFunctions ==
  {"LowerIf then", "LowerIf else", "LowerLogicalAnd rhs", "LowerLogicalOr rhs"}
Holders(cs) == {h \in DOMAIN cs : cs[h].function \in HoldingFunctions}

\* The block beside the merge block, which is in the function already.
Side(f) == IF f.function = "LowerIf then" THEN f.else ELSE f.short
Held(f) == IF f.function = "LowerIf else" THEN {f.merge} ELSE {f.merge, Side(f)}
\* The blocks of the function that f has yet to end.
Open(f) == IF f.function \in {"LowerIf then", "LowerLogicalAnd rhs"} THEN {Side(f)} ELSE {}
\* Block p may branch to f's merge block already.
Awaits(f, p) ==
  \/ f.function = "LowerIf else" /\ ~f.thenTerminated
  \/ f.function = "LowerLogicalOr rhs" /\ p = f.short

HolderInv(bs, f) ==
  /\ Held(f) \subseteq DOMAIN bs
  /\ bs[f.merge].code = <<>> /\ bs[f.merge].placed = FALSE
  /\ f.function # "LowerIf else" => Side(f) # f.merge /\ bs[Side(f)].placed = TRUE
  /\ f.function = "LowerIf else" => f.thenTerminated \in BOOLEAN
  /\ f.function \in {"LowerIf then", "LowerLogicalAnd rhs"} => bs[Side(f)].code = <<>>
  /\ f.function = "LowerLogicalOr rhs" => bs[Side(f)].code = <<Br(f.merge)>>

\* Blocks are well-formed, and those that are not in the function are empty.
CodeInv(bs, d) ==
  /\ IsModule(bs)
  /\ \A b \in DOMAIN bs :
       WellFormed(bs[b].code, d) /\ (bs[b].placed = FALSE => bs[b].code = <<>>)
\* A block without a terminator is the builder's, or one a call will come back to.
OpenInv(bs, at, cs) ==
  \A b \in DOMAIN bs : bs[b].placed = TRUE /\ ~Ends(bs[b].code) =>
    b = at \/ \E h \in Holders(cs) : b \in Open(cs[h])
\* A branch leads into the function, or to where a call will put a block.
BranchInv(bs, cs) ==
  \A p \in DOMAIN bs : \A t \in To(bs[p].code) :
    /\ t \in DOMAIN bs
    /\ bs[t].placed = TRUE \/ \E h \in Holders(cs) : cs[h].merge = t /\ Awaits(cs[h], p)
\* A phi has a value for each block that leads to its own.
PhiInv(bs) ==
  \A b \in DOMAIN bs : HasPhi(bs[b].code) =>
    DOMAIN bs[b].code[1].incoming = {p \in DOMAIN bs : b \in To(bs[p].code)}
\* Calls hold blocks of their own.
HoldersInv(bs, at, cs) ==
  /\ \A h \in Holders(cs) : HolderInv(bs, cs[h]) /\ at \notin Held(cs[h])
  /\ \A h, k \in Holders(cs) : h # k => Held(cs[h]) \cap Held(cs[k]) = {}

ModuleInv(bs, at, cs, d) ==
  /\ CodeInv(bs, d)
  /\ at \in DOMAIN bs /\ bs[at].placed = TRUE
  /\ OpenInv(bs, at, cs) /\ BranchInv(bs, cs) /\ PhiInv(bs) /\ HoldersInv(bs, at, cs)

\* Calls of expressions are on top of calls of statements, and an expression is lowered
\* only where the block has not ended.
StatementFunctions == {"LowerStatements", "LowerIf then", "LowerIf else"}
OnStatements == StatementFunctions \cup {"LowerIf", "LowerReturn", "StoreIntoPointer"}
StackInv(bs, at, cs) ==
  /\ IsStack(cs)
  /\ cs # <<>> => cs[1].function = "LowerStatements"
  /\ \A i \in DOMAIN cs : i > 1 /\ cs[i].function \in OnStatements =>
       cs[i - 1].function \in StatementFunctions
  /\ cs # <<>> /\ cs[Len(cs)].function \notin StatementFunctions => ~Ends(bs[at].code)
  /\ cs = <<>> => Ends(bs[at].code)

IInv == ModuleInv(blocks, insert, calls, declared) /\ StackInv(blocks, insert, calls)

-----------------------------------------------------------------------------
(* What keeps ModuleInv *)

\* Calls that hold nothing come and go.
LEMMA SameHolders ==
  ASSUME NEW bs, NEW at, NEW cs, NEW d, ModuleInv(bs, at, cs, d),
         NEW ds, Holders(ds) = Holders(cs), \A h \in Holders(cs) : ds[h] = cs[h]
  PROVE  ModuleInv(bs, at, ds, d)
<1>1. OpenInv(bs, at, ds)
  BY DEF ModuleInv, OpenInv
<1>2. BranchInv(bs, ds)
  BY DEF ModuleInv, BranchInv
<1>3. HoldersInv(bs, at, ds)
  BY DEF ModuleInv, HoldersInv
<1>4. QED BY <1>1, <1>2, <1>3 DEF ModuleInv

\* A call's blocks stay as they are.
KeepsHeld(bs, new, f) ==
  DOMAIN bs \subseteq DOMAIN new /\ \A b \in Held(f) : new[b] = bs[b]
LEMMA HolderStays ==
  ASSUME NEW bs, NEW new, NEW f, HolderInv(bs, f), f.function \in HoldingFunctions,
         KeepsHeld(bs, new, f)
  PROVE  HolderInv(new, f)
<1>1. f.merge \in Held(f) /\ (f.function # "LowerIf else" => Side(f) \in Held(f))
  BY DEF Held
<1>2. QED BY <1>1 DEF HolderInv, HoldingFunctions, KeepsHeld

\* Block b of bs gets one more instruction in new.
IsEmission(bs, b, ins, new) ==
  /\ DOMAIN new = DOMAIN bs /\ Len(new) = Len(bs)
  /\ new[b].placed = TRUE /\ To(bs[b].code) = {}
  /\ \A c \in DOMAIN bs : c # b => new[c] = bs[c]
  /\ Ends(new[b].code) <=> IsTerminator(ins)
  /\ IsTerminator(ins) => To(new[b].code) = Targets(ins)
  /\ ~IsTerminator(ins) => To(new[b].code) = {}
  /\ HasPhi(new[b].code) <=> HasPhi(bs[b].code) \/ ins.op = "phi"
  /\ HasPhi(bs[b].code) => new[b].code[1] = bs[b].code[1]
  /\ ins.op = "phi" => new[b].code[1] = ins

LEMMA EmittedCode ==
  ASSUME NEW bs, NEW d, CodeInv(bs, d), NEW b \in DOMAIN bs, bs[b].placed = TRUE,
         ~Ends(bs[b].code), NEW ins,
         ins.op = "phi" => bs[b].code = <<>>,
         Returns(ins, d),
         NEW new, new = Emit(bs, b, ins)
  PROVE  CodeInv(new, d) /\ IsEmission(bs, b, ins, new)
<1> DEFINE code == bs[b].code
<1>1. IsModule(bs) /\ IsCode(code) /\ WellFormed(code, d) /\ ~Ends(code)
  BY ModuleFacts DEF CodeInv
<1>2. ins.op = "phi" => code = <<>>
  OBVIOUS
<1>3. /\ IsModule(new) /\ DOMAIN new = DOMAIN bs /\ Len(new) = Len(bs)
      /\ \A c \in DOMAIN bs : c # b => new[c] = bs[c]
      /\ new[b].code = Append(code, ins) /\ new[b].placed = TRUE
  BY <1>1, Emitted
<1>4. To(bs[b].code) = {}
  BY DEF To
<1> HIDE DEF code
<1>5. LET after == Append(code, ins)
      IN  /\ WellFormed(after, d) /\ (Ends(after) <=> IsTerminator(ins))
          /\ IsTerminator(ins) => To(after) = Targets(ins)
          /\ ~IsTerminator(ins) => To(after) = {}
          /\ HasPhi(after) <=> HasPhi(code) \/ ins.op = "phi"
          /\ HasPhi(code) => after[1] = code[1]
          /\ ins.op = "phi" => after[1] = ins
  BY <1>1, <1>2, Appended
<1>6. CodeInv(new, d)
  <2>1. \A c \in DOMAIN bs :
          WellFormed(bs[c].code, d) /\ (bs[c].placed = FALSE => bs[c].code = <<>>)
    BY DEF CodeInv
  <2>2. ASSUME NEW c \in DOMAIN bs
        PROVE  WellFormed(new[c].code, d) /\ (new[c].placed = FALSE => new[c].code = <<>>)
    <3>1. CASE c = b
      BY <1>3, <1>5, <3>1
    <3>2. CASE c # b
      BY <1>3, <2>1, <3>2
    <3>3. QED BY <3>1, <3>2
  <2>3. QED BY <1>3, <2>2 DEF CodeInv
<1>7. /\ Ends(new[b].code) <=> IsTerminator(ins)
      /\ IsTerminator(ins) => To(new[b].code) = Targets(ins)
      /\ ~IsTerminator(ins) => To(new[b].code) = {}
      /\ HasPhi(new[b].code) <=> HasPhi(code) \/ ins.op = "phi"
      /\ HasPhi(code) => new[b].code[1] = code[1]
      /\ ins.op = "phi" => new[b].code[1] = ins
  BY <1>3, <1>5
<1>8. QED BY <1>3, <1>4, <1>6, <1>7 DEF code, IsEmission

\* An instruction that is neither a branch nor a phi.
LEMMA Straight ==
  ASSUME NEW bs, NEW at, NEW cs, NEW d, ModuleInv(bs, at, cs, d), ~Ends(bs[at].code),
         NEW ins, ins.op \in {"event", "ret"},
         Returns(ins, d), ins.op = "ret" => ins.to = <<>>,
         NEW new, new = Emit(bs, at, ins)
  PROVE  ModuleInv(new, at, cs, d) /\ (Ends(new[at].code) <=> ins.op = "ret")
<1>1. CodeInv(bs, d) /\ at \in DOMAIN bs /\ bs[at].placed = TRUE
  BY DEF ModuleInv
<1>2. /\ IsTerminator(ins) <=> ins.op = "ret"
      /\ ins.op # "phi"
  BY DEF IsTerminator
<1>3. ins.op = "ret" => Targets(ins) = {}
  <2>1. DOMAIN <<>> = {}
    OBVIOUS
  <2>2. QED BY <2>1 DEF Targets
<1>4. /\ CodeInv(new, d) /\ DOMAIN new = DOMAIN bs /\ new[at].placed = TRUE
      /\ \A c \in DOMAIN bs : c # at => new[c] = bs[c]
      /\ (Ends(new[at].code) <=> ins.op = "ret")
      /\ To(bs[at].code) = {} /\ To(new[at].code) = {}
      /\ HasPhi(new[at].code) => HasPhi(bs[at].code) /\ new[at].code[1] = bs[at].code[1]
  <2>1. CodeInv(new, d) /\ IsEmission(bs, at, ins, new)
    BY <1>1, <1>2, EmittedCode
  <2>2. QED BY <1>2, <1>3, <2>1 DEF IsEmission
<1>5. \A c \in DOMAIN bs : To(new[c].code) = To(bs[c].code) /\ new[c].placed = bs[c].placed
  BY <1>1, <1>4
<1>6. OpenInv(new, at, cs)
  BY <1>4, <1>5 DEF ModuleInv, OpenInv
<1>7. BranchInv(new, cs)
  BY <1>4, <1>5 DEF ModuleInv, BranchInv
<1>8. PhiInv(new)
  <2>1. \A b \in DOMAIN bs : HasPhi(new[b].code) =>
          HasPhi(bs[b].code) /\ new[b].code[1] = bs[b].code[1]
    BY <1>4
  <2>2. QED BY <1>4, <1>5, <2>1 DEF ModuleInv, PhiInv
<1>9. HoldersInv(new, at, cs)
  <2>1. \A h \in Holders(cs) : \A b \in Held(cs[h]) : b # at /\ b \in DOMAIN bs
    BY DEF ModuleInv, HoldersInv, HolderInv
  <2>2. \A h \in Holders(cs) : HolderInv(new, cs[h])
    <3>1. \A h \in Holders(cs) :
            /\ HolderInv(bs, cs[h]) /\ cs[h].function \in HoldingFunctions
            /\ KeepsHeld(bs, new, cs[h])
      BY <1>4, <2>1 DEF ModuleInv, HoldersInv, Holders, KeepsHeld
    <3>2. QED BY <3>1, HolderStays
  <2>3. QED BY <2>2 DEF ModuleInv, HoldersInv
<1>10. QED BY <1>1, <1>4, <1>6, <1>7, <1>8, <1>9 DEF ModuleInv

LEMMA Branches ==
  ASSUME NEW b
  PROVE  /\ IsTerminator(Br(b)) /\ Targets(Br(b)) = {b} /\ Br(b).op = "br"
         /\ \A d : Returns(Br(b), d)
<1>1. Br(b).op = "br" /\ Br(b).to = <<b>>
  BY DEF Br
<1>2. DOMAIN <<b>> = {1} /\ <<b>>[1] = b
  OBVIOUS
<1>3. QED BY <1>1, <1>2 DEF IsTerminator, Targets, Returns

\* What the top of the calls holds, in a module that satisfies the invariant.
LEMMA HolderFacts ==
  ASSUME NEW bs, NEW at, NEW cs, NEW d, ModuleInv(bs, at, cs, d), NEW h \in Holders(cs)
  PROVE  /\ CodeInv(bs, d) /\ at \in DOMAIN bs /\ bs[at].placed = TRUE
         /\ cs[h].function \in HoldingFunctions /\ HolderInv(bs, cs[h])
         /\ Held(cs[h]) \subseteq DOMAIN bs /\ at \notin Held(cs[h])
         /\ cs[h].merge \in Held(cs[h]) /\ Open(cs[h]) \subseteq Held(cs[h])
         /\ cs[h].function # "LowerIf else" => Side(cs[h]) \in Held(cs[h])
         /\ \A k \in Holders(cs) :
              k # h => Held(cs[k]) \cap Held(cs[h]) = {} /\ Open(cs[k]) \subseteq Held(cs[k])
  BY DEF ModuleInv, HoldersInv, HolderInv, Holders, Held, Open, HoldingFunctions

\* The end of a side of an if, which branches to m unless it has ended already.
IsBranch(bs, at, m, new) ==
  /\ DOMAIN new = DOMAIN bs /\ new[at].placed = TRUE
  /\ \A c \in DOMAIN bs : c # at => new[c] = bs[c]
  /\ Ends(new[at].code)
  /\ HasPhi(new[at].code) => HasPhi(bs[at].code) /\ new[at].code[1] = bs[at].code[1]
  /\ \/ Ends(bs[at].code) /\ To(new[at].code) = To(bs[at].code)
     \/ ~Ends(bs[at].code) /\ To(bs[at].code) = {} /\ To(new[at].code) = {m}

LEMMA BranchTaken ==
  ASSUME NEW bs, NEW d, CodeInv(bs, d), NEW at \in DOMAIN bs, bs[at].placed = TRUE,
         NEW m, NEW new, new = IF Ends(bs[at].code) THEN bs ELSE Emit(bs, at, Br(m))
  PROVE  CodeInv(new, d) /\ IsBranch(bs, at, m, new)
<1>1. CASE Ends(bs[at].code)
  BY <1>1 DEF IsBranch
<1>2. CASE ~Ends(bs[at].code)
  <2>1. new = Emit(bs, at, Br(m))
    BY <1>2
  <2>2. CodeInv(new, d) /\ IsEmission(bs, at, Br(m), new)
    BY <1>2, <2>1, EmittedCode, Branches
  <2>3. QED BY <1>2, <2>2, Branches DEF IsEmission, IsBranch
<1>3. QED BY <1>1, <1>2

\* Call h lowers the false side, the true one having ended or not.
BecomesElse(cs, ds, h, ended) ==
  /\ Holders(ds) = Holders(cs) /\ \A k \in Holders(cs) : k # h => ds[k] = cs[k]
  /\ ds[h].function = "LowerIf else" /\ ds[h].merge = cs[h].merge
  /\ ds[h].thenTerminated = ended

\* The true side of an if ends, and the false side begins.
LEMMA ElseSide ==
  ASSUME NEW bs, NEW at, NEW cs, NEW d, ModuleInv(bs, at, cs, d),
         NEW h \in Holders(cs), cs[h].function = "LowerIf then",
         NEW ds, BecomesElse(cs, ds, h, Ends(bs[at].code)),
         NEW new, new = IF Ends(bs[at].code) THEN bs ELSE Emit(bs, at, Br(cs[h].merge))
  PROVE  ModuleInv(new, cs[h].else, ds, d) /\ ~Ends(new[cs[h].else].code)
<1> DEFINE m == cs[h].merge
           e == cs[h].else
<1>0. /\ Holders(ds) = Holders(cs) /\ \A k \in Holders(cs) : k # h => ds[k] = cs[k]
      /\ ds[h].function = "LowerIf else" /\ ds[h].merge = cs[h].merge
      /\ ds[h].thenTerminated = Ends(bs[at].code)
  BY DEF BecomesElse
<1> USE <1>0
<1>1. /\ CodeInv(bs, d) /\ at \in DOMAIN bs /\ bs[at].placed = TRUE
      /\ m \in DOMAIN bs /\ e \in DOMAIN bs /\ m # e /\ at # m /\ at # e
      /\ bs[m].code = <<>> /\ bs[m].placed = FALSE /\ bs[e].code = <<>> /\ bs[e].placed = TRUE
  <2>1. /\ CodeInv(bs, d) /\ at \in DOMAIN bs /\ bs[at].placed = TRUE
        /\ HolderInv(bs, cs[h]) /\ Held(cs[h]) \subseteq DOMAIN bs /\ at \notin Held(cs[h])
    BY HolderFacts
  <2>2. Side(cs[h]) = e /\ Held(cs[h]) = {m, e}
    BY DEF Side, Held
  <2>3. QED BY <2>1, <2>2 DEF HolderInv
<1> HIDE DEF m, e
<1>2. CodeInv(new, d) /\ IsBranch(bs, at, m, new)
  BY <1>1, BranchTaken DEF m
<1> USE DEF IsBranch
<1>3. \A c \in DOMAIN bs : new[c].placed = bs[c].placed
  BY <1>1, <1>2
<1>4. ~Ends(new[e].code) /\ new[e].placed = TRUE /\ e \in DOMAIN new
  BY ZenonT(60), <1>1, <1>2, EmptyCode
<1>5. OpenInv(new, e, ds)
  <2> SUFFICES ASSUME NEW b \in DOMAIN new, new[b].placed = TRUE, ~Ends(new[b].code)
               PROVE  b = e \/ \E k \in Holders(ds) : b \in Open(ds[k])
    BY DEF OpenInv
  <2>1. b # at /\ new[b] = bs[b] /\ b \in DOMAIN bs
    BY <1>2
  <2>2. PICK k \in Holders(cs) : b \in Open(cs[k])
    BY <2>1 DEF ModuleInv, OpenInv
  <2>3. k = h => b = e
    BY <2>2 DEF Open, Side, e
  <2>4. QED BY <2>2, <2>3
<1>6. BranchInv(new, ds)
  <2> SUFFICES ASSUME NEW p \in DOMAIN new, NEW t \in To(new[p].code)
               PROVE  /\ t \in DOMAIN new
                      /\ \/ new[t].placed = TRUE
                         \/ \E k \in Holders(ds) : ds[k].merge = t /\ Awaits(ds[k], p)
    BY DEF BranchInv
  <2>1. CASE p = at /\ ~Ends(bs[at].code)
    <3>1. t = m
      <4>1. To(new[at].code) = {m}
        BY <1>2, <2>1
      <4>2. QED BY <2>1, <4>1
    <3>2. Awaits(ds[h], p) /\ ds[h].merge = t
      BY <2>1, <3>1 DEF Awaits, m
    <3>3. QED BY <1>1, <1>2, <3>1, <3>2
  <2>2. CASE ~(p = at /\ ~Ends(bs[at].code))
    <3>1. t \in To(bs[p].code)
      BY <1>2, <2>2
    <3>2. /\ t \in DOMAIN bs
          /\ bs[t].placed = TRUE \/ \E k \in Holders(cs) : cs[k].merge = t /\ Awaits(cs[k], p)
      BY <1>2, <3>1 DEF ModuleInv, BranchInv
    <3>3. ~Awaits(cs[h], p)
      BY DEF Awaits
    <3>4. QED BY <1>2, <1>3, <3>2, <3>3
  <2>3. QED BY <2>1, <2>2
<1>7. PhiInv(new)
  <2> SUFFICES ASSUME NEW b \in DOMAIN new, HasPhi(new[b].code)
               PROVE  DOMAIN new[b].code[1].incoming = {p \in DOMAIN new : b \in To(new[p].code)}
    BY DEF PhiInv
  <2>1. HasPhi(bs[b].code) /\ new[b].code[1] = bs[b].code[1] /\ b \in DOMAIN bs
    BY <1>2
  <2>2. b # m
    BY <1>1, <2>1, EmptyCode
  <2>3. \A p \in DOMAIN bs : b \in To(new[p].code) <=> b \in To(bs[p].code)
    BY ZenonT(60), <1>1, <1>2, <2>2
  <2>4. DOMAIN bs[b].code[1].incoming = {p \in DOMAIN bs : b \in To(bs[p].code)}
    BY <2>1 DEF ModuleInv, PhiInv
  <2>5. {p \in DOMAIN bs : b \in To(bs[p].code)} = {p \in DOMAIN new : b \in To(new[p].code)}
    BY <1>2, <2>3
  <2>6. QED BY <2>1, <2>4, <2>5
<1>8. HoldersInv(new, e, ds)
  <2>1. ASSUME NEW k \in Holders(cs), k # h
        PROVE  HolderInv(new, ds[k]) /\ e \notin Held(ds[k]) /\ Held(ds[k]) \cap Held(ds[h]) = {}
    <3>1. /\ HolderInv(bs, cs[k]) /\ at \notin Held(cs[k]) /\ Held(cs[k]) \subseteq DOMAIN bs
          /\ cs[k].function \in HoldingFunctions /\ ds[k] = cs[k]
          /\ Held(cs[k]) \cap Held(cs[h]) = {}
      BY ZenonT(60), <2>1, HolderFacts
    <3>2. HolderInv(new, ds[k])
      <4>1. KeepsHeld(bs, new, cs[k])
        BY <1>2, <3>1 DEF KeepsHeld
      <4>2. HolderInv(new, cs[k])
        BY <3>1, <4>1, HolderStays
      <4>3. QED BY <3>1, <4>2
    <3>3. e \in Held(cs[h]) /\ Held(ds[h]) \subseteq Held(cs[h])
      BY DEF Held, Side, e
    <3>4. QED BY <3>1, <3>2, <3>3
  <2>2. HolderInv(new, ds[h]) /\ e \notin Held(ds[h])
    <3>1. /\ ds[h].function = "LowerIf else" /\ ds[h].merge = m
          /\ ds[h].thenTerminated \in BOOLEAN /\ Held(ds[h]) = {m}
      BY DEF Held, m, Ends
    <3>2. new[m] = bs[m] /\ m \in DOMAIN new
      BY <1>1, <1>2
    <3>3. QED BY <1>1, <3>1, <3>2 DEF HolderInv
  <2>3. \A k, l \in Holders(cs) : k # l => Held(ds[k]) \cap Held(ds[l]) = {}
    BY <2>1 DEF ModuleInv, HoldersInv
  <2>4. QED BY <2>1, <2>2, <2>3 DEF HoldersInv
<1>9. QED BY <1>2, <1>4, <1>5, <1>6, <1>7, <1>8 DEF ModuleInv, e

\* Call h holds nothing any more.
Releases(cs, ds, h) ==
  Holders(ds) = Holders(cs) \ {h} /\ \A k \in Holders(ds) : ds[k] = cs[k]

\* Both sides of an if have ended before its end: its merge block is never used.
LEMMA NoMerge ==
  ASSUME NEW bs, NEW at, NEW cs, NEW d, ModuleInv(bs, at, cs, d),
         NEW h \in Holders(cs), cs[h].function = "LowerIf else", cs[h].thenTerminated,
         NEW ds, Releases(cs, ds, h)
  PROVE  ModuleInv(bs, at, ds, d)
<1>0. Holders(ds) = Holders(cs) \ {h} /\ \A k \in Holders(ds) : ds[k] = cs[k]
  BY DEF Releases
<1> USE <1>0
<1>1. Open(cs[h]) = {} /\ \A p : ~Awaits(cs[h], p)
  BY DEF Open, Awaits
<1>2. OpenInv(bs, at, ds)
  BY <1>1 DEF ModuleInv, OpenInv
<1>3. BranchInv(bs, ds)
  <2> SUFFICES ASSUME NEW p \in DOMAIN bs, NEW t \in To(bs[p].code), bs[t].placed # TRUE
               PROVE  /\ t \in DOMAIN bs
                      /\ \E k \in Holders(ds) : ds[k].merge = t /\ Awaits(ds[k], p)
    BY DEF ModuleInv, BranchInv
  <2>1. t \in DOMAIN bs /\ \E k \in Holders(cs) : cs[k].merge = t /\ Awaits(cs[k], p)
    BY DEF ModuleInv, BranchInv
  <2>2. QED BY <1>1, <2>1
<1>4. HoldersInv(bs, at, ds)
  BY DEF ModuleInv, HoldersInv
<1>5. QED BY <1>2, <1>3, <1>4 DEF ModuleInv

\* The false side of an if ends, and what follows is lowered in the merge block.
LEMMA IfMerge ==
  ASSUME NEW bs, NEW at, NEW cs, NEW d, ModuleInv(bs, at, cs, d),
         NEW h \in Holders(cs), cs[h].function = "LowerIf else",
         NEW ds, Releases(cs, ds, h),
         NEW ended, ended = IF Ends(bs[at].code) THEN bs ELSE Emit(bs, at, Br(cs[h].merge)),
         NEW new, new = Place(ended, cs[h].merge)
  PROVE  ModuleInv(new, cs[h].merge, ds, d) /\ ~Ends(new[cs[h].merge].code)
<1>0. Holders(ds) = Holders(cs) \ {h} /\ \A k \in Holders(ds) : ds[k] = cs[k]
  BY DEF Releases
<1> USE <1>0
<1> DEFINE m == cs[h].merge
<1>1. /\ CodeInv(bs, d) /\ at \in DOMAIN bs /\ bs[at].placed = TRUE
      /\ m \in DOMAIN bs /\ at # m
      /\ bs[m].code = <<>> /\ bs[m].placed = FALSE
      /\ Open(cs[h]) = {} /\ Held(cs[h]) = {m}
  <2>1. /\ CodeInv(bs, d) /\ at \in DOMAIN bs /\ bs[at].placed = TRUE
        /\ HolderInv(bs, cs[h]) /\ Held(cs[h]) \subseteq DOMAIN bs /\ at \notin Held(cs[h])
    BY HolderFacts
  <2>2. Open(cs[h]) = {} /\ Held(cs[h]) = {m}
    BY DEF Open, Held
  <2>3. QED BY <2>1, <2>2 DEF HolderInv
<1>2. CodeInv(ended, d) /\ IsBranch(bs, at, m, ended)
  BY <1>1, BranchTaken
<1>3. /\ IsModule(new) /\ DOMAIN new = DOMAIN bs /\ new[m].code = <<>> /\ new[m].placed = TRUE
      /\ \A c \in DOMAIN bs : c # m => new[c] = ended[c]
  <2>1. IsModule(ended) /\ m \in DOMAIN ended /\ new = Place(ended, m) /\ ended[m] = bs[m]
        /\ DOMAIN ended = DOMAIN bs
    BY <1>1, <1>2 DEF CodeInv, IsBranch
  <2> HIDE DEF m
  <2>2. IsModule(new) /\ IsPlacing(ended, m, new)
    BY <2>1, PlacedBlock
  <2>3. QED BY <1>1, <2>1, <2>2 DEF IsPlacing
<1> HIDE DEF m
<1>4. CodeInv(new, d)
  <2>1. \A b \in DOMAIN bs :
          WellFormed(ended[b].code, d) /\ (ended[b].placed = FALSE => ended[b].code = <<>>)
    BY <1>2 DEF CodeInv, IsBranch
  <2>2. \A b \in DOMAIN bs :
          WellFormed(new[b].code, d) /\ (new[b].placed = FALSE => new[b].code = <<>>)
    BY ZenonT(60), <1>3, <2>1, EmptyCode
  <2>3. QED BY <1>3, <2>2 DEF CodeInv
<1>5. /\ \A c \in DOMAIN bs : c # at /\ c # m => new[c] = bs[c]
      /\ new[at] = ended[at] /\ new[at].placed = TRUE /\ ~Ends(new[m].code)
      /\ To(new[m].code) = {} /\ To(bs[m].code) = {}
  <2>1. /\ \A c \in DOMAIN bs : c # at /\ c # m => new[c] = bs[c]
        /\ new[at] = ended[at] /\ new[at].placed = TRUE
    BY <1>1, <1>2, <1>3 DEF IsBranch
  <2>2. ~Ends(new[m].code) /\ To(new[m].code) = {} /\ To(bs[m].code) = {}
    BY <1>1, <1>3, EmptyCode
  <2>3. QED BY <2>1, <2>2
<1>5a. ASSUME NEW p \in DOMAIN bs, NEW t, t # m
       PROVE  t \in To(new[p].code) <=> t \in To(bs[p].code)
  <2>1. CASE p = at
    BY <1>2, <1>5, <1>5a, <2>1 DEF IsBranch
  <2>2. CASE p # at
    BY <1>5, <2>2
  <2>3. QED BY <2>1, <2>2
<1>6. OpenInv(new, m, ds)
  <2> SUFFICES ASSUME NEW b \in DOMAIN new, new[b].placed = TRUE, ~Ends(new[b].code), b # m
               PROVE  \E k \in Holders(ds) : b \in Open(ds[k])
    BY DEF OpenInv
  <2>1. b # at /\ new[b] = bs[b] /\ b \in DOMAIN bs
    BY <1>2, <1>3, <1>5 DEF IsBranch
  <2>2. PICK k \in Holders(cs) : b \in Open(cs[k])
    BY <2>1 DEF ModuleInv, OpenInv
  <2>3. QED BY <1>1, <2>2
<1>7. BranchInv(new, ds)
  <2> SUFFICES ASSUME NEW p \in DOMAIN new, NEW t \in To(new[p].code)
               PROVE  /\ t \in DOMAIN new
                      /\ \/ new[t].placed = TRUE
                         \/ \E k \in Holders(ds) : ds[k].merge = t /\ Awaits(ds[k], p)
    BY DEF BranchInv
  <2>0. SUFFICES ASSUME t # m PROVE /\ t \in DOMAIN new
                      /\ \/ new[t].placed = TRUE
                         \/ \E k \in Holders(ds) : ds[k].merge = t /\ Awaits(ds[k], p)
    BY <1>1, <1>3
  <2>1. t \in To(bs[p].code) /\ p \in DOMAIN bs
    BY <1>3, <1>5a, <2>0
  <2>2. /\ t \in DOMAIN bs
        /\ bs[t].placed = TRUE \/ \E k \in Holders(cs) : cs[k].merge = t /\ Awaits(cs[k], p)
    BY <2>1 DEF ModuleInv, BranchInv
  <2>3. bs[t].placed = TRUE => new[t].placed = TRUE
    BY <1>5, <2>2, <2>0
  <2>4. cs[h].merge # t
    BY <2>0 DEF m
  <2>5. QED BY <1>3, <2>2, <2>3, <2>4
<1>8. PhiInv(new)
  <2> SUFFICES ASSUME NEW b \in DOMAIN new, HasPhi(new[b].code)
               PROVE  DOMAIN new[b].code[1].incoming = {p \in DOMAIN new : b \in To(new[p].code)}
    BY DEF PhiInv
  <2>1. b # m
    BY <1>3, EmptyCode
  <2>2. HasPhi(bs[b].code) /\ new[b].code[1] = bs[b].code[1] /\ b \in DOMAIN bs
    BY ZenonT(60), <1>2, <1>3, <1>5, <2>1 DEF IsBranch
  <2>3. \A p \in DOMAIN bs : b \in To(new[p].code) <=> b \in To(bs[p].code)
    BY <1>5a, <2>1
  <2>4. DOMAIN bs[b].code[1].incoming = {p \in DOMAIN bs : b \in To(bs[p].code)}
    BY <2>2 DEF ModuleInv, PhiInv
  <2>5. {p \in DOMAIN bs : b \in To(bs[p].code)} = {p \in DOMAIN new : b \in To(new[p].code)}
    BY <1>3, <2>3
  <2>6. QED BY <2>2, <2>4, <2>5
<1>9. HoldersInv(new, m, ds)
  <2>1. ASSUME NEW k \in Holders(ds)
        PROVE  HolderInv(new, ds[k]) /\ m \notin Held(ds[k])
    <3>0. k \in Holders(cs) /\ k # h
      OBVIOUS
    <3>1. /\ HolderInv(bs, cs[k]) /\ at \notin Held(cs[k]) /\ Held(cs[k]) \subseteq DOMAIN bs
          /\ cs[k].function \in HoldingFunctions /\ ds[k] = cs[k]
          /\ Held(cs[k]) \cap Held(cs[h]) = {}
      BY <3>0, HolderFacts
    <3>2. KeepsHeld(bs, new, cs[k]) /\ m \notin Held(cs[k])
      BY <1>1, <1>3, <1>5, <3>1 DEF KeepsHeld
    <3>3. HolderInv(new, cs[k])
      BY <3>1, <3>2, HolderStays
    <3>4. QED BY <3>1, <3>2, <3>3
  <2>2. \A k, l \in Holders(ds) : k # l => Held(ds[k]) \cap Held(ds[l]) = {}
    BY DEF ModuleInv, HoldersInv
  <2>3. QED BY <2>1, <2>2 DEF HoldersInv
<1>10. QED BY <1>1, <1>3, <1>4, <1>5, <1>6, <1>7, <1>8, <1>9 DEF ModuleInv, m

LEMMA BranchCode ==
  ASSUME NEW b, NEW d
  PROVE  /\ IsCode(<<Br(b)>>) /\ WellFormed(<<Br(b)>>, d) /\ ~HasPhi(<<Br(b)>>)
         /\ Ends(<<Br(b)>>) /\ To(<<Br(b)>>) = {b}
<1>1. Append(<<>>, Br(b)) = <<Br(b)>>
  OBVIOUS
<1>2. /\ IsCode(<<>>) /\ WellFormed(<<>>, d) /\ ~Ends(<<>>) /\ ~HasPhi(<<>>)
      /\ IsTerminator(Br(b)) /\ Targets(Br(b)) = {b} /\ Br(b).op = "br" /\ Returns(Br(b), d)
  BY EmptyCode, Branches
<1>3. LET new == Append(<<>>, Br(b))
      IN  /\ IsCode(new) /\ WellFormed(new, d) /\ Ends(new) /\ To(new) = Targets(Br(b))
          /\ ~HasPhi(new)
  BY <1>2, Appended
<1>4. QED BY <1>1, <1>2, <1>3

\* A condition has been lowered: the block ends in a branch to two new ones, and the call
\* that goes on in the first holds the second, and a third to merge them in.
Leads(ins, a, e) == ins.op = "condbr" /\ Targets(ins) = {a, e}
\* Call h of ds, and of it alone, holds e and m, with code in e.
Takes(cs, ds, h, e, m, code) ==
  /\ h \notin Holders(cs) /\ Holders(ds) = Holders(cs) \cup {h}
  /\ \A k \in Holders(cs) : ds[k] = cs[k]
  /\ ds[h].function # "LowerIf else" /\ ds[h].merge = m /\ Side(ds[h]) = e
  /\ code = IF ds[h].function = "LowerLogicalOr rhs" THEN <<Br(m)>> ELSE <<>>

LEMMA Fork ==
  ASSUME NEW bs, NEW at, NEW cs, NEW d, ModuleInv(bs, at, cs, d), ~Ends(bs[at].code),
         NEW a, NEW e, NEW m, NEW ins, Leads(ins, a, e),
         NEW ds, NEW h, NEW code, Takes(cs, ds, h, e, m, code),
         NEW ended, ended = Emit(bs, at, ins),
         NEW new, IsModule(new), IsExtension(ended, code, a, e, m, new)
  PROVE  ModuleInv(new, a, ds, d) /\ ~Ends(new[a].code)
<1> DEFINE or == ds[h].function = "LowerLogicalOr rhs"
<1>0. /\ ins.op = "condbr" /\ Targets(ins) = {a, e}
      /\ h \notin Holders(cs) /\ Holders(ds) = Holders(cs) \cup {h}
      /\ \A k \in Holders(cs) : ds[k] = cs[k]
      /\ ds[h].function # "LowerIf else" /\ ds[h].merge = m /\ Side(ds[h]) = e
      /\ code = IF ds[h].function = "LowerLogicalOr rhs" THEN <<Br(m)>> ELSE <<>>
  BY DEF Leads, Takes
<1> USE <1>0
<1>1. /\ CodeInv(bs, d) /\ at \in DOMAIN bs /\ bs[at].placed = TRUE
      /\ IsTerminator(ins) /\ ins.op # "phi" /\ Returns(ins, d)
  BY DEF ModuleInv, CodeInv, IsTerminator, Returns
<1>2. CodeInv(ended, d) /\ IsEmission(bs, at, ins, ended)
  BY <1>1, EmittedCode
<1>3. /\ WellFormed(code, d) /\ ~HasPhi(code)
      /\ or => Ends(code) /\ To(code) = {m}
      /\ ~or => code = <<>> /\ ~Ends(code) /\ To(code) = {}
  BY EmptyCode, BranchCode
<1>4. DOMAIN ended = DOMAIN bs
  BY <1>2 DEF IsEmission
<1>5. /\ DOMAIN new = DOMAIN bs \cup {a, e, m}
      /\ a \notin DOMAIN bs /\ e \notin DOMAIN bs /\ m \notin DOMAIN bs
      /\ a # e /\ a # m /\ e # m
      /\ \A b \in DOMAIN bs : new[b] = ended[b]
      /\ new[a].code = <<>> /\ new[a].placed = TRUE
      /\ new[e].code = code /\ new[e].placed = TRUE
      /\ new[m].code = <<>> /\ new[m].placed = FALSE
  BY <1>4 DEF IsExtension
<1>6. /\ \A b \in DOMAIN bs : b # at => new[b] = bs[b]
      /\ new[at].placed = TRUE /\ Ends(new[at].code) /\ To(new[at].code) = {a, e}
      /\ To(bs[at].code) = {}
      /\ HasPhi(new[at].code) => HasPhi(bs[at].code) /\ new[at].code[1] = bs[at].code[1]
  BY <1>1, <1>2, <1>5 DEF IsEmission
<1>7. /\ To(new[a].code) = {} /\ To(new[m].code) = {}
      /\ ~HasPhi(new[a].code) /\ ~HasPhi(new[m].code)
      /\ ~Ends(new[a].code) /\ WellFormed(<<>>, d)
  BY <1>5, EmptyCode
<1>8. \A b \in DOMAIN new : b \in DOMAIN bs \/ b = a \/ b = e \/ b = m
  BY <1>5
<1> HIDE DEF or
<1>9. CodeInv(new, d)
  <2> SUFFICES ASSUME NEW b \in DOMAIN new
               PROVE  WellFormed(new[b].code, d) /\ (new[b].placed = FALSE => new[b].code = <<>>)
    BY DEF CodeInv
  <2>1. CASE b \in DOMAIN bs
    <3>1. new[b] = ended[b] /\ b \in DOMAIN ended
      BY <1>4, <1>5, <2>1
    <3>2. QED BY <1>2, <3>1 DEF CodeInv
  <2>2. CASE b = a \/ b = m
    BY <1>5, <1>7, <2>2
  <2>3. CASE b = e
    BY <1>3, <1>5, <2>3
  <2>4. QED BY <1>8, <2>1, <2>2, <2>3
<1>10. /\ HolderInv(new, ds[h]) /\ Held(ds[h]) = {e, m}
       /\ ~or => Open(ds[h]) = {e}
       /\ or => \A p : p = e => Awaits(ds[h], p)
  <2>1. ds[h].function \in HoldingFunctions
    BY DEF Holders
  <2>2. Held(ds[h]) = {e, m} /\ {e, m} \subseteq DOMAIN new
    BY <1>5 DEF Held
  <2>3. ~or => Open(ds[h]) = {e}
    BY <2>1 DEF or, Open, HoldingFunctions
  <2>4. or => \A p : p = e => Awaits(ds[h], p)
    BY DEF or, Awaits, Side
  <2>5. or => code = <<Br(m)>>
    BY DEF or
  <2>6. HolderInv(new, ds[h])
    BY <1>3, <1>5, <2>1, <2>2, <2>5 DEF HolderInv, or, HoldingFunctions
  <2>7. QED BY <2>2, <2>3, <2>4, <2>6
<1>11. OpenInv(new, a, ds)
  <2> SUFFICES ASSUME NEW b \in DOMAIN new, new[b].placed = TRUE, ~Ends(new[b].code)
               PROVE  b = a \/ \E k \in Holders(ds) : b \in Open(ds[k])
    BY DEF OpenInv
  <2>1. CASE b \in DOMAIN bs
    <3>1. b # at /\ new[b] = bs[b]
      BY <1>6, <2>1
    <3>2. PICK k \in Holders(cs) : b \in Open(cs[k])
      BY <2>1, <3>1 DEF ModuleInv, OpenInv
    <3>3. QED BY <3>2
  <2>2. CASE b = e
    BY <1>3, <1>5, <1>10, <2>2
  <2>3. QED BY <1>5, <1>8, <2>1, <2>2
<1>12. BranchInv(new, ds)
  <2> SUFFICES ASSUME NEW p \in DOMAIN new, NEW t \in To(new[p].code)
               PROVE  /\ t \in DOMAIN new
                      /\ \/ new[t].placed = TRUE
                         \/ \E k \in Holders(ds) : ds[k].merge = t /\ Awaits(ds[k], p)
    BY DEF BranchInv
  <2>1. CASE p = at
    BY <1>5, <1>6, <2>1
  <2>2. CASE p \in DOMAIN bs /\ p # at
    <3>1. t \in To(bs[p].code)
      BY <1>6, <2>2
    <3>2. /\ t \in DOMAIN bs
          /\ bs[t].placed = TRUE \/ \E k \in Holders(cs) : cs[k].merge = t /\ Awaits(cs[k], p)
      BY <2>2, <3>1 DEF ModuleInv, BranchInv
    <3>3. t \in DOMAIN new /\ (bs[t].placed = TRUE => new[t].placed = TRUE)
      BY <1>5, <1>6, <3>2
    <3>4. QED BY <3>2, <3>3
  <2>3. CASE p = e
    <3>1. or /\ t = m
      BY <1>3, <1>5, <2>3
    <3>2. Awaits(ds[h], p) /\ ds[h].merge = t
      BY <1>10, <2>3, <3>1
    <3>3. QED BY <1>5, <3>1, <3>2
  <2>4. QED BY <1>7, <1>8, <2>1, <2>2, <2>3
<1>13. PhiInv(new)
  <2> SUFFICES ASSUME NEW b \in DOMAIN new, HasPhi(new[b].code)
               PROVE  DOMAIN new[b].code[1].incoming = {p \in DOMAIN new : b \in To(new[p].code)}
    BY DEF PhiInv
  <2>1. b \in DOMAIN bs
    BY <1>3, <1>5, <1>7, <1>8
  <2>2. HasPhi(bs[b].code) /\ new[b].code[1] = bs[b].code[1]
    BY <1>6, <2>1
  <2>3. b # a /\ b # e /\ b # m
    BY <1>5, <2>1
  <2>4. \A p \in DOMAIN bs : b \in To(new[p].code) <=> b \in To(bs[p].code)
    BY <1>6, <2>3
  <2>5. ASSUME NEW p \in DOMAIN new, p \notin DOMAIN bs PROVE b \notin To(new[p].code)
    <3>1. CASE p = a \/ p = m
      BY <1>7, <3>1
    <3>2. CASE p = e
      BY <1>3, <1>5, <2>3, <3>2
    <3>3. QED BY <1>8, <2>5, <3>1, <3>2
  <2>6. DOMAIN bs[b].code[1].incoming = {p \in DOMAIN bs : b \in To(bs[p].code)}
    BY <2>1, <2>2 DEF ModuleInv, PhiInv
  <2>7. DOMAIN bs \subseteq DOMAIN new
    BY <1>5
  <2>8. {p \in DOMAIN bs : b \in To(bs[p].code)} = {p \in DOMAIN new : b \in To(new[p].code)}
    BY <2>4, <2>5, <2>7
  <2>9. QED BY <2>2, <2>6, <2>8
<1>14. HoldersInv(new, a, ds)
  <2>1. ASSUME NEW k \in Holders(cs)
        PROVE  /\ HolderInv(new, ds[k]) /\ a \notin Held(ds[k])
               /\ Held(ds[k]) \cap Held(ds[h]) = {}
    <3>1. /\ HolderInv(bs, cs[k]) /\ at \notin Held(cs[k]) /\ Held(cs[k]) \subseteq DOMAIN bs
          /\ cs[k].function \in HoldingFunctions /\ ds[k] = cs[k]
      BY HolderFacts
    <3>2. DOMAIN bs \subseteq DOMAIN new
      BY <1>5
    <3>3. KeepsHeld(bs, new, cs[k])
      BY <1>6, <3>1, <3>2 DEF KeepsHeld
    <3>4. HolderInv(new, cs[k])
      BY <3>1, <3>3, HolderStays
    <3>5. QED BY <1>5, <1>10, <3>1, <3>4
  <2>2. a \notin Held(ds[h])
    BY <1>5, <1>10
  <2>3. \A k, l \in Holders(cs) : k # l => Held(ds[k]) \cap Held(ds[l]) = {}
    BY DEF ModuleInv, HoldersInv
  <2>4. QED BY <1>10, <2>1, <2>2, <2>3 DEF HoldersInv
<1>15. QED BY <1>5, <1>7, <1>9, <1>11, <1>12, <1>13, <1>14 DEF ModuleInv

\* An empty block is put into the function.
LEMMA PlacedCode ==
  ASSUME NEW bs, NEW d, CodeInv(bs, d), NEW m \in DOMAIN bs, bs[m].code = <<>>,
         NEW new, new = Place(bs, m)
  PROVE  CodeInv(new, d) /\ IsPlacing(bs, m, new)
<1>1. IsModule(new) /\ IsPlacing(bs, m, new)
  BY PlacedBlock DEF CodeInv
<1>2. ASSUME NEW b \in DOMAIN bs
      PROVE  WellFormed(new[b].code, d) /\ (new[b].placed = FALSE => new[b].code = <<>>)
  <2>1. CASE b = m
    BY <1>1, <2>1, EmptyCode DEF IsPlacing
  <2>2. CASE b # m
    BY <1>1, <2>2 DEF IsPlacing, CodeInv
  <2>3. QED BY <2>1, <2>2
<1>3. QED BY <1>1, <1>2 DEF CodeInv, IsPlacing

\* What an && or an || does to the blocks: at and s branch to m, which begins with a phi.
IsJoin(bs, at, s, m, ins, new) ==
  /\ DOMAIN new = DOMAIN bs
  /\ \A c \in DOMAIN bs : c \notin {at, s, m} => new[c] = bs[c]
  /\ new[at].placed = TRUE /\ new[s].placed = TRUE /\ new[m].placed = TRUE
  /\ Ends(new[at].code) /\ Ends(new[s].code) /\ ~Ends(new[m].code)
  /\ To(new[at].code) = {m} /\ To(new[s].code) = {m} /\ To(new[m].code) = {}
  /\ HasPhi(new[at].code) => HasPhi(bs[at].code) /\ new[at].code[1] = bs[at].code[1]
  /\ ~HasPhi(new[s].code) /\ new[m].code[1] = ins

\* The short way of an || branches to m from the start, that of an && does now.
ShortCode(f, m) == IF f = "LowerLogicalOr rhs" THEN <<Br(m)>> ELSE <<>>
IsShortEnd(bs, s, m, new) ==
  /\ DOMAIN new = DOMAIN bs /\ \A c \in DOMAIN bs : c # s => new[c] = bs[c]
  /\ new[s].placed = TRUE /\ Ends(new[s].code) /\ To(new[s].code) = {m}
  /\ ~HasPhi(new[s].code)

LEMMA ShortEnd ==
  ASSUME NEW bs, NEW d, CodeInv(bs, d), NEW s \in DOMAIN bs, bs[s].placed = TRUE, NEW m,
         NEW f, bs[s].code = ShortCode(f, m),
         NEW new, new = IF f = "LowerLogicalOr rhs" THEN bs ELSE Emit(bs, s, Br(m))
  PROVE  CodeInv(new, d) /\ IsShortEnd(bs, s, m, new)
<1>1. CASE f = "LowerLogicalOr rhs"
  BY <1>1, BranchCode DEF IsShortEnd, ShortCode
<1>2. CASE f # "LowerLogicalOr rhs"
  <2>1. new = Emit(bs, s, Br(m)) /\ ~Ends(bs[s].code) /\ ~HasPhi(bs[s].code)
    BY <1>2, EmptyCode DEF ShortCode
  <2>2. CodeInv(new, d) /\ IsEmission(bs, s, Br(m), new)
    BY <2>1, EmittedCode, Branches
  <2>3. QED BY <2>1, <2>2, Branches DEF IsEmission, IsShortEnd
<1>3. QED BY <1>1, <1>2

IsMerge(bs, m, ins, new) ==
  /\ DOMAIN new = DOMAIN bs /\ \A c \in DOMAIN bs : c # m => new[c] = bs[c]
  /\ new[m].placed = TRUE /\ ~Ends(new[m].code) /\ To(new[m].code) = {}
  /\ new[m].code[1] = ins

LEMMA PhiMerge ==
  ASSUME NEW bs, NEW d, CodeInv(bs, d), NEW m \in DOMAIN bs, bs[m].code = <<>>,
         NEW placed, placed = Place(bs, m),
         NEW ins, ins.op = "phi", NEW new, new = Emit(placed, m, ins)
  PROVE  CodeInv(new, d) /\ IsMerge(bs, m, ins, new)
<1>1. CodeInv(placed, d) /\ IsPlacing(bs, m, placed)
  BY PlacedCode
<1>2. /\ DOMAIN placed = DOMAIN bs /\ \A c \in DOMAIN bs : c # m => placed[c] = bs[c]
      /\ placed[m].code = <<>> /\ placed[m].placed = TRUE
  BY <1>1 DEF IsPlacing
<1>3. ~Ends(placed[m].code) /\ Returns(ins, d) /\ ~IsTerminator(ins)
  BY <1>2, EmptyCode DEF Returns, IsTerminator
<1>4. CodeInv(new, d) /\ IsEmission(placed, m, ins, new)
  BY <1>1, <1>2, <1>3, EmittedCode
<1>5. QED BY <1>2, <1>3, <1>4 DEF IsEmission, IsMerge

LEMMA Joined ==
  ASSUME NEW bs, NEW at \in DOMAIN bs, NEW s \in DOMAIN bs, NEW m \in DOMAIN bs,
         at # s, at # m, s # m,
         NEW ended, IsEmission(bs, at, Br(m), ended),
         NEW both, IsShortEnd(ended, s, m, both),
         NEW ins, NEW new, IsMerge(both, m, ins, new)
  PROVE  IsJoin(bs, at, s, m, ins, new)
<1>1. /\ DOMAIN ended = DOMAIN bs
      /\ \A c \in DOMAIN bs : c # at => ended[c] = bs[c]
      /\ ended[at].placed = TRUE /\ Ends(ended[at].code) /\ To(ended[at].code) = {m}
      /\ HasPhi(ended[at].code) => HasPhi(bs[at].code) /\ ended[at].code[1] = bs[at].code[1]
  BY Branches DEF IsEmission
<1>2. DOMAIN both = DOMAIN bs /\ \A c \in DOMAIN bs : c # s => both[c] = ended[c]
  BY <1>1 DEF IsShortEnd
<1>3. DOMAIN new = DOMAIN bs /\ \A c \in DOMAIN bs : c # m => new[c] = both[c]
  BY <1>2 DEF IsMerge
<1>4. new[at] = ended[at] /\ new[s] = both[s]
  BY <1>2, <1>3
<1>5. \A c \in DOMAIN bs : c \notin {at, s, m} => new[c] = bs[c]
  BY <1>1, <1>2, <1>3
<1>6. QED BY <1>1, <1>3, <1>4, <1>5 DEF IsJoin, IsShortEnd, IsMerge

\* The right operand has been lowered: what follows is lowered in the merge block.
LEMMA MergedModule ==
  ASSUME NEW bs, NEW at, NEW cs, NEW d, ModuleInv(bs, at, cs, d), ~Ends(bs[at].code),
         NEW h \in Holders(cs), cs[h].function # "LowerIf else",
         NEW ds, Releases(cs, ds, h),
         NEW m, NEW s, cs[h].merge = m, Held(cs[h]) = {m, s}, Open(cs[h]) \subseteq {s},
         \A p : Awaits(cs[h], p) => p = s,
         To(bs[at].code) = {}, To(bs[m].code) = {}, To(bs[s].code) \subseteq {m},
         bs[m].placed = FALSE,
         NEW ins, DOMAIN ins.incoming = {s, at},
         NEW new, CodeInv(new, d), IsJoin(bs, at, s, m, ins, new)
  PROVE  ModuleInv(new, m, ds, d)
<1>0. Holders(ds) = Holders(cs) \ {h} /\ \A k \in Holders(ds) : ds[k] = cs[k]
  BY DEF Releases
<1> USE <1>0
<1>1. /\ at \in DOMAIN bs /\ bs[at].placed = TRUE
      /\ m \in DOMAIN bs /\ s \in DOMAIN bs /\ at # s /\ at # m
      /\ \A k \in Holders(cs) : k # h => m \notin Held(cs[k]) /\ s \notin Held(cs[k])
  <2>1. /\ at \in DOMAIN bs /\ bs[at].placed = TRUE
        /\ Held(cs[h]) \subseteq DOMAIN bs /\ at \notin Held(cs[h])
        /\ \A k \in Holders(cs) : k # h => Held(cs[k]) \cap Held(cs[h]) = {}
    BY HolderFacts
  <2>2. QED BY <2>1
<1>4. /\ DOMAIN new = DOMAIN bs
      /\ \A c \in DOMAIN bs : c \notin {at, s, m} => new[c] = bs[c]
      /\ new[at].placed = TRUE /\ new[s].placed = TRUE /\ new[m].placed = TRUE
      /\ Ends(new[at].code) /\ Ends(new[s].code)
      /\ To(new[at].code) = {m} /\ To(new[s].code) = {m} /\ To(new[m].code) = {}
      /\ HasPhi(new[at].code) => HasPhi(bs[at].code) /\ new[at].code[1] = bs[at].code[1]
      /\ ~HasPhi(new[s].code) /\ new[m].code[1] = ins
  BY DEF IsJoin
<1>5. \A c \in DOMAIN bs : bs[c].placed = TRUE => new[c].placed = TRUE
  BY <1>4
<1>7. ASSUME NEW p \in DOMAIN bs, NEW t, t # m
      PROVE  t \in To(new[p].code) <=> t \in To(bs[p].code)
  <2>1. CASE p = at
    BY <1>4, <1>7, <2>1
  <2>2. CASE p = s
    BY <1>4, <1>7, <2>2
  <2>3. CASE p = m
    BY <1>4, <1>7, <2>3
  <2>4. CASE p \notin {at, s, m}
    BY <1>4, <2>4
  <2>5. QED BY <2>1, <2>2, <2>3, <2>4
<1>8. ASSUME NEW p \in DOMAIN bs PROVE m \in To(new[p].code) <=> p \in {s, at}
  <2>1. CASE p = at
    BY <1>4, <2>1
  <2>2. CASE p = s
    BY <1>4, <2>2
  <2>3. CASE p = m /\ p # s
    BY <1>1, <1>4, <2>3
  <2>4. CASE p \notin {at, s, m}
    <3>1. SUFFICES ASSUME m \in To(bs[p].code) PROVE FALSE
      BY <1>4, <2>4
    <3>2. PICK k \in Holders(cs) : cs[k].merge = m /\ Awaits(cs[k], p)
      BY <1>1, <3>1 DEF ModuleInv, BranchInv
    <3>3. cs[k].merge \in Held(cs[k])
      BY HolderFacts
    <3>4. k = h
      BY <1>1, <3>2, <3>3
    <3>5. QED BY <2>4, <3>2, <3>4
  <2>5. QED BY <2>1, <2>2, <2>3, <2>4
<1>9. OpenInv(new, m, ds)
  <2> SUFFICES ASSUME NEW b \in DOMAIN new, new[b].placed = TRUE, ~Ends(new[b].code)
               PROVE  b = m \/ \E k \in Holders(ds) : b \in Open(ds[k])
    BY DEF OpenInv
  <2>1. SUFFICES ASSUME b # m PROVE \E k \in Holders(ds) : b \in Open(ds[k])
    OBVIOUS
  <2>2. b # at /\ b # s /\ new[b] = bs[b] /\ b \in DOMAIN bs
    BY <1>4, <2>1
  <2>3. PICK k \in Holders(cs) : b \in Open(cs[k])
    BY <2>2 DEF ModuleInv, OpenInv
  <2>4. k # h
    BY <2>1, <2>2, <2>3
  <2>5. QED BY <2>3, <2>4
<1>10. BranchInv(new, ds)
  <2> SUFFICES ASSUME NEW p \in DOMAIN new, NEW t \in To(new[p].code)
               PROVE  /\ t \in DOMAIN new
                      /\ \/ new[t].placed = TRUE
                         \/ \E k \in Holders(ds) : ds[k].merge = t /\ Awaits(ds[k], p)
    BY DEF BranchInv
  <2>1. CASE t = m
    <3>1. m \in DOMAIN new /\ new[m].placed = TRUE
      BY <1>1, <1>4
    <3>2. QED BY <2>1, <3>1
  <2>2. CASE t # m
    <3>1. t \in To(bs[p].code) /\ p \in DOMAIN bs
      BY <1>4, <1>7, <2>2
    <3>2. /\ t \in DOMAIN bs
          /\ bs[t].placed = TRUE \/ \E k \in Holders(cs) : cs[k].merge = t /\ Awaits(cs[k], p)
      BY <3>1 DEF ModuleInv, BranchInv
    <3>3. CASE bs[t].placed = TRUE
      BY <1>4, <1>5, <3>2, <3>3
    <3>4. CASE bs[t].placed # TRUE
      <4>1. PICK k \in Holders(cs) : cs[k].merge = t /\ Awaits(cs[k], p)
        BY <3>2, <3>4
      <4>2. k \in Holders(ds) /\ ds[k] = cs[k]
        BY <2>2, <4>1
      <4>3. QED BY <1>4, <3>2, <4>1, <4>2
    <3>5. QED BY <3>3, <3>4
  <2>3. QED BY <2>1, <2>2
<1>11. PhiInv(new)
  <2> SUFFICES ASSUME NEW b \in DOMAIN new, HasPhi(new[b].code)
               PROVE  DOMAIN new[b].code[1].incoming = {p \in DOMAIN new : b \in To(new[p].code)}
    BY DEF PhiInv
  <2>1. CASE b = m
    <3>1. {s, at} = {p \in DOMAIN new : m \in To(new[p].code)}
      BY ZenonT(60), <1>1, <1>4, <1>8
    <3>2. QED BY <1>4, <2>1, <3>1
  <2>2. CASE b # m
    <3>0. b # s /\ b \in DOMAIN bs
      BY <1>4
    <3>1. HasPhi(bs[b].code) /\ new[b].code[1] = bs[b].code[1] /\ b \in DOMAIN bs
      <4>1. CASE b = at
        BY <1>1, <1>4, <4>1
      <4>2. CASE b # at
        BY <1>4, <2>2, <3>0, <4>2
      <4>3. QED BY <4>1, <4>2
    <3>2. \A p \in DOMAIN bs : b \in To(new[p].code) <=> b \in To(bs[p].code)
      BY <1>7, <2>2
    <3>3. DOMAIN bs[b].code[1].incoming = {p \in DOMAIN bs : b \in To(bs[p].code)}
      BY <3>1 DEF ModuleInv, PhiInv
    <3>4. {p \in DOMAIN bs : b \in To(bs[p].code)} = {p \in DOMAIN new : b \in To(new[p].code)}
      BY <1>4, <3>2
    <3>5. QED BY <3>1, <3>3, <3>4
  <2>3. QED BY <2>1, <2>2
<1>12. HoldersInv(new, m, ds)
  <2>1. ASSUME NEW k \in Holders(ds)
        PROVE  HolderInv(new, ds[k]) /\ m \notin Held(ds[k])
    <3>1. /\ HolderInv(bs, cs[k]) /\ at \notin Held(cs[k]) /\ Held(cs[k]) \subseteq DOMAIN bs
          /\ cs[k].function \in HoldingFunctions /\ ds[k] = cs[k]
      BY HolderFacts
    <3>2. m \notin Held(cs[k]) /\ s \notin Held(cs[k])
      BY <1>1
    <3>3. KeepsHeld(bs, new, cs[k])
      BY <1>4, <3>1, <3>2 DEF KeepsHeld
    <3>4. HolderInv(new, cs[k])
      BY <3>1, <3>3, HolderStays
    <3>5. QED BY <3>1, <3>2, <3>4
  <2>2. ASSUME NEW k \in Holders(ds), NEW l \in Holders(ds), k # l
        PROVE  Held(ds[k]) \cap Held(ds[l]) = {}
    <3>1. k \in Holders(cs) /\ l \in Holders(cs) /\ ds[k] = cs[k] /\ ds[l] = cs[l]
      OBVIOUS
    <3>2. QED BY <2>2, <3>1, HolderFacts
  <2>3. QED BY <2>1, <2>2 DEF HoldersInv
<1>13. QED BY <1>1, <1>4, <1>9, <1>10, <1>11, <1>12 DEF ModuleInv

\* What the end of an && or an ||, in progress as f, does to the blocks.
IsMerged(bs, at, f, ins, new) ==
  LET ended == Emit(bs, at, Br(f.merge))
      both == IF f.function = "LowerLogicalOr rhs" THEN ended
              ELSE Emit(ended, f.short, Br(f.merge))
  IN  new = Emit(Place(both, f.merge), f.merge, ins)

LEMMA LogicalMerge ==
  ASSUME NEW bs, NEW at, NEW cs, NEW d, ModuleInv(bs, at, cs, d), ~Ends(bs[at].code),
         NEW h \in Holders(cs), cs[h].function \in {"LowerLogicalAnd rhs", "LowerLogicalOr rhs"},
         NEW ds, Releases(cs, ds, h),
         NEW ins, ins.op = "phi", DOMAIN ins.incoming = {cs[h].short, at},
         NEW new, IsMerged(bs, at, cs[h], ins, new)
  PROVE  ModuleInv(new, cs[h].merge, ds, d) /\ ~Ends(new[cs[h].merge].code)
<1> DEFINE m == cs[h].merge
           s == cs[h].short
           f == cs[h].function
           ended == Emit(bs, at, Br(m))
           both == IF f = "LowerLogicalOr rhs" THEN ended ELSE Emit(ended, s, Br(m))
           placed == Place(both, m)
<1>1. /\ CodeInv(bs, d) /\ at \in DOMAIN bs /\ bs[at].placed = TRUE
      /\ Held(cs[h]) = {m, s} /\ Held(cs[h]) \subseteq DOMAIN bs /\ at \notin Held(cs[h])
      /\ HolderInv(bs, cs[h]) /\ Side(cs[h]) = s /\ Open(cs[h]) \subseteq {s}
  <2>1. Side(cs[h]) = s /\ Held(cs[h]) = {m, s} /\ Open(cs[h]) \subseteq {s}
    BY DEF Side, Held, Open
  <2>2. QED BY <2>1, HolderFacts
<1>2. /\ m \in DOMAIN bs /\ s \in DOMAIN bs /\ at # s /\ at # m /\ s # m
      /\ bs[m].code = <<>> /\ bs[m].placed = FALSE /\ bs[s].placed = TRUE
      /\ bs[s].code = IF f = "LowerLogicalOr rhs" THEN <<Br(m)>> ELSE <<>>
  BY <1>1 DEF HolderInv
<1>3. /\ \A p : Awaits(cs[h], p) => p = s
      /\ cs[h].function # "LowerIf else" /\ cs[h].merge = m /\ DOMAIN ins.incoming = {s, at}
  BY DEF Awaits
<1>4. /\ ended = Emit(bs, at, Br(m))
      /\ both = IF f = "LowerLogicalOr rhs" THEN ended ELSE Emit(ended, s, Br(m))
      /\ placed = Place(both, m) /\ new = Emit(placed, m, ins)
  BY DEF IsMerged
<1>5. To(bs[at].code) = {} /\ To(bs[m].code) = {} /\ To(bs[s].code) \subseteq {m}
  <2>1. To(bs[at].code) = {}
    BY DEF To
  <2>2. QED BY <1>2, <2>1, EmptyCode, BranchCode
<1> HIDE DEF m, s, f, ended, both, placed
<1>6. CodeInv(new, d) /\ IsJoin(bs, at, s, m, ins, new)
  <2>1. CodeInv(ended, d) /\ IsEmission(bs, at, Br(m), ended)
    BY <1>1, <1>4, EmittedCode, Branches
  <2>2. /\ DOMAIN ended = DOMAIN bs /\ ended[s] = bs[s] /\ ended[m] = bs[m]
    BY <1>2, <2>1 DEF IsEmission
  <2>3. CodeInv(both, d) /\ IsShortEnd(ended, s, m, both)
    BY <1>2, <1>4, <2>1, <2>2, ShortEnd DEF ShortCode
  <2>4. DOMAIN both = DOMAIN bs /\ both[m] = bs[m]
    BY <1>2, <2>2, <2>3 DEF IsShortEnd
  <2>5. CodeInv(new, d) /\ IsMerge(both, m, ins, new)
    BY <1>2, <1>4, <2>3, <2>4, PhiMerge
  <2>6. QED BY <1>1, <1>2, <2>1, <2>3, <2>5, Joined
<1>7. ModuleInv(new, m, ds, d)
  BY <1>1, <1>2, <1>3, <1>5, <1>6, MergedModule
<1>8. ~Ends(new[m].code)
  BY <1>6 DEF IsJoin
<1>9. QED BY <1>7, <1>8 DEF m

-----------------------------------------------------------------------------
(* What keeps StackInv *)

LEMMA OnTop ==
  ASSUME NEW bs, NEW at, NEW cs, StackInv(bs, at, cs), cs # <<>>
  PROVE  /\ Last(cs) = cs[Len(cs)] /\ Len(cs) \in DOMAIN cs /\ Len(cs) \in Nat /\ Len(cs) > 0
         /\ Last(cs).function # "LowerStatements" => Len(cs) > 1
         /\ Len(cs) > 1 /\ Last(cs).function \in OnStatements =>
              cs[Len(cs) - 1].function \in StatementFunctions
         /\ Last(cs).function \notin StatementFunctions => ~Ends(bs[at].code)
         /\ Len(cs) \in Holders(cs) <=> Last(cs).function \in HoldingFunctions
<1>1. Last(cs) = cs[Len(cs)] /\ Len(cs) \in DOMAIN cs /\ Len(cs) \in Nat /\ Len(cs) > 0
  BY StackFacts DEF StackInv
<1>2. Last(cs).function # "LowerStatements" => Len(cs) > 1
  BY <1>1 DEF StackInv
<1>3. QED BY <1>1, <1>2 DEF StackInv, Holders

LEMMA SameStack ==
  ASSUME NEW bs, NEW at, NEW cs, StackInv(bs, at, cs), cs # <<>>,
         NEW new, NEW to, Last(cs).function \notin StatementFunctions => ~Ends(new[to].code)
  PROVE  StackInv(new, to, cs)
BY OnTop DEF StackInv

IsPushed(cs, f, ds) == ds = Append(cs, f)

LEMMA Pushing ==
  ASSUME NEW bs, NEW at, NEW cs, StackInv(bs, at, cs), cs # <<>>, NEW f,
         f.function \in OnStatements => Last(cs).function \in StatementFunctions,
         NEW ds, IsPushed(cs, f, ds), NEW new, NEW to,
         f.function \notin StatementFunctions => ~Ends(new[to].code)
  PROVE  /\ StackInv(new, to, ds)
         /\ f.function \notin HoldingFunctions => Holders(ds) = Holders(cs)
         /\ \A k \in Holders(cs) : ds[k] = cs[k]
<1>1. Last(cs) = cs[Len(cs)] /\ Len(cs) \in Nat /\ Len(cs) > 0 /\ DOMAIN cs = 1..Len(cs)
  BY OnTop, StackFacts DEF StackInv
<1>2. /\ IsStack(ds) /\ Len(ds) = Len(cs) + 1 /\ DOMAIN ds = 1..(Len(cs) + 1)
      /\ \A i \in 1..Len(cs) : ds[i] = cs[i]
      /\ ds[Len(cs) + 1] = f
  BY <1>1, Pushed DEF StackInv, IsPushed
<1>3. ds # <<>> /\ ds[1] = cs[1] /\ ds[Len(ds)] = f
  BY <1>1, <1>2, StackFacts
<1>4. ASSUME NEW i \in DOMAIN ds, i > 1, ds[i].function \in OnStatements
      PROVE  ds[i - 1].function \in StatementFunctions
  <2>1. CASE i = Len(cs) + 1
    <3>0. i - 1 = Len(cs) /\ Len(cs) \in 1..Len(cs)
      BY <1>1, <2>1
    <3>1. ds[i - 1] = Last(cs) /\ ds[i] = f
      BY <1>1, <1>2, <2>1, <3>0
    <3>2. QED BY <1>4, <3>1
  <2>2. CASE i # Len(cs) + 1
    <3>1. i \in DOMAIN cs /\ ds[i] = cs[i] /\ ds[i - 1] = cs[i - 1]
      BY <1>1, <1>2, <1>4, <2>2
    <3>2. QED BY <1>4, <3>1 DEF StackInv
  <2>3. QED BY <2>1, <2>2
<1>5. StackInv(new, to, ds)
  BY <1>2, <1>3, <1>4 DEF StackInv
<1>6. \A k \in Holders(cs) : ds[k] = cs[k]
  BY <1>1, <1>2 DEF Holders
<1>7. ASSUME f.function \notin HoldingFunctions PROVE Holders(ds) = Holders(cs)
  <2>1. \A k : k \in DOMAIN ds <=> k \in DOMAIN cs \/ k = Len(cs) + 1
    BY <1>1, <1>2
  <2>2. QED BY <1>1, <1>2, <1>7, <2>1 DEF Holders
<1>8. QED BY <1>5, <1>6, <1>7

LEMMA Popping ==
  ASSUME NEW bs, NEW at, NEW cs, StackInv(bs, at, cs), cs # <<>>,
         NEW ds, ds = Front(cs), NEW new, NEW to,
         Last(cs).function \notin OnStatements => ~Ends(new[to].code),
         Len(cs) = 1 => Ends(new[to].code)
  PROVE  /\ StackInv(new, to, ds)
         /\ Releases(cs, ds, Len(cs))
<1>1. Last(cs) = cs[Len(cs)] /\ Len(cs) \in Nat /\ Len(cs) > 0 /\ DOMAIN cs = 1..Len(cs)
  BY OnTop, StackFacts DEF StackInv
<1>2. /\ IsStack(ds) /\ Len(ds) = Len(cs) - 1 /\ DOMAIN ds = 1..(Len(cs) - 1)
      /\ \A i \in 1..(Len(cs) - 1) : ds[i] = cs[i]
  BY Popped DEF StackInv
<1>3. /\ ds # <<>> => ds[1] = cs[1] /\ Len(cs) > 1 /\ ds[Len(ds)] = cs[Len(cs) - 1]
      /\ ds = <<>> => Len(cs) = 1
  BY <1>1, <1>2, StackFacts
<1>4. ASSUME NEW i \in DOMAIN ds, i > 1, ds[i].function \in OnStatements
      PROVE  ds[i - 1].function \in StatementFunctions
  <2>1. i \in DOMAIN cs /\ ds[i] = cs[i] /\ ds[i - 1] = cs[i - 1]
    BY <1>1, <1>2, <1>4
  <2>2. QED BY <1>4, <2>1 DEF StackInv
<1>5. ASSUME ds # <<>>, ds[Len(ds)].function \notin StatementFunctions
      PROVE  ~Ends(new[to].code)
  <2>1. Last(cs).function \notin OnStatements
    BY <1>3, <1>5, OnTop
  <2>2. QED BY <2>1
<1>6. StackInv(new, to, ds)
  BY <1>2, <1>3, <1>4, <1>5 DEF StackInv
<1>7. \A k : k \in DOMAIN ds <=> k \in DOMAIN cs /\ k # Len(cs)
  BY <1>1, <1>2
<1>8. \A k \in DOMAIN ds : ds[k] = cs[k]
  BY <1>2
<1>9. QED BY <1>6, <1>7, <1>8 DEF Holders, Releases

IsReplaced(cs, f, ds) == ds = Append(Front(cs), f)
\* The call on top may become f, and go on at block to.
MayBecome(cs, f, new, to) ==
  /\ Last(cs).function # "LowerStatements"
  /\ f.function \in OnStatements => Last(cs).function \in OnStatements
  /\ f.function \notin StatementFunctions => ~Ends(new[to].code)
Holding(cs, f, ds) ==
  /\ ds # <<>> /\ Last(ds) = f /\ ds[Len(cs)] = f
  /\ f.function \in HoldingFunctions => Holders(ds) = Holders(cs) \cup {Len(cs)}
  /\ \A k \in Holders(cs) : k # Len(cs) => ds[k] = cs[k]

LEMMA Replacing ==
  ASSUME NEW bs, NEW at, NEW cs, StackInv(bs, at, cs), cs # <<>>, NEW f,
         NEW new, NEW to, MayBecome(cs, f, new, to), NEW ds, IsReplaced(cs, f, ds)
  PROVE  StackInv(new, to, ds) /\ Holding(cs, f, ds)
<1>0. /\ Last(cs).function # "LowerStatements"
      /\ f.function \in OnStatements => Last(cs).function \in OnStatements
      /\ f.function \notin StatementFunctions => ~Ends(new[to].code)
  BY DEF MayBecome
<1>1. Last(cs) = cs[Len(cs)] /\ Len(cs) \in Nat /\ Len(cs) > 1 /\ DOMAIN cs = 1..Len(cs)
  BY <1>0, OnTop, StackFacts DEF StackInv
<1>2. /\ IsStack(ds) /\ Len(ds) = Len(cs) /\ DOMAIN ds = DOMAIN cs
      /\ \A i \in DOMAIN cs : i # Len(cs) => ds[i] = cs[i]
      /\ ds[Len(cs)] = f
  BY Replaced DEF StackInv, IsReplaced
<1>3. ds # <<>> /\ ds[1] = cs[1] /\ Last(ds) = f
  <2>1. 1 \in DOMAIN cs /\ 1 # Len(cs) /\ Len(ds) # 0
    BY <1>1, <1>2
  <2>2. QED BY <1>2, <2>1, StackFacts
<1>4. ASSUME NEW i \in DOMAIN ds, i > 1, ds[i].function \in OnStatements
      PROVE  ds[i - 1].function \in StatementFunctions
  <2>0. ds[i - 1] = cs[i - 1]
    <3>1. i - 1 \in DOMAIN cs /\ i - 1 # Len(cs)
      BY <1>1, <1>2, <1>4
    <3>2. QED BY <1>2, <3>1
  <2>1. CASE i = Len(cs)
    BY <1>0, <1>1, <1>2, <1>4, <2>0, <2>1, OnTop
  <2>2. CASE i # Len(cs)
    BY <1>2, <1>4, <2>0, <2>2 DEF StackInv
  <2>3. QED BY <2>1, <2>2
<1>5. StackInv(new, to, ds)
  BY <1>0, <1>2, <1>3, <1>4 DEF StackInv
<1>6. \A k \in Holders(cs) : k # Len(cs) => ds[k] = cs[k]
  BY <1>2 DEF Holders
<1>7. ASSUME f.function \in HoldingFunctions PROVE Holders(ds) = Holders(cs) \cup {Len(cs)}
  <2>1. Len(cs) \in Holders(ds)
    BY <1>1, <1>2, <1>7 DEF Holders
  <2>2. \A k : k # Len(cs) => (k \in Holders(ds) <=> k \in Holders(cs))
    BY <1>2 DEF Holders
  <2>3. QED BY <2>1, <2>2
<1>8. QED BY <1>2, <1>3, <1>5, <1>6, <1>7 DEF Holding

-----------------------------------------------------------------------------
(* Every action keeps the invariant *)

LEMMA InitIInv == Init => IInv
<1> SUFFICES ASSUME Init PROVE IInv
  OBVIOUS
<1> DEFINE block == [code |-> <<>>, placed |-> TRUE]
           frame == [function |-> "LowerStatements"]
<1>1. blocks = <<block>> /\ insert = 1 /\ calls = <<frame>>
  BY DEF Init, NewBlock
<1>2. block.code = <<>> /\ block.placed = TRUE /\ frame.function = "LowerStatements"
  OBVIOUS
<1>3. block \in [code : Seq({}), placed : BOOLEAN]
  OBVIOUS
<1> HIDE DEF block, frame
<1>4. blocks \in Seq([code : Seq({}), placed : BOOLEAN]) /\ DOMAIN blocks = {1} /\ blocks[1] = block
  BY <1>1, <1>3
<1>5. calls \in Seq({frame}) /\ Len(calls) = 1 /\ DOMAIN calls = {1} /\ calls[1] = frame
      /\ calls # <<>>
  BY <1>1
<1>6. Holders(calls) = {}
  BY <1>2, <1>5 DEF Holders, HoldingFunctions
<1>7. CodeInv(blocks, declared)
  BY <1>2, <1>4, EmptyCode DEF CodeInv, IsModule
<1>8. OpenInv(blocks, insert, calls) /\ BranchInv(blocks, calls) /\ PhiInv(blocks)
      /\ HoldersInv(blocks, insert, calls)
  BY <1>1, <1>2, <1>4, <1>6, EmptyCode DEF OpenInv, BranchInv, PhiInv, HoldersInv
<1>9. StackInv(blocks, insert, calls)
  <2>1. \A i \in DOMAIN calls : ~(i > 1)
    BY <1>5
  <2>2. IsStack(calls) /\ calls[Len(calls)].function \in StatementFunctions
    BY <1>2, <1>5 DEF IsStack, StatementFunctions
  <2>3. QED BY <1>2, <1>5, <2>1, <2>2 DEF StackInv
<1>10. QED BY <1>1, <1>2, <1>4, <1>7, <1>8, <1>9 DEF IInv, ModuleInv

LEMMA CurrentBlock == IsCurrentBlockTerminated <=> Ends(blocks[insert].code)
  BY DEF IsCurrentBlockTerminated, Terminated, Ends

LEMMA EventEmitted ==
  ASSUME NEW bs, NEW at, NEW cs, NEW d, ModuleInv(bs, at, cs, d), ~Ends(bs[at].code), NEW e,
         NEW new, new = Emit(bs, at, Event(e))
  PROVE  ModuleInv(new, at, cs, d) /\ ~Ends(new[at].code)
<1>1. Event(e).op = "event" /\ Returns(Event(e), d)
  BY DEF Event, Returns
<1>2. QED BY <1>1, Straight

LEMMA ReturnEmitted ==
  ASSUME NEW bs, NEW at, NEW cs, NEW d, ModuleInv(bs, at, cs, d), ~Ends(bs[at].code),
         NEW new, new = Emit(bs, at, Ret(d))
  PROVE  ModuleInv(new, at, cs, d) /\ Ends(new[at].code)
<1>1. Ret(d).op = "ret" /\ Ret(d).to = <<>> /\ Returns(Ret(d), d)
  BY DEF Ret, Returns
<1>2. QED BY <1>1, Straight

\* A call that holds nothing returns to a call of statements.
LEMMA StatementReturns ==
  ASSUME NEW bs, NEW at, NEW cs, StackInv(bs, at, cs), cs # <<>>,
         Last(cs).function \in {"LowerStatements", "LowerReturn", "StoreIntoPointer"},
         Len(cs) > 1,
         NEW d, NEW new, ModuleInv(new, at, cs, d), NEW ds, ds = Front(cs)
  PROVE  ModuleInv(new, at, ds, d) /\ StackInv(new, at, ds)
<1>1. Last(cs).function \in OnStatements /\ Last(cs).function \notin HoldingFunctions
  BY DEF OnStatements, StatementFunctions, HoldingFunctions
<1>0. Len(cs) # 1
  BY OnTop
<1>2. StackInv(new, at, ds) /\ Releases(cs, ds, Len(cs))
  BY <1>0, <1>1, Popping
<1>3. Holders(ds) = Holders(cs) /\ \A k \in Holders(ds) : ds[k] = cs[k]
  BY <1>1, <1>2, OnTop DEF Releases
<1>4. ModuleInv(new, at, ds, d)
  BY <1>3, SameHolders
<1>5. QED BY <1>2, <1>4

LEMMA LowerSimpleKeeps == IInv /\ LowerSimple => IInv'
<1> SUFFICES ASSUME IInv, LowerSimple PROVE IInv'
  OBVIOUS
<1>1. /\ ~Ends(blocks[insert].code) /\ calls # <<>> /\ Last(calls).function = "LowerStatements"
      /\ blocks' = Emit(blocks, insert, Event(NextEvent))
      /\ UNCHANGED <<insert, calls, declared>>
  BY CurrentBlock DEF LowerSimple, LoweredStatement, Statement, Skips, Lowering
<1>2. ModuleInv(blocks', insert, calls, declared)
  BY <1>1, EventEmitted DEF IInv
<1>3. StackInv(blocks', insert, calls)
  BY <1>1, SameStack DEF IInv, StatementFunctions
<1>4. QED BY <1>1, <1>2, <1>3 DEF IInv

LEMMA LowerReturnKeeps == IInv /\ LowerReturn => IInv'
<1> SUFFICES ASSUME IInv, LowerReturn PROVE IInv'
  OBVIOUS
<1> DEFINE done == Emit(blocks, insert, Event(NextEvent))
<1>1. /\ ~Ends(blocks[insert].code) /\ calls # <<>> /\ Last(calls).function = "LowerStatements"
      /\ blocks' = Emit(done, insert, Ret(declared))
      /\ UNCHANGED <<insert, calls, declared>>
  BY CurrentBlock
  DEF LowerReturn, ReturnStatement, LoweredStatement, Statement, Skips, Lowering
<1>2. ModuleInv(done, insert, calls, declared) /\ ~Ends(done[insert].code)
  BY <1>1, EventEmitted DEF IInv
<1> HIDE DEF done
<1>3. ModuleInv(blocks', insert, calls, declared)
  BY <1>1, <1>2, ReturnEmitted
<1>4. StackInv(blocks', insert, calls)
  BY <1>1, SameStack DEF IInv, StatementFunctions
<1>5. QED BY <1>1, <1>3, <1>4 DEF IInv

LEMMA CallKeeps ==
  ASSUME IInv, calls # <<>>, NEW f,
         f \in {"LowerStatements", "LowerIf", "LowerReturn", "StoreIntoPointer",
                "LowerLogicalAnd", "LowerLogicalOr"},
         f \in OnStatements => Last(calls).function = "LowerStatements",
         f # "LowerStatements" => ~Ends(blocks[insert].code),
         Call(f), UNCHANGED <<blocks, insert, declared>>
  PROVE  IInv'
<1> DEFINE frame == [function |-> f]
<1>1. IsPushed(calls, frame, calls')
  BY DEF Call, IsPushed
<1>2. /\ frame.function \notin HoldingFunctions
      /\ frame.function \in OnStatements => Last(calls).function \in StatementFunctions
      /\ frame.function \notin StatementFunctions => ~Ends(blocks[insert].code)
  BY DEF HoldingFunctions, StatementFunctions
<1> HIDE DEF frame
<1>3. /\ StackInv(blocks, insert, calls') /\ Holders(calls') = Holders(calls)
      /\ \A k \in Holders(calls) : calls'[k] = calls[k]
  BY <1>1, <1>2, Pushing DEF IInv
<1>4. ModuleInv(blocks, insert, calls', declared)
  BY <1>3, SameHolders DEF IInv
<1>5. QED BY <1>3, <1>4 DEF IInv

LEMMA LowerBlockKeeps == IInv /\ LowerBlock => IInv'
<1> SUFFICES ASSUME IInv, LowerBlock PROVE IInv'
  OBVIOUS
<1>1. calls # <<>> /\ Last(calls).function = "LowerStatements" /\ Call("LowerStatements")
      /\ UNCHANGED <<blocks, insert, declared>>
  BY DEF LowerBlock, LoweredStatement, Statement, Lowering
<1>2. QED BY <1>1, CallKeeps

LEMMA LowerWithExpressionKeeps == IInv /\ LowerWithExpression => IInv'
<1> SUFFICES ASSUME IInv, LowerWithExpression PROVE IInv'
  OBVIOUS
<1>1. calls # <<>> /\ Last(calls).function = "LowerStatements" /\ ~Ends(blocks[insert].code)
      /\ UNCHANGED <<blocks, insert, declared>>
  BY CurrentBlock DEF LowerWithExpression, LoweredStatement, Statement, Lowering, Skips
<1>2. PICK f \in {"LowerIf", "LowerReturn", "StoreIntoPointer"} : Call(f)
  BY DEF LowerWithExpression
<1>3. QED BY <1>1, <1>2, CallKeeps

LEMMA LowerLogicalKeeps == IInv /\ LowerLogical => IInv'
<1> SUFFICES ASSUME IInv, LowerLogical PROVE IInv'
  OBVIOUS
<1>1. /\ calls # <<>> /\ Last(calls).function \notin StatementFunctions
      /\ UNCHANGED <<blocks, insert, declared>>
  BY DEF LowerLogical, Expecting, StatementFunctions
<1>2. ~Ends(blocks[insert].code)
  BY <1>1, OnTop DEF IInv
<1>3. PICK f \in {"LowerLogicalAnd", "LowerLogicalOr"} : Call(f)
  BY DEF LowerLogical
<1>4. f \notin OnStatements
  BY DEF OnStatements, StatementFunctions
<1>5. QED BY <1>1, <1>2, <1>3, <1>4, CallKeeps

LEMMA LowerOperandKeeps == IInv /\ LowerOperand => IInv'
<1> SUFFICES ASSUME IInv, LowerOperand PROVE IInv'
  OBVIOUS
<1>1. /\ calls # <<>> /\ Last(calls).function \notin StatementFunctions
      /\ blocks' = Emit(blocks, insert, Event(NextEvent))
      /\ UNCHANGED <<insert, calls, declared>>
  BY DEF LowerOperand, Expecting, StatementFunctions
<1>2. ~Ends(blocks[insert].code)
  BY <1>1, OnTop DEF IInv
<1>3. ModuleInv(blocks', insert, calls, declared) /\ ~Ends(blocks'[insert].code)
  BY <1>1, <1>2, EventEmitted DEF IInv
<1>4. StackInv(blocks', insert, calls)
  BY <1>1, <1>3, SameStack DEF IInv
<1>5. QED BY <1>1, <1>3, <1>4 DEF IInv

LEMMA EndStatementsKeeps == IInv /\ EndStatements => IInv'
<1> SUFFICES ASSUME IInv, EndStatements PROVE IInv'
  OBVIOUS
<1>1. calls # <<>> /\ Last(calls).function = "LowerStatements" /\ Len(calls) > 1
      /\ calls' = Front(calls) /\ UNCHANGED <<blocks, insert, declared>>
  BY DEF EndStatements, Lowering, Return
<1>2. QED BY <1>1, StatementReturns DEF IInv

LEMMA StoreKeeps == IInv /\ Store => IInv'
<1> SUFFICES ASSUME IInv, Store PROVE IInv'
  OBVIOUS
<1>1. calls # <<>> /\ Last(calls).function = "StoreIntoPointer"
      /\ blocks' = Emit(blocks, insert, Event(NextEvent))
      /\ calls' = Front(calls) /\ UNCHANGED <<insert, declared>>
  BY DEF Store, Returned, Lowering, Return
<1>2. ~Ends(blocks[insert].code) /\ Len(calls) > 1
  BY <1>1, OnTop DEF IInv, StatementFunctions
<1>3. ModuleInv(blocks', insert, calls, declared)
  BY <1>1, <1>2, EventEmitted DEF IInv
<1>4. QED BY <1>1, <1>2, <1>3, StatementReturns DEF IInv

LEMMA LowerReturnValueKeeps == IInv /\ LowerReturnValue => IInv'
<1> SUFFICES ASSUME IInv, LowerReturnValue PROVE IInv'
  OBVIOUS
<1> DEFINE done == Emit(blocks, insert, Event(NextEvent))
<1>1. calls # <<>> /\ Last(calls).function = "LowerReturn"
      /\ blocks' = Emit(done, insert, Ret(declared))
      /\ calls' = Front(calls) /\ UNCHANGED <<insert, declared>>
  BY DEF LowerReturnValue, ReturnStatement, Returned, Lowering, Return
<1>2. ~Ends(blocks[insert].code) /\ Len(calls) > 1
  BY <1>1, OnTop DEF IInv, StatementFunctions
<1>3. ModuleInv(done, insert, calls, declared) /\ ~Ends(done[insert].code)
  BY <1>2, EventEmitted DEF IInv
<1> HIDE DEF done
<1>4. ModuleInv(blocks', insert, calls, declared)
  BY <1>1, <1>3, ReturnEmitted
<1>5. QED BY <1>1, <1>2, <1>4, StatementReturns DEF IInv

\* Three blocks are made, after the end of the one they are made in.
IsForked(bs, at, ins, code, new) ==
  new = Emit(bs, at, ins)
          \o <<NewBlock(TRUE), [code |-> code, placed |-> TRUE], NewBlock(FALSE)>>

\* A call that has lowered a condition holds blocks from then on.
BeginsToHold(cs, f) ==
  /\ Last(cs).function \in {"LowerIf", "LowerLogicalAnd", "LowerLogicalOr"}
  /\ f.function \in {"LowerIf then", "LowerLogicalAnd rhs", "LowerLogicalOr rhs"}
  /\ f.function = "LowerIf then" => Last(cs).function = "LowerIf"
Holds(f, e, m, code) ==
  /\ f.merge = m /\ Side(f) = e
  /\ code = IF f.function = "LowerLogicalOr rhs" THEN <<Br(m)>> ELSE <<>>

AreNext(bs, a, e, m) == a = Len(bs) + 1 /\ e = Len(bs) + 2 /\ m = Len(bs) + 3

LEMMA Forking ==
  ASSUME NEW bs, NEW at, NEW cs, NEW d, ModuleInv(bs, at, cs, d), StackInv(bs, at, cs),
         cs # <<>>, NEW f, BeginsToHold(cs, f),
         NEW a, NEW e, NEW m, AreNext(bs, a, e, m),
         NEW ins, Leads(ins, a, e), NEW code, Holds(f, e, m, code),
         NEW new, IsForked(bs, at, ins, code, new),
         NEW ds, IsReplaced(cs, f, ds)
  PROVE  /\ ModuleInv(new, a, ds, d) /\ StackInv(new, a, ds)
         /\ ds # <<>> /\ Last(ds) = f /\ ~Ends(new[a].code)
<1> DEFINE h == Len(cs)
           ended == Emit(bs, at, ins)
<1>1. /\ CodeInv(bs, d) /\ at \in DOMAIN bs /\ bs[at].placed = TRUE /\ ~Ends(bs[at].code)
      /\ h \notin Holders(cs)
  BY OnTop DEF ModuleInv, StatementFunctions, HoldingFunctions, BeginsToHold
<1>2. /\ f.function \in HoldingFunctions /\ f.function # "LowerIf else"
      /\ f.function \in OnStatements => Last(cs).function \in OnStatements
      /\ Last(cs).function # "LowerStatements"
  BY DEF HoldingFunctions, OnStatements, StatementFunctions, BeginsToHold
<1>3. CodeInv(ended, d) /\ Len(ended) = Len(bs)
  <2>1. ins.op # "phi" /\ Returns(ins, d)
    BY DEF Returns, Leads
  <2>2. CodeInv(ended, d) /\ IsEmission(bs, at, ins, ended)
    BY <1>1, <2>1, EmittedCode
  <2>3. QED BY <2>2 DEF IsEmission
<1>4. IsCode(code)
  BY EmptyCode, BranchCode DEF Holds
<1>5. new = ended \o <<NewBlock(TRUE), [code |-> code, placed |-> TRUE], NewBlock(FALSE)>>
  BY DEF IsForked
<1> HIDE DEF ended
<1>6. IsModule(new) /\ IsExtension(ended, code, a, e, m, new)
  BY <1>3, <1>4, <1>5, Extended DEF CodeInv, AreNext
<1>7. ended = Emit(bs, at, ins)
  BY DEF ended
<1>9. new[a].code = <<>> /\ ~Ends(new[a].code)
  BY <1>6, EmptyCode DEF IsExtension
<1>10. /\ StackInv(new, a, ds) /\ ds # <<>> /\ Last(ds) = f
       /\ ds[h] = f /\ Holders(ds) = Holders(cs) \cup {h}
       /\ \A k \in Holders(cs) : k # h => ds[k] = cs[k]
  <2>1. MayBecome(cs, f, new, a)
    BY <1>2, <1>9 DEF MayBecome
  <2>2. StackInv(new, a, ds) /\ Holding(cs, f, ds)
    BY <2>1, Replacing
  <2>3. QED BY <1>2, <2>2 DEF Holding
<1> HIDE DEF h
<1>11. ModuleInv(new, a, ds, d)
  <2>1. /\ ds[h].function # "LowerIf else" /\ ds[h].merge = m /\ Side(ds[h]) = e
        /\ code = IF ds[h].function = "LowerLogicalOr rhs" THEN <<Br(m)>> ELSE <<>>
    BY <1>2, <1>10 DEF Holds
  <2>2. \A k \in Holders(cs) : ds[k] = cs[k]
    BY <1>1, <1>10
  <2>3. Takes(cs, ds, h, e, m, code)
    BY <1>1, <1>10, <2>1, <2>2 DEF Takes
  <2>4. QED BY <1>1, <1>6, <1>7, <2>3, Fork
<1>12. QED BY <1>9, <1>10, <1>11

LEMMA Conditions ==
  ASSUME NEW v, NEW b, NEW c
  PROVE  CondBr(v, b, c).op = "condbr" /\ Targets(CondBr(v, b, c)) = {b, c}
<1>1. CondBr(v, b, c).op = "condbr" /\ CondBr(v, b, c).to = <<b, c>>
  BY DEF CondBr
<1>2. DOMAIN <<b, c>> = {1, 2} /\ <<b, c>>[1] = b /\ <<b, c>>[2] = c
  OBVIOUS
<1>3. QED BY <1>1, <1>2 DEF Targets

LEMMA LowerThenKeeps == IInv /\ LowerThen => IInv'
<1> SUFFICES ASSUME IInv, LowerThen PROVE IInv'
  OBVIOUS
<1> DEFINE a == Len(blocks) + 1
           e == Len(blocks) + 2
           m == Len(blocks) + 3
           f == [function |-> "LowerIf then", else |-> e, merge |-> m,
                 elsePath |-> path \ result.truth]
           g == [function |-> "LowerStatements"]
           ins == CondBr(result.value, a, e)
           mid == Append(Front(calls), f)
<1>1. /\ calls # <<>> /\ Last(calls).function = "LowerIf"
      /\ blocks' = Emit(blocks, insert, ins) \o <<NewBlock(TRUE), NewBlock(TRUE), NewBlock(FALSE)>>
      /\ insert' = a /\ calls' = Front(calls) \o <<f, g>> /\ declared' = declared
  BY DEF LowerThen, Returned, Lowering
<1>2. ModuleInv(blocks, insert, calls, declared) /\ StackInv(blocks, insert, calls)
  BY DEF IInv
<1>3. AreNext(blocks, a, e, m)
  BY DEF AreNext
<1> HIDE DEF a, e, m
<1>4. IsForked(blocks, insert, ins, <<>>, blocks')
  BY <1>1 DEF IsForked, NewBlock
<1>5. IsReplaced(calls, f, mid)
  BY DEF IsReplaced
<1>6. IsPushed(mid, g, calls')
  <2>1. IsStack(Front(calls))
    BY <1>1, <1>2, Popped DEF StackInv
  <2> HIDE DEF f, g
  <2>2. QED BY <1>1, <2>1, Concatenated DEF IsPushed
<1>7. /\ f.function = "LowerIf then" /\ g.function = "LowerStatements"
      /\ BeginsToHold(calls, f) /\ Holds(f, e, m, <<>>)
  BY <1>1 DEF Side, BeginsToHold, Holds
<1>8. Leads(ins, a, e)
  BY Conditions DEF Leads
<1> HIDE DEF f, g, ins, mid
<1>9. calls # <<>> /\ BeginsToHold(calls, f) /\ Holds(f, e, m, <<>>)
  BY <1>1, <1>7
<1>10. /\ ModuleInv(blocks', a, mid, declared) /\ StackInv(blocks', a, mid)
       /\ mid # <<>> /\ Last(mid) = f /\ ~Ends(blocks'[a].code)
  BY <1>2, <1>3, <1>4, <1>5, <1>8, <1>9, Forking
<1>11. /\ g.function \in StatementFunctions /\ g.function \notin HoldingFunctions
       /\ f.function \in StatementFunctions
  BY <1>7 DEF StatementFunctions, HoldingFunctions
<1>12. /\ StackInv(blocks', a, calls') /\ Holders(calls') = Holders(mid)
       /\ \A k \in Holders(mid) : calls'[k] = mid[k]
  BY <1>6, <1>10, <1>11, Pushing
<1>13. ModuleInv(blocks', a, calls', declared)
  BY <1>10, <1>12, SameHolders
<1>14. QED BY <1>1, <1>12, <1>13 DEF IInv

LEMMA LowerElseKeeps == IInv /\ LowerElse => IInv'
<1> SUFFICES ASSUME IInv, LowerElse PROVE IInv'
  OBVIOUS
<1> DEFINE h == Len(calls)
           frame == Last(calls)
           e == frame.else
           f == [function |-> "LowerIf else", merge |-> frame.merge,
                 thenTerminated |-> IsCurrentBlockTerminated, thenPath |-> path]
           g(function) == [function |-> function]
           mid == Append(Front(calls), f)
<1>1. /\ calls # <<>> /\ frame.function = "LowerIf then"
      /\ blocks' = BranchTo(frame.merge) /\ insert' = e /\ declared' = declared
      /\ \/ calls' = Front(calls) \o <<f>>
         \/ \E function \in {"LowerStatements", "LowerIf"} :
              calls' = Front(calls) \o <<f, g(function)>>
  BY DEF LowerElse, Lowering
<1>2. ModuleInv(blocks, insert, calls, declared) /\ StackInv(blocks, insert, calls)
  BY DEF IInv
<1>3. h \in Holders(calls) /\ calls[h] = frame
  BY <1>1, <1>2, OnTop DEF HoldingFunctions
<1>4. blocks' = IF Ends(blocks[insert].code) THEN blocks
                ELSE Emit(blocks, insert, Br(calls[h].merge))
  BY <1>1, <1>3, CurrentBlock DEF BranchTo
<1>5. IsReplaced(calls, f, mid)
  BY DEF IsReplaced
<1>6. /\ f.function = "LowerIf else" /\ f.merge = calls[h].merge
      /\ f.thenTerminated = IsCurrentBlockTerminated
  BY <1>3
<1>7. calls' = mid \/ \E function \in {"LowerStatements", "LowerIf"} :
                        IsPushed(mid, g(function), calls')
  <2>1. IsStack(Front(calls))
    BY <1>1, <1>2, Popped DEF StackInv
  <2> HIDE DEF f, g
  <2>2. QED BY ZenonT(60), <1>1, <2>1, Concatenated DEF IsPushed
<1> HIDE DEF f, mid
<1>8. /\ StackInv(blocks', e, mid) /\ Holding(calls, f, mid)
  <2>1. MayBecome(calls, f, blocks', e)
    BY <1>1, <1>6 DEF MayBecome, StatementFunctions, OnStatements
  <2>2. QED BY <1>1, <1>2, <1>5, <2>1, Replacing
<1>9. BecomesElse(calls, mid, h, Ends(blocks[insert].code))
  <2>1. f.function \in HoldingFunctions
    BY <1>6 DEF HoldingFunctions
  <2>2. /\ Holders(mid) = Holders(calls) /\ mid[h] = f
        /\ \A k \in Holders(calls) : k # h => mid[k] = calls[k]
    BY <1>3, <1>8, <2>1 DEF Holding
  <2>3. f.thenTerminated = Ends(blocks[insert].code)
    BY <1>6, CurrentBlock DEF IsCurrentBlockTerminated, Terminated, Ends
  <2>4. QED BY <1>6, <2>2, <2>3 DEF BecomesElse
<1>10. ModuleInv(blocks', e, mid, declared) /\ ~Ends(blocks'[e].code)
  <2>1. ModuleInv(blocks', calls[h].else, mid, declared) /\ ~Ends(blocks'[calls[h].else].code)
    BY <1>1, <1>2, <1>3, <1>4, <1>9, ElseSide
  <2>2. QED BY <1>3, <2>1
<1>11. CASE calls' = mid
  BY <1>1, <1>8, <1>10, <1>11 DEF IInv
<1>12. CASE \E function \in {"LowerStatements", "LowerIf"} : IsPushed(mid, g(function), calls')
  <2>1. PICK function \in {"LowerStatements", "LowerIf"} : IsPushed(mid, g(function), calls')
    BY <1>12
  <2>2. /\ g(function).function \notin HoldingFunctions
        /\ mid # <<>> /\ Last(mid).function \in StatementFunctions
    BY <1>6, <1>8 DEF Holding, HoldingFunctions, StatementFunctions
  <2> HIDE DEF g
  <2>3. /\ StackInv(blocks', e, calls') /\ Holders(calls') = Holders(mid)
        /\ \A k \in Holders(mid) : calls'[k] = mid[k]
    BY <1>8, <1>10, <2>1, <2>2, Pushing
  <2>4. ModuleInv(blocks', e, calls', declared)
    BY <1>10, <2>3, SameHolders
  <2>5. QED BY <1>1, <2>3, <2>4 DEF IInv
<1>13. QED BY <1>7, <1>11, <1>12

LEMMA LowerMergeKeeps == IInv /\ LowerMerge => IInv'
<1> SUFFICES ASSUME IInv, LowerMerge PROVE IInv'
  OBVIOUS
<1> DEFINE h == Len(calls)
           frame == Last(calls)
           ended == BranchTo(frame.merge)
<1>1. /\ calls # <<>> /\ frame.function = "LowerIf else"
      /\ calls' = Front(calls) /\ declared' = declared
  BY DEF LowerMerge, Lowering, Return
<1>2. ModuleInv(blocks, insert, calls, declared) /\ StackInv(blocks, insert, calls)
  BY DEF IInv
<1>3. h \in Holders(calls) /\ calls[h] = frame /\ h # 1
  <2>1. h \in Holders(calls) /\ calls[h] = frame /\ h \in Nat /\ h > 1
    BY <1>1, <1>2, OnTop DEF HoldingFunctions
  <2>2. QED BY <2>1
<1>4. frame.function \in OnStatements
  BY <1>1 DEF OnStatements, StatementFunctions
<1>5. ASSUME NEW new, NEW to
      PROVE  StackInv(new, to, calls') /\ Releases(calls, calls', h)
  BY <1>1, <1>2, <1>3, <1>4, Popping
<1>6. ended = IF Ends(blocks[insert].code) THEN blocks
              ELSE Emit(blocks, insert, Br(calls[h].merge))
  BY <1>3, CurrentBlock DEF BranchTo
<1>7. CASE Merges(frame.thenTerminated)
  <2>1. blocks' = Place(ended, frame.merge) /\ insert' = frame.merge
    BY <1>7 DEF LowerMerge
  <2> HIDE DEF ended, h
  <2>2. ModuleInv(blocks', calls[h].merge, calls', declared)
    BY <1>1, <1>2, <1>3, <1>5, <1>6, <2>1, IfMerge
  <2>3. QED BY <1>1, <1>3, <1>5, <2>1, <2>2 DEF IInv
<1>8. CASE ~Merges(frame.thenTerminated)
  <2>1. blocks' = ended /\ insert' = insert
    BY <1>8 DEF LowerMerge
  <2>2. frame.thenTerminated /\ blocks' = blocks
    BY <1>6, <1>8, <2>1, CurrentBlock DEF Merges, IsCurrentBlockTerminated, Terminated, Ends
  <2> HIDE DEF ended, h
  <2>3. ModuleInv(blocks, insert, calls', declared)
    BY <1>1, <1>2, <1>3, <1>5, <2>2, NoMerge
  <2>4. QED BY <1>1, <1>5, <2>1, <2>2, <2>3 DEF IInv
<1>9. QED BY <1>7, <1>8

LEMMA LowerRhsKeeps == IInv /\ LowerRhs => IInv'
<1> SUFFICES ASSUME IInv, LowerRhs PROVE IInv'
  OBVIOUS
<1> DEFINE and == Last(calls).function = "LowerLogicalAnd"
           to == ShortCircuit(and)
           f == [function |-> IF and THEN "LowerLogicalAnd rhs" ELSE "LowerLogicalOr rhs",
                 rhs |-> Rhs, short |-> Short, merge |-> Merge,
                 path |-> path, truth |-> result.truth]
           ins == CondBr(result.value, to[1], to[2])
           code == IF and THEN <<>> ELSE <<Br(Merge)>>
           ended == Emit(blocks, insert, ins)
<1>1. /\ calls # <<>> /\ Last(calls).function \in {"LowerLogicalAnd", "LowerLogicalOr"}
      /\ blocks' = ended \o
           <<NewBlock(TRUE),
             IF and THEN NewBlock(TRUE) ELSE [NewBlock(TRUE) EXCEPT !.code = <<Br(Merge)>>],
             NewBlock(FALSE)>>
      /\ insert' = Rhs /\ calls' = Append(Front(calls), f) /\ declared' = declared
  BY DEF LowerRhs, Returned, Lowering
<1>2. ModuleInv(blocks, insert, calls, declared) /\ StackInv(blocks, insert, calls)
  BY DEF IInv
<1>3. AreNext(blocks, Rhs, Short, Merge)
  BY DEF AreNext, Rhs, Short, Merge
<1>4. IsForked(blocks, insert, ins, code, blocks')
  <2>1. (IF and THEN NewBlock(TRUE) ELSE [NewBlock(TRUE) EXCEPT !.code = <<Br(Merge)>>])
          = [code |-> code, placed |-> TRUE]
    BY DEF NewBlock
  <2> DEFINE second == IF and THEN NewBlock(TRUE)
                       ELSE [NewBlock(TRUE) EXCEPT !.code = <<Br(Merge)>>]
  <2>2. second = [code |-> code, placed |-> TRUE]
    BY <2>1
  <2>3. blocks' = ended \o <<NewBlock(TRUE), second, NewBlock(FALSE)>>
    BY <1>1
  <2> HIDE DEF second, and, code, ins
  <2>4. QED BY <2>2, <2>3 DEF IsForked
<1>5. IsReplaced(calls, f, calls')
  BY <1>1 DEF IsReplaced
<1>6. BeginsToHold(calls, f) /\ Holds(f, Short, Merge, code)
  BY <1>1 DEF Side, BeginsToHold, Holds
<1>7. Leads(ins, Rhs, Short)
  <2>1. to[1] = (IF and THEN Rhs ELSE Short) /\ to[2] = (IF and THEN Short ELSE Rhs)
    BY DEF ShortCircuit
  <2> HIDE DEF to
  <2>2. ins.op = "condbr" /\ Targets(ins) = {to[1], to[2]}
    BY Conditions
  <2>3. {to[1], to[2]} = {Rhs, Short}
    BY <2>1
  <2>4. QED BY <2>2, <2>3 DEF Leads
<1> HIDE DEF f, ins, code
<1>8. ModuleInv(blocks', Rhs, calls', declared) /\ StackInv(blocks', Rhs, calls')
  BY <1>1, <1>2, <1>3, <1>4, <1>5, <1>6, <1>7, Forking
<1>9. QED BY <1>1, <1>8 DEF IInv

LEMMA NotOne == \A n \in Nat : n > 1 => n # 1
  OBVIOUS

LEMMA MergeLogicalKeeps ==
  ASSUME IInv, calls # <<>>, NEW short,
         \/ Last(calls).function = "LowerLogicalAnd rhs" /\ short = Constant(FALSE)
         \/ Last(calls).function = "LowerLogicalOr rhs" /\ short = Constant(TRUE),
         MergeLogical(Last(calls), short)
  PROVE  IInv'
<1> DEFINE h == Len(calls)
           frame == Last(calls)
           ended == Emit(blocks, insert, Br(frame.merge))
           ins == Phi([b \in {frame.short, RhsExit(frame)} |->
                         IF b = frame.short THEN short ELSE result.value])
<1>1. short = Constant(TRUE) <=> frame.function = "LowerLogicalOr rhs"
  <2>1. Constant(TRUE) # Constant(FALSE)
    BY DEF Constant
  <2>2. QED BY <2>1
<1>2. /\ IsMerged(blocks, insert, frame, ins, blocks')
      /\ insert' = frame.merge /\ calls' = Front(calls) /\ declared' = declared
  BY <1>1 DEF MergeLogical, IsMerged, Return
<1>3. ins.op = "phi" /\ DOMAIN ins.incoming = {frame.short, insert}
  BY DEF Phi, RhsExit
<1>4. ModuleInv(blocks, insert, calls, declared) /\ StackInv(blocks, insert, calls)
  BY DEF IInv
<1>5. /\ frame.function \in {"LowerLogicalAnd rhs", "LowerLogicalOr rhs"}
      /\ frame.function \notin StatementFunctions
  BY DEF StatementFunctions
<1>6. h \in Holders(calls) /\ calls[h] = frame /\ h # 1 /\ ~Ends(blocks[insert].code)
  <2>1. /\ h \in Holders(calls) /\ calls[h] = frame /\ h \in Nat /\ h > 1
        /\ ~Ends(blocks[insert].code)
    BY <1>4, <1>5, OnTop DEF HoldingFunctions
  <2> HIDE DEF h
  <2>2. h # 1
    BY <2>1, NotOne
  <2>3. QED BY <2>1, <2>2
<1> HIDE DEF h, frame, ins
<1>7. ~Ends(blocks'[frame.merge].code) => /\ StackInv(blocks', frame.merge, calls')
                                          /\ Releases(calls, calls', h)
  BY <1>2, <1>4, <1>6, Popping DEF h
<1>8. Releases(calls, calls', h)
  <2>1. ASSUME NEW new, NEW to, ~Ends(new[to].code) PROVE Releases(calls, calls', h)
    BY <1>2, <1>4, <1>6, <2>1, Popping DEF h
  <2>2. ~Ends(blocks[insert].code)
    BY <1>6
  <2>3. QED BY <2>1, <2>2
<1>9. ModuleInv(blocks', frame.merge, calls', declared) /\ ~Ends(blocks'[frame.merge].code)
  BY <1>2, <1>3, <1>4, <1>5, <1>6, <1>8, LogicalMerge
<1>10. QED BY <1>2, <1>7, <1>9 DEF IInv

LEMMA EmitDefaultReturnKeeps == IInv /\ EmitDefaultReturnIfNeeded => IInv'
<1> SUFFICES ASSUME IInv, EmitDefaultReturnIfNeeded PROVE IInv'
  OBVIOUS
<1>1. /\ calls # <<>> /\ Last(calls).function = "LowerStatements" /\ Len(calls) = 1
      /\ blocks' = IF Ends(blocks[insert].code) THEN blocks
                   ELSE Emit(blocks, insert, Ret(declared))
      /\ calls' = Front(calls) /\ UNCHANGED <<insert, declared>>
  BY CurrentBlock DEF EmitDefaultReturnIfNeeded, Lowering, Return, NeedsDefaultReturn
<1>2. ModuleInv(blocks, insert, calls, declared) /\ StackInv(blocks, insert, calls)
  BY DEF IInv
<1>3. ModuleInv(blocks', insert, calls, declared) /\ Ends(blocks'[insert].code)
  BY <1>1, <1>2, ReturnEmitted
<1>4. /\ Last(calls).function \in OnStatements
      /\ Len(calls) \notin Holders(calls)
  BY <1>1, <1>2, OnTop DEF OnStatements, StatementFunctions, HoldingFunctions
<1>5. StackInv(blocks', insert, calls') /\ Releases(calls, calls', Len(calls))
  BY <1>1, <1>2, <1>3, <1>4, Popping
<1>6. ModuleInv(blocks', insert, calls', declared)
  BY <1>3, <1>4, <1>5, SameHolders DEF Releases
<1>7. QED BY <1>1, <1>5, <1>6 DEF IInv

LEMMA NextKeeps == IInv /\ [Next]_vars => IInv'
<1> SUFFICES ASSUME IInv, [Next]_vars PROVE IInv'
  OBVIOUS
<1>1. CASE UNCHANGED <<blocks, insert, calls, declared>>
  BY <1>1 DEF IInv
<1>2. CASE SkipStatement
  BY <1>1, <1>2 DEF SkipStatement
<1>3. CASE LowerLogicalAnd
  <2>1. calls # <<>> /\ Last(calls).function = "LowerLogicalAnd rhs"
        /\ MergeLogical(Last(calls), Constant(FALSE))
    BY <1>3 DEF LowerLogicalAnd, Returned, Lowering
  <2>2. QED BY <2>1, MergeLogicalKeeps
<1>4. CASE LowerLogicalOr
  <2>1. calls # <<>> /\ Last(calls).function = "LowerLogicalOr rhs"
        /\ MergeLogical(Last(calls), Constant(TRUE))
    BY <1>4 DEF LowerLogicalOr, Returned, Lowering
  <2>2. QED BY <2>1, MergeLogicalKeeps
<1>5. CASE Ended
  BY <1>1, <1>5 DEF Ended, vars
<1>6. CASE UNCHANGED vars
  BY <1>1, <1>6 DEF vars
<1>7. QED
  BY <1>2, <1>3, <1>4, <1>5, <1>6, LowerSimpleKeeps, LowerBlockKeeps, LowerWithExpressionKeeps,
     EndStatementsKeeps, StoreKeeps, LowerReturnKeeps, LowerReturnValueKeeps, LowerThenKeeps,
     LowerElseKeeps, LowerMergeKeeps, LowerOperandKeeps, LowerLogicalKeeps, LowerRhsKeeps,
     EmitDefaultReturnKeeps
  DEF Next

-----------------------------------------------------------------------------
(* What the invariant means once the function is lowered *)

LEMMA IInvVerifies == IInv => VerifyModule
<1> SUFFICES ASSUME IInv, Lowered PROVE VerifyModule
  BY DEF VerifyModule
<1>1. ModuleInv(blocks, insert, calls, declared) /\ StackInv(blocks, insert, calls)
  BY DEF IInv
<1>2. Ends(blocks[insert].code) /\ Holders(calls) = {}
  <2>1. calls = <<>>
    BY DEF Lowered
  <2>2. DOMAIN calls = {}
    BY <2>1
  <2>3. QED BY <1>1, <2>1, <2>2 DEF StackInv, Holders
<1>3. /\ \A b \in DOMAIN blocks : WellFormed(blocks[b].code, declared)
      /\ \A b \in DOMAIN blocks : blocks[b].placed \in BOOLEAN
      /\ \A b \in DOMAIN blocks : IsCode(blocks[b].code)
  BY <1>1, ModuleFacts DEF ModuleInv, CodeInv
<1>4. \A b \in Placed : Ends(blocks[b].code)
  BY <1>1, <1>2, <1>3 DEF ModuleInv, OpenInv, Placed
<1>5. \A p \in DOMAIN blocks : \A t \in To(blocks[p].code) : t \in Placed
  BY <1>1, <1>2, <1>3 DEF ModuleInv, BranchInv, Placed
<1>6. \A p \in DOMAIN blocks : p \notin Placed => blocks[p].code = <<>>
  BY <1>1, <1>3 DEF ModuleInv, CodeInv, Placed
<1>7. ASSUME NEW b PROVE Predecessors(b) = {p \in DOMAIN blocks : b \in To(blocks[p].code)}
  <2>1. ASSUME NEW p \in DOMAIN blocks
        PROVE  b \in To(blocks[p].code) <=> p \in Predecessors(b)
    <3>1. CASE p \in Placed
      BY <1>4, <3>1 DEF Predecessors, To, Targets, Terminated, Ends
    <3>2. CASE p \notin Placed
      BY <1>6, <3>2, EmptyCode DEF Predecessors
    <3>3. QED BY <3>1, <3>2
  <2>2. Predecessors(b) \subseteq DOMAIN blocks
    BY DEF Predecessors, Placed
  <2>3. QED BY <2>1, <2>2
<1>8. ASSUME NEW b \in Placed
      PROVE  LET code == blocks[b].code
             IN  /\ Terminated(b)
                 /\ ~\E i \in 1..(Len(code) - 1) : IsTerminator(code[i])
                 /\ \A i \in DOMAIN Last(code).to : Last(code).to[i] \in Placed
                 /\ \A i \in DOMAIN code : code[i].op = "phi" =>
                      i = 1 /\ DOMAIN code[i].incoming = Predecessors(b)
                 /\ Last(code).op = "ret" => (Last(code).valued <=> declared)
  <2> DEFINE code == blocks[b].code
  <2>1. /\ WellFormed(code, declared) /\ IsCode(code) /\ Ends(code) /\ b \in DOMAIN blocks
        /\ \A t \in To(code) : t \in Placed
        /\ HasPhi(code) => DOMAIN code[1].incoming = Predecessors(b)
    BY <1>1, <1>3, <1>4, <1>5, <1>7 DEF Placed, ModuleInv, PhiInv
  <2>2. Terminated(b)
    BY <2>1 DEF Terminated, Ends
  <2> HIDE DEF code
  <2>3. /\ Len(code) \in Nat /\ DOMAIN code = 1..Len(code) /\ code # <<>> /\ Len(code) > 0
        /\ Last(code) = code[Len(code)]
    BY <2>1, StackFacts DEF IsCode, IsStack, Ends
  <2>4. \A i \in DOMAIN code : Fits(code, i, declared)
    BY <2>1, <2>3 DEF WellFormed
  <2>5. ~\E i \in 1..(Len(code) - 1) : IsTerminator(code[i])
    BY <2>3, <2>4 DEF Fits
  <2>6. \A i \in DOMAIN Last(code).to : Last(code).to[i] \in Placed
    BY <2>1 DEF To, Targets
  <2>7. ASSUME NEW i \in DOMAIN code, code[i].op = "phi"
        PROVE  i = 1 /\ DOMAIN code[i].incoming = Predecessors(b)
    <3>1. i = 1
      BY <2>4, <2>7 DEF Fits
    <3>2. HasPhi(code)
      BY <2>3, <2>7, <3>1 DEF HasPhi
    <3>3. QED BY <2>1, <3>1, <3>2
  <2>8. Last(code).op = "ret" => (Last(code).valued <=> declared)
    <3>1. Fits(code, Len(code), declared)
      BY <2>3, <2>4
    <3>2. QED BY <2>3, <3>1 DEF Fits, Returns
  <2>9. QED BY <2>2, <2>5, <2>6, <2>7, <2>8 DEF code
<1>9. QED BY <1>8 DEF VerifyModule

-----------------------------------------------------------------------------
(* Runs of the blocks *)

\* What the code of a block does in a run, got to as at: its phis, and where it leads.
PhisOf(code, run, at) ==
  IF HasPhi(code)
    THEN [b \in {at.block} \cup DOMAIN at.phis |->
            IF b = at.block THEN Evaluate(run, at.phis, code[1].incoming[at.from])
                            ELSE at.phis[b]]
    ELSE at.phis
GoesSecond(code, run, phis) == Last(code).op = "condbr" /\ ~Evaluate(run, phis, Last(code).on)
NextOf(code, run, at) ==
  [block |-> IF GoesSecond(code, run, PhisOf(code, run, at)) THEN Last(code).to[2]
             ELSE Last(code).to[1],
   from |-> at.block, phis |-> PhisOf(code, run, at)]
EndsRun(code) == ~Ends(code) \/ Last(code).op = "ret"

\* The beginning of a run, and a run as far as it goes.
Beginning == [block |-> 1, from |-> 0, phis |-> <<>>]
IsPath(bs, run, w) ==
  /\ IsStack(w) /\ w # <<>> /\ w[1] = Beginning
  /\ \A i \in DOMAIN w : w[i].block \in DOMAIN bs
  /\ \A i \in DOMAIN w : i # Len(w) =>
       /\ ~EndsRun(bs[w[i].block].code)
       /\ w[i + 1] = NextOf(bs[w[i].block].code, run, w[i])
  /\ \A i, j \in DOMAIN w : i # j => w[i].block # w[j].block
IsRun(bs, run, w) == IsPath(bs, run, w) /\ EndsRun(bs[Last(w).block].code)

\* The events of every block of a run, and the events of the run.
EventsAt(bs, w) == [i \in DOMAIN w |-> Events(bs[w[i].block].code)]
TraceOf(bs, w) == FlattenSeq(EventsAt(bs, w))

-----------------------------------------------------------------------------
(* Where the runs are *)

RhsFunctions == {"LowerLogicalAnd rhs", "LowerLogicalOr rhs"}
\* The runs that evaluate the right operand, and those that do not.
Goes(f) == IF f.function = "LowerLogicalAnd rhs" THEN f.path \cap f.truth ELSE f.path \ f.truth
\* The runs that wait for f to come back to a block it holds, and that block.
Waits(f) ==
  CASE f.function = "LowerIf then" -> f.elsePath
    [] f.function = "LowerIf else" -> f.thenPath
    [] f.function = "LowerLogicalAnd rhs" -> f.path \ f.truth
    [] f.function = "LowerLogicalOr rhs" -> f.path \cap f.truth
WaitsAt(f) ==
  IF f.function \in {"LowerIf else", "LowerLogicalOr rhs"} THEN f.merge ELSE Side(f)

HolderHas(run, here, f) ==
  /\ here.block \in Held(f) => here.block = WaitsAt(f)
  /\ run \in Waits(f) <=> here.block = WaitsAt(f)
  /\ f.function = "LowerIf else" /\ f.thenTerminated => run \notin f.thenPath
  /\ f.function = "LowerLogicalOr rhs" /\ here.block = f.merge => here.from = f.short
Situated(bs, at, cs, pth, run, here) ==
  /\ run \in pth <=> here.block = at /\ ~Ends(bs[at].code)
  /\ \A h \in Holders(cs) :
       /\ HolderHas(run, here, cs[h])
       /\ cs[h].function \in RhsFunctions =>
            (run \in Goes(cs[h]) <=>
               run \in pth \/ \E k \in Holders(cs) : k > h /\ run \in Waits(cs[k]))
\* A value is that of the expression it was made of.
HasValue(bs, run, here, res) ==
  ~res.none =>
    (Evaluate(run, PhisOf(bs[here.block].code, run, here), res.value) <=> run \in res.truth)

-----------------------------------------------------------------------------
(* Events *)

LEMMA EventsEmpty == Events(<<>>) = <<>>
<1> DEFINE picks == [i \in DOMAIN <<>> |->
                       IF <<>>[i].op = "event" THEN <<<<>>[i].id>> ELSE <<>>]
<1>1. picks = <<>>
  OBVIOUS
<1>2. Events(<<>>) = FlattenSeq(picks)
  BY DEF Events
<1> HIDE DEF picks
<1>3. QED BY <1>1, <1>2, FlattenEmpty

\* What an instruction adds to the events of a block.
EventOf(ins) == IF ins.op = "event" THEN <<ins.id>> ELSE <<>>

LEMMA EventsAppended ==
  ASSUME NEW code, IsCode(code), NEW ins
  PROVE  /\ \E S : Events(code) \in Seq(S)
         /\ Events(Append(code, ins)) = Events(code) \o EventOf(ins)
<1>1. PICK T : code \in Seq(T)
  BY DEF IsCode
<1> DEFINE n == Len(code)
           new == Append(code, ins)
           S == {code[i].id : i \in 1..n} \cup {ins.id}
           V == Seq(S)
           picks(c) == [i \in DOMAIN c |-> EventOf(c[i])]
<1>2. /\ n \in Nat /\ DOMAIN code = 1..n /\ DOMAIN new = 1..(n + 1)
      /\ \A i \in 1..n : new[i] = code[i]
      /\ new[n + 1] = ins
  <2> DEFINE U == T \cup {ins}
  <2>1. code \in Seq(U) /\ ins \in U
    BY <1>1
  <2> HIDE DEF U
  <2>2. QED BY <2>1, AppendType, Elements
<1>3. EventOf(ins) \in V /\ \A i \in 1..n : EventOf(code[i]) \in V
  <2>1. ins.id \in S /\ \A i \in 1..n : code[i].id \in S
    OBVIOUS
  <2> HIDE DEF S
  <2>2. <<>> \in V /\ \A x \in S : <<x>> \in V
    OBVIOUS
  <2> HIDE DEF V
  <2>3. QED BY <2>1, <2>2 DEF EventOf
<1> HIDE DEF V, n, new
<1>4. picks(code) \in Seq(V) /\ Len(picks(code)) = n
  <2>1. picks(code) \in [1..n -> V]
    BY <1>2, <1>3
  <2>2. QED BY <1>2, <2>1
<1>5. picks(new) = Append(picks(code), EventOf(ins))
  <2>1. DOMAIN picks(new) = 1..(n + 1)
    BY <1>2
  <2>2. \A i \in 1..n : picks(new)[i] = picks(code)[i]
    BY <1>2
  <2>3. picks(new)[n + 1] = EventOf(ins)
    BY <1>2
  <2> HIDE DEF picks
  <2>4. picks(new) \in Seq(V)
    <3>1. \A i \in 1..n : picks(code)[i] \in V
      BY <1>4, Elements
    <3>2. picks(new) = [i \in 1..(n + 1) |-> EventOf(new[i])]
      BY <1>2 DEF picks
    <3>3. \A i \in 1..(n + 1) : EventOf(new[i]) \in V
      BY <1>2, <1>3
    <3>4. picks(new) \in [1..(n + 1) -> V]
      BY <3>2, <3>3
    <3>5. QED BY <1>2, <3>4
  <2>5. QED BY <1>2, <1>3, <1>4, <2>1, <2>2, <2>3, <2>4
<1>6. Events(code) = FlattenSeq(picks(code)) /\ Events(new) = FlattenSeq(picks(new))
  BY DEF Events, EventOf
<1> HIDE DEF picks, S
<1>7. /\ FlattenSeq(picks(code)) \in Seq(S)
      /\ FlattenSeq(Append(picks(code), EventOf(ins))) = FlattenSeq(picks(code)) \o EventOf(ins)
  BY <1>3, <1>4, FlattenAppend DEF V
<1>8. QED BY <1>5, <1>6, <1>7 DEF new

-----------------------------------------------------------------------------
(* Runs of growing blocks *)

\* The blocks that have ended stay as they are.
Grows(bs, new) ==
  /\ DOMAIN bs \subseteq DOMAIN new
  /\ \A b \in DOMAIN bs : Ends(bs[b].code) => new[b].code = bs[b].code

LEMMA GrowsOn ==
  ASSUME NEW bs, NEW mid, NEW new, Grows(bs, mid), Grows(mid, new)
  PROVE  Grows(bs, new)
BY DEF Grows

LEMMA PathFacts ==
  ASSUME NEW bs, NEW run, NEW w, IsPath(bs, run, w)
  PROVE  /\ Len(w) \in Nat /\ Len(w) > 0 /\ DOMAIN w = 1..Len(w) /\ Len(w) \in DOMAIN w
         /\ Last(w) = w[Len(w)] /\ Last(w).block \in DOMAIN bs
         /\ \A i \in DOMAIN w : i # Len(w) => Ends(bs[w[i].block].code)
         /\ \A i \in DOMAIN w : i # Len(w) => w[i].block # Last(w).block
<1>1. /\ Len(w) \in Nat /\ Len(w) > 0 /\ DOMAIN w = 1..Len(w) /\ Len(w) \in DOMAIN w
      /\ Last(w) = w[Len(w)]
  BY StackFacts DEF IsPath
<1>2. QED BY <1>1 DEF IsPath, EndsRun

LEMMA PathGrows ==
  ASSUME NEW bs, NEW new, Grows(bs, new), NEW run, NEW w, IsPath(bs, run, w)
  PROVE  IsPath(new, run, w)
<1>1. \A i \in DOMAIN w : i # Len(w) =>
        w[i].block \in DOMAIN bs /\ new[w[i].block].code = bs[w[i].block].code
  BY PathFacts DEF IsPath, Grows
<1>2. QED BY <1>1 DEF IsPath, Grows

\* A run goes on to a block it has not been in.
LEMMA PathGoesOn ==
  ASSUME NEW bs, NEW run, NEW w, IsPath(bs, run, w), ~EndsRun(bs[Last(w).block].code),
         NEW next, next = NextOf(bs[Last(w).block].code, run, Last(w)),
         next.block \in DOMAIN bs, \A i \in DOMAIN w : w[i].block # next.block
  PROVE  IsPath(bs, run, Append(w, next)) /\ Last(Append(w, next)) = next
<1> DEFINE new == Append(w, next)
           n == Len(w)
<1>1. /\ IsStack(new) /\ Len(new) = n + 1 /\ DOMAIN new = 1..(n + 1)
      /\ \A i \in DOMAIN w : new[i] = w[i]
      /\ new[n + 1] = next
  BY Pushed DEF IsPath
<1>2. n \in Nat /\ n > 0 /\ DOMAIN w = 1..n /\ Last(w) = w[n] /\ n \in DOMAIN w
  BY PathFacts
<1>3. new # <<>> /\ Last(new) = next /\ new[1] = w[1]
  <2>1. Len(new) # 0 /\ 1 \in DOMAIN w
    BY <1>1, <1>2
  <2>2. new # <<>> /\ Last(new) = new[Len(new)]
    BY <1>1, <2>1, StackFacts
  <2>3. QED BY <1>1, <2>1, <2>2
<1> HIDE DEF new, n
<1>4. \A i \in DOMAIN new : i \in DOMAIN w \/ i = n + 1
  BY <1>1, <1>2
<1>5. ASSUME NEW i \in DOMAIN new, i # Len(new)
      PROVE  /\ ~EndsRun(bs[new[i].block].code)
             /\ new[i + 1] = NextOf(bs[new[i].block].code, run, new[i])
  <2>1. i \in DOMAIN w
    BY <1>1, <1>4, <1>5
  <2>2. CASE i = n
    BY <1>1, <1>2, <2>1, <2>2
  <2>3. CASE i # n
    <3>1. i + 1 \in DOMAIN w
      BY <1>2, <2>1, <2>3
    <3>2. new[i + 1] = w[i + 1] /\ new[i] = w[i]
      BY <1>1, <2>1, <3>1
    <3>3. QED BY <2>1, <2>3, <3>2 DEF IsPath, n
  <2>4. QED BY <2>2, <2>3
<1>6. \A i \in DOMAIN new : new[i].block \in DOMAIN bs
  BY <1>1, <1>4 DEF IsPath
<1>7. \A i, j \in DOMAIN new : i # j => new[i].block # new[j].block
  BY <1>1, <1>4 DEF IsPath
<1>8. IsPath(bs, run, new)
  BY <1>1, <1>3, <1>5, <1>6, <1>7 DEF IsPath
<1>9. QED BY <1>3, <1>8 DEF new

\* The events of a path, of which those of a block are an element.
HasEvents(bs, w, t) == EventsAt(bs, w) \in Seq(Seq(Nat)) /\ TraceOf(bs, w) = t

LEMMA EventsAreNumbers ==
  ASSUME NEW bs, NEW w, NEW t, HasEvents(bs, w, t)
  PROVE  t \in Seq(Nat)
<1> DEFINE V == Seq(Nat)
           s == EventsAt(bs, w)
<1>1. s \in Seq(V) /\ FlattenSeq(s) = t
  BY DEF HasEvents, TraceOf
<1> HIDE DEF s
<1>2. FlattenSeq(s) \in Seq(Nat)
  <2>1. <<>> \in V
    OBVIOUS
  <2>2. QED BY <1>1, <2>1, FlattenAppend
<1>3. QED BY <1>1, <1>2

LEMMA EventsKept ==
  ASSUME NEW bs, NEW new, NEW run, NEW w, IsPath(bs, run, w), NEW t, HasEvents(bs, w, t),
         \A b \in DOMAIN bs : Events(new[b].code) = Events(bs[b].code)
  PROVE  HasEvents(new, w, t)
<1>1. \A i \in DOMAIN w : Events(new[w[i].block].code) = Events(bs[w[i].block].code)
  BY DEF IsPath
<1>2. EventsAt(new, w) = EventsAt(bs, w)
  BY <1>1 DEF EventsAt
<1>3. QED BY <1>2 DEF HasEvents, TraceOf

LEMMA EventsGoOn ==
  ASSUME NEW bs, NEW run, NEW w, IsPath(bs, run, w), NEW t, HasEvents(bs, w, t),
         NEW next, Events(bs[next.block].code) = <<>>
  PROVE  HasEvents(bs, Append(w, next), t)
<1> DEFINE new == Append(w, next)
           n == Len(w)
           V == Seq(Nat)
           old == EventsAt(bs, w)
           events == EventsAt(bs, new)
<1>1. /\ n \in Nat /\ DOMAIN w = 1..n /\ DOMAIN new = 1..(n + 1)
      /\ \A i \in DOMAIN w : new[i] = w[i]
      /\ new[n + 1] = next
  BY PathFacts, Pushed DEF IsPath
<1>2. <<>> \in V /\ old \in Seq(V) /\ FlattenSeq(old) = t
  BY DEF HasEvents, TraceOf
<1> HIDE DEF new, n, V
<1>3. DOMAIN old = 1..n /\ DOMAIN events = 1..(n + 1)
  BY <1>1 DEF EventsAt
<1>4. (\A i \in 1..n : events[i] = old[i]) /\ events[n + 1] = <<>>
  BY <1>1 DEF EventsAt
<1>5. events = [i \in DOMAIN events |-> events[i]]
  BY DEF EventsAt
<1> HIDE DEF old, events
<1>6. events = Append(old, <<>>) /\ events \in Seq(V)
  <2>1. Len(old) = n /\ \A i \in 1..n : old[i] \in V
    BY <1>1, <1>2, <1>3, Elements
  <2>2. \A i \in 1..(n + 1) : events[i] \in V
    BY <1>1, <1>2, <1>4, <2>1
  <2>3. events \in [1..(n + 1) -> V]
    BY <1>3, <1>5, <2>2
  <2>4. events \in Seq(V)
    BY <1>1, <2>3
  <2>5. QED BY <1>1, <1>2, <1>3, <1>4, <2>1, <2>4
<1>7. FlattenSeq(events) = t
  <2>1. FlattenSeq(old) \in Seq(Nat) /\ FlattenSeq(events) = FlattenSeq(old) \o <<>>
    BY <1>2, <1>6, FlattenAppend DEF V
  <2>2. QED BY <1>2, <2>1, ConcatEmptySeq
<1>8. QED BY <1>6, <1>7 DEF HasEvents, TraceOf, events, new, V

\* One more event, where the run has got to.
LEMMA EventAdded ==
  ASSUME NEW bs, NEW run, NEW w, IsPath(bs, run, w), NEW t, HasEvents(bs, w, t),
         NEW new, NEW e \in Nat,
         Events(new[Last(w).block].code) = Events(bs[Last(w).block].code) \o <<e>>,
         \A b \in DOMAIN bs :
           b # Last(w).block => Events(new[b].code) = Events(bs[b].code)
  PROVE  HasEvents(new, w, t \o <<e>>)
<1> DEFINE n == Len(w)
           V == Seq(Nat)
           old == EventsAt(bs, w)
           events == EventsAt(new, w)
<1>1. /\ n \in Nat /\ n > 0 /\ DOMAIN w = 1..n /\ Last(w) = w[n] /\ n \in DOMAIN w
      /\ \A i \in DOMAIN w : i # n => w[i].block # Last(w).block
      /\ \A i \in DOMAIN w : w[i].block \in DOMAIN bs
  BY ZenonT(60), PathFacts DEF IsPath
<1>2. <<e>> \in V /\ old \in Seq(V) /\ FlattenSeq(old) = t
  BY DEF HasEvents, TraceOf
<1>3. DOMAIN old = 1..n /\ DOMAIN events = 1..n
  BY <1>1 DEF EventsAt
<1> HIDE DEF n
<1>4. (\A i \in 1..n : i # n => events[i] = old[i]) /\ events[n] = old[n] \o <<e>>
  <2>1. ASSUME NEW i \in 1..n, i # n PROVE events[i] = old[i]
    <3>1. w[i].block \in DOMAIN bs /\ w[i].block # Last(w).block
      BY <1>1, <2>1
    <3>2. Events(new[w[i].block].code) = Events(bs[w[i].block].code)
      BY <3>1
    <3>3. QED BY <1>1, <3>2 DEF EventsAt
  <2>2. events[n] = old[n] \o <<e>>
    BY <1>1 DEF EventsAt
  <2>3. QED BY <2>1, <2>2
<1>5. events = [i \in DOMAIN events |-> events[i]]
  BY DEF EventsAt
<1> HIDE DEF V, old, events
<1>6. /\ events \in Seq(V) /\ Len(events) = n /\ Len(old) = n /\ old # <<>>
      /\ \A i \in 1..(n - 1) : events[i] = old[i]
  <2>1. Len(old) = n /\ \A i \in 1..n : old[i] \in V
    BY <1>1, <1>2, <1>3, Elements
  <2>2. old[n] \o <<e>> \in V
    <3>1. old[n] \in Seq(Nat) /\ <<e>> \in Seq(Nat)
      BY <1>1, <2>1 DEF V
    <3>2. QED BY <3>1, ConcatProperties DEF V
  <2>3. \A i \in 1..n : events[i] \in V
    BY <1>4, <2>1, <2>2
  <2>4. events \in [1..n -> V]
    BY <1>3, <1>5, <2>3
  <2>5. events \in Seq(V)
    BY <1>1, <2>4
  <2>6. Len(events) = n
    BY <1>1, <1>3, <2>5
  <2>7. \A i \in 1..(n - 1) : i \in 1..n /\ i # n
    BY <1>1
  <2>8. QED BY <1>1, <1>4, <2>1, <2>5, <2>6, <2>7
<1>7. FlattenSeq(events) = t \o <<e>>
  <2>1. old \in Seq(V) /\ events \in Seq(V) /\ old # <<>> /\ <<e>> \in V
    BY <1>2, <1>6
  <2>2. EndsLonger(old, events, <<e>>)
    BY <1>4, <1>6 DEF EndsLonger
  <2>3. AreSequences(V, Nat)
    BY DEF AreSequences, V
  <2>4. FlattenSeq(events) = FlattenSeq(old) \o <<e>>
    BY <2>1, <2>2, <2>3, FlattenLonger
  <2>5. QED BY <1>2, <2>4
<1>8. QED BY <1>6, <1>7 DEF HasEvents, TraceOf, events, V

-----------------------------------------------------------------------------
(* What a step does to the run so far *)

\* What code does, got to as at, is what it did before ins was emitted at its end.
IsAdded(bs, b, ins, new) ==
  /\ DOMAIN new = DOMAIN bs
  /\ \A c \in DOMAIN bs : c # b => new[c] = bs[c]
  /\ Last(new[b].code) = ins /\ (Ends(new[b].code) <=> IsTerminator(ins))
  /\ \A run, at : PhisOf(new[b].code, run, at) = PhisOf(bs[b].code, run, at)
  /\ Events(new[b].code) = IF ins.op = "event" THEN Events(bs[b].code) \o <<ins.id>>
                           ELSE Events(bs[b].code)

LEMMA LastAdded ==
  ASSUME NEW code, IsCode(code), NEW ins
  PROVE  Last(Append(code, ins)) = ins
<1>1. PICK S : code \in Seq(S)
  BY DEF IsCode
<1> DEFINE T == S \cup {ins}
           new == Append(code, ins)
<1>2. code \in Seq(T) /\ ins \in T
  BY <1>1
<1> HIDE DEF T
<1>3. /\ new \in Seq(T) /\ Len(new) = Len(code) + 1 /\ Len(code) \in Nat
      /\ new[Len(code) + 1] = ins
  BY <1>2, AppendType, LenProperties
<1>4. QED BY <1>3 DEF Last

LEMMA NoMoreEvents ==
  ASSUME NEW S, NEW s \in Seq(S)
  PROVE  s \o <<>> = s
  BY ConcatEmptySeq

LEMMA AddedTo ==
  ASSUME NEW bs, NEW d, CodeInv(bs, d), NEW b \in DOMAIN bs, bs[b].placed = TRUE,
         ~Ends(bs[b].code), NEW ins, ins.op # "phi", Returns(ins, d),
         NEW new, new = Emit(bs, b, ins)
  PROVE  CodeInv(new, d) /\ IsAdded(bs, b, ins, new) /\ new[b].placed = TRUE
<1>1. CodeInv(new, d) /\ IsEmission(bs, b, ins, new)
  BY EmittedCode
<1>2. IsModule(bs) /\ IsCode(bs[b].code) /\ new[b].code = Append(bs[b].code, ins)
  BY Emitted, ModuleFacts DEF CodeInv
<1>3. Last(new[b].code) = ins
  BY <1>2, LastAdded
<1>4. /\ DOMAIN new = DOMAIN bs /\ \A c \in DOMAIN bs : c # b => new[c] = bs[c]
      /\ (Ends(new[b].code) <=> IsTerminator(ins)) /\ new[b].placed = TRUE
      /\ HasPhi(new[b].code) <=> HasPhi(bs[b].code)
      /\ HasPhi(bs[b].code) => new[b].code[1] = bs[b].code[1]
  BY <1>1 DEF IsEmission
<1>5. ASSUME NEW run, NEW at
      PROVE  PhisOf(new[b].code, run, at) = PhisOf(bs[b].code, run, at)
  <2>1. CASE HasPhi(bs[b].code)
    <3>1. HasPhi(new[b].code) /\ new[b].code[1] = bs[b].code[1]
      BY <1>4, <2>1
    <3>2. QED BY <2>1, <3>1 DEF PhisOf
  <2>2. CASE ~HasPhi(bs[b].code)
    BY <1>4, <2>2 DEF PhisOf
  <2>3. QED BY <2>1, <2>2
<1>6. /\ \E S : Events(bs[b].code) \in Seq(S)
      /\ Events(new[b].code) = Events(bs[b].code) \o EventOf(ins)
  BY <1>2, EventsAppended
<1>7. Events(bs[b].code) \o <<>> = Events(bs[b].code)
  BY <1>6, NoMoreEvents
<1>8. QED BY <1>1, <1>3, <1>4, <1>5, <1>6, <1>7 DEF IsAdded, EventOf

\* Nothing of what the blocks of bs do is changed but where the runs end.
GoesOn(bs, new) ==
  Grows(bs, new) /\ \A b \in DOMAIN bs : Events(new[b].code) = Events(bs[b].code)

LEMMA GoesOnOn ==
  ASSUME NEW bs, NEW mid, NEW new, GoesOn(bs, mid), GoesOn(mid, new)
  PROVE  GoesOn(bs, new)
BY DEF GoesOn, Grows

LEMMA AddedGoesOn ==
  ASSUME NEW bs, NEW b, ~Ends(bs[b].code), NEW ins, NEW new, IsAdded(bs, b, ins, new)
  PROVE  /\ Grows(bs, new)
         /\ ins.op # "event" => GoesOn(bs, new)
<1>1. Grows(bs, new)
  BY DEF IsAdded, Grows
<1>2. ASSUME ins.op # "event", NEW c \in DOMAIN bs
      PROVE  Events(new[c].code) = Events(bs[c].code)
  BY <1>2 DEF IsAdded
<1>3. QED BY <1>1, <1>2 DEF GoesOn

\* The events of run, in w, are t.
Follows(bs, run, w, t) == IsRun(bs, run, w) /\ HasEvents(bs, w, t)
FollowsTo(bs, run, w, t) == IsPath(bs, run, w) /\ HasEvents(bs, w, t)

LEMMA RunStays ==
  ASSUME NEW bs, NEW run, NEW w, NEW t, FollowsTo(bs, run, w, t),
         NEW new, GoesOn(bs, new), EndsRun(new[Last(w).block].code)
  PROVE  Follows(new, run, w, t)
<1>1. IsPath(new, run, w)
  BY PathGrows DEF FollowsTo, GoesOn
<1>2. HasEvents(new, w, t)
  BY EventsKept DEF FollowsTo, GoesOn
<1>3. QED BY <1>1, <1>2 DEF Follows, IsRun

\* The path w has not been to block b.
IsFresh(bs, w, b) == b \notin DOMAIN bs \/ (~Ends(bs[b].code) /\ b # Last(w).block)

LEMMA RunGoesOn ==
  ASSUME NEW bs, NEW run, NEW w, NEW t, FollowsTo(bs, run, w, t),
         NEW new, GoesOn(bs, new), ~EndsRun(new[Last(w).block].code),
         NEW next, next = NextOf(new[Last(w).block].code, run, Last(w)),
         next.block \in DOMAIN new, IsFresh(bs, w, next.block),
         Events(new[next.block].code) = <<>>
  PROVE  /\ FollowsTo(new, run, Append(w, next), t)
         /\ Last(Append(w, next)) = next
<1>1. IsPath(new, run, w) /\ IsPath(bs, run, w)
  BY PathGrows DEF FollowsTo, GoesOn
<1>2. HasEvents(new, w, t)
  BY EventsKept DEF FollowsTo, GoesOn
<1>3. ASSUME NEW i \in DOMAIN w PROVE w[i].block # next.block
  <2>1. w[i].block \in DOMAIN bs
    BY <1>1 DEF IsPath
  <2>2. Last(w) = w[Len(w)] /\ (i # Len(w) => Ends(bs[w[i].block].code))
    BY <1>1, PathFacts
  <2>3. QED BY <2>1, <2>2 DEF IsFresh
<1>4. IsPath(new, run, Append(w, next)) /\ Last(Append(w, next)) = next
  BY <1>1, <1>3, PathGoesOn
<1>5. HasEvents(new, Append(w, next), t)
  BY <1>1, <1>2, EventsGoOn
<1>6. QED BY <1>4, <1>5 DEF FollowsTo

\* Where a branch leads.
Onto(bs, run, at, b) ==
  [block |-> b, from |-> at.block, phis |-> PhisOf(bs[at.block].code, run, at)]

LEMMA BranchesOnto ==
  ASSUME NEW bs, NEW at, NEW m, NEW new, IsAdded(bs, at.block, Br(m), new), NEW run
  PROVE  /\ ~EndsRun(new[at.block].code)
         /\ NextOf(new[at.block].code, run, at) = Onto(bs, run, at, m)
<1>1. Br(m).op = "br" /\ Br(m).to = <<m>> /\ <<m>>[1] = m
  BY DEF Br
<1> DEFINE code == new[at.block].code
<1>2. /\ Last(code) = Br(m) /\ (Ends(code) <=> IsTerminator(Br(m)))
      /\ PhisOf(code, run, at) = PhisOf(bs[at.block].code, run, at)
  BY DEF IsAdded
<1> HIDE DEF code
<1>3. ~EndsRun(code)
  BY <1>1, <1>2, Branches DEF EndsRun
<1>4. ~GoesSecond(code, run, PhisOf(code, run, at))
  BY <1>1, <1>2 DEF GoesSecond
<1>5. NextOf(code, run, at) = Onto(bs, run, at, m)
  BY <1>1, <1>2, <1>4 DEF NextOf, Onto
<1>6. QED BY <1>3, <1>5 DEF code

LEMMA AnyBranchesOnto ==
  ASSUME NEW bs, NEW b, NEW m, NEW new, IsAdded(bs, b, Br(m), new),
         NEW run, NEW at, at.block = b
  PROVE  NextOf(new[b].code, run, at) = Onto(bs, run, at, m)
BY BranchesOnto

LEMMA ForksOnto ==
  ASSUME NEW bs, NEW at, NEW v, NEW x, NEW y, NEW new, IsAdded(bs, at.block, CondBr(v, x, y), new),
         NEW run
  PROVE  /\ ~EndsRun(new[at.block].code)
         /\ Evaluate(run, PhisOf(bs[at.block].code, run, at), v)
              => NextOf(new[at.block].code, run, at) = Onto(bs, run, at, x)
         /\ ~Evaluate(run, PhisOf(bs[at.block].code, run, at), v)
              => NextOf(new[at.block].code, run, at) = Onto(bs, run, at, y)
<1> DEFINE ins == CondBr(v, x, y)
<1>1. ins.op = "condbr" /\ ins.to = <<x, y>> /\ ins.on = v /\ <<x, y>>[1] = x /\ <<x, y>>[2] = y
  BY DEF CondBr
<1>2. IsTerminator(ins)
  BY <1>1 DEF IsTerminator
<1> DEFINE code == new[at.block].code
<1>3. /\ Last(code) = ins /\ (Ends(code) <=> IsTerminator(ins))
      /\ PhisOf(code, run, at) = PhisOf(bs[at.block].code, run, at)
  BY DEF IsAdded
<1> HIDE DEF code, ins
<1>4. ~EndsRun(code)
  BY <1>1, <1>2, <1>3 DEF EndsRun
<1>5. GoesSecond(code, run, PhisOf(code, run, at))
        <=> ~Evaluate(run, PhisOf(bs[at.block].code, run, at), v)
  BY <1>1, <1>3 DEF GoesSecond
<1>6. QED BY <1>1, <1>3, <1>4, <1>5 DEF NextOf, Onto, code

-----------------------------------------------------------------------------
(* What keeps the runs where they are to be *)

\* Call h is above all others that hold a block, and they are the same in cs and ds.
OnlyTop(cs, ds, h) ==
  /\ ~(h > h)
  /\ \A k \in Holders(cs) : k # h => h > k /\ ~(k > h) /\ k \in Holders(ds) /\ ds[k] = cs[k]
  /\ Holders(ds) \subseteq Holders(cs) \cup {h}
\* The runs of h in cs, and those that have got to what is lowered, are those of h in ds,
\* and those that get to what is lowered now.
Balanced(cs, pth, ds, qth, h, run) ==
  (run \in pth \/ (h \in Holders(cs) /\ run \in Waits(cs[h])))
    <=> (run \in qth \/ (h \in Holders(ds) /\ run \in Waits(ds[h])))
\* Run gets to what is lowered, or does not.
Gets(new, to, qth, run, there) == run \in qth <=> there.block = to /\ ~Ends(new[to].code)
OthersHave(cs, h, run, there) == \A k \in Holders(cs) : k # h => HolderHas(run, there, cs[k])
\* Run is there with respect to call h.
HolderSituated(ds, qth, h, run, there) ==
  h \in Holders(ds) =>
    /\ HolderHas(run, there, ds[h])
    /\ ds[h].function \in RhsFunctions => (run \in Goes(ds[h]) <=> run \in qth)
Shifts(cs, pth, new, to, ds, qth, h, run, there) ==
  /\ OnlyTop(cs, ds, h)
  /\ Gets(new, to, qth, run, there) /\ OthersHave(cs, h, run, there)
  /\ HolderSituated(ds, qth, h, run, there) /\ Balanced(cs, pth, ds, qth, h, run)

LEMMA Shifted ==
  ASSUME NEW bs, NEW at, NEW cs, NEW pth, NEW run, NEW here, Situated(bs, at, cs, pth, run, here),
         NEW new, NEW to, NEW ds, NEW qth, NEW there, NEW h,
         Shifts(cs, pth, new, to, ds, qth, h, run, there)
  PROVE  Situated(new, to, ds, qth, run, there)
<1> SUFFICES ASSUME NEW k \in Holders(ds)
             PROVE  /\ HolderHas(run, there, ds[k])
                    /\ ds[k].function \in RhsFunctions =>
                         (run \in Goes(ds[k]) <=>
                            run \in qth \/ \E j \in Holders(ds) : j > k /\ run \in Waits(ds[j]))
  BY DEF Situated, Shifts, Gets
<1>0. /\ OnlyTop(cs, ds, h) /\ OthersHave(cs, h, run, there)
      /\ HolderSituated(ds, qth, h, run, there) /\ Balanced(cs, pth, ds, qth, h, run)
  BY DEF Shifts
<1>1. CASE k = h
  <2>1. \A j \in Holders(ds) : ~(j > h)
    BY <1>0 DEF OnlyTop
  <2>2. QED BY <1>0, <1>1, <2>1 DEF HolderSituated
<1>2. CASE k # h
  <2>1. k \in Holders(cs) /\ ds[k] = cs[k] /\ h > k /\ HolderHas(run, there, ds[k])
    BY <1>0, <1>2 DEF OnlyTop, OthersHave
  <2>2. \A j : j # h => /\ j \in Holders(cs) <=> j \in Holders(ds)
                        /\ j \in Holders(cs) => ds[j] = cs[j]
    BY <1>0 DEF OnlyTop
  <2>3. (run \in pth \/ \E j \in Holders(cs) : j > k /\ run \in Waits(cs[j]))
          <=> (run \in qth \/ \E j \in Holders(ds) : j > k /\ run \in Waits(ds[j]))
    <3>1. (\E j \in Holders(cs) : j > k /\ run \in Waits(cs[j]))
            <=> \/ h \in Holders(cs) /\ run \in Waits(cs[h])
                \/ \E j \in Holders(cs) : j # h /\ j > k /\ run \in Waits(cs[j])
      BY <2>1
    <3>2. (\E j \in Holders(ds) : j > k /\ run \in Waits(ds[j]))
            <=> \/ h \in Holders(ds) /\ run \in Waits(ds[h])
                \/ \E j \in Holders(ds) : j # h /\ j > k /\ run \in Waits(ds[j])
      BY <2>1
    <3>3. (\E j \in Holders(cs) : j # h /\ j > k /\ run \in Waits(cs[j]))
            <=> (\E j \in Holders(ds) : j # h /\ j > k /\ run \in Waits(ds[j]))
      BY <2>2
    <3>4. QED BY <1>0, <3>1, <3>2, <3>3 DEF Balanced
  <2>4. ds[k].function \in RhsFunctions =>
          (run \in Goes(ds[k]) <=>
             run \in pth \/ \E j \in Holders(cs) : j > k /\ run \in Waits(cs[j]))
    BY <2>1 DEF Situated
  <2>5. QED BY <2>1, <2>3, <2>4
<1>3. QED BY <1>1, <1>2

\* Calls that hold nothing come and go.
LEMMA SituatedSame ==
  ASSUME NEW bs, NEW at, NEW cs, NEW pth, NEW run, NEW here, Situated(bs, at, cs, pth, run, here),
         NEW ds, Holders(ds) = Holders(cs), \A h \in Holders(cs) : ds[h] = cs[h]
  PROVE  Situated(bs, at, ds, pth, run, here)
BY DEF Situated

LEMMA HeldBlocks ==
  ASSUME NEW f, f.function \in HoldingFunctions
  PROVE  /\ WaitsAt(f) \in Held(f) /\ f.merge \in Held(f)
  BY DEF WaitsAt, Held, HoldingFunctions

\* A run that neither is nor was in a block of f.
LEMMA HolderElsewhere ==
  ASSUME NEW f, f.function \in HoldingFunctions, NEW run, NEW here, HolderHas(run, here, f),
         NEW there, here.block \notin Held(f), there.block \notin Held(f)
  PROVE  HolderHas(run, there, f)
<1>1. here.block # WaitsAt(f) /\ there.block # WaitsAt(f) /\ there.block # f.merge
  BY HeldBlocks
<1>2. QED BY <1>1 DEF HolderHas

\* Where runs are, in a module that satisfies the invariant.
LEMMA WhereRunsAre ==
  ASSUME NEW bs, NEW at, NEW cs, NEW d, ModuleInv(bs, at, cs, d),
         NEW pth, NEW run, NEW here, Situated(bs, at, cs, pth, run, here)
  PROVE  /\ run \in pth => here.block = at
         /\ \A k \in Holders(cs) :
              /\ HolderHas(run, here, cs[k]) /\ cs[k].function \in HoldingFunctions
              /\ run \in pth => here.block \notin Held(cs[k])
              /\ here.block \in Held(cs[k]) =>
                   \A j \in Holders(cs) : j # k => here.block \notin Held(cs[j])
  BY DEF Situated, ModuleInv, HoldersInv, Holders

-----------------------------------------------------------------------------
(* An event, and a return *)

Seen(pth, run, e) == IF run \in pth THEN <<e>> ELSE <<>>

LEMMA EventSeen ==
  ASSUME NEW bs, NEW at, NEW cs, NEW d, ModuleInv(bs, at, cs, d), ~Ends(bs[at].code),
         NEW pth, NEW run, NEW w, NEW t, Follows(bs, run, w, t),
         Situated(bs, at, cs, pth, run, Last(w)),
         NEW e \in Nat, NEW new, new = Emit(bs, at, Event(e))
  PROVE  /\ Follows(new, run, w, t \o Seen(pth, run, e))
         /\ Situated(new, at, cs, pth, run, Last(w))
<1>1. Event(e).op = "event" /\ Event(e).id = e /\ Returns(Event(e), d) /\ ~IsTerminator(Event(e))
  BY DEF Event, Returns, IsTerminator
<1>2. CodeInv(bs, d) /\ at \in DOMAIN bs /\ bs[at].placed = TRUE
  BY DEF ModuleInv
<1>3. IsAdded(bs, at, Event(e), new)
  BY <1>1, <1>2, AddedTo
<1>4. Grows(bs, new)
  BY <1>3, AddedGoesOn
<1>5. /\ IsPath(bs, run, w) /\ HasEvents(bs, w, t) /\ EndsRun(bs[Last(w).block].code)
      /\ Last(w).block \in DOMAIN bs
  BY PathFacts DEF Follows, IsRun
<1>6. IsPath(new, run, w)
  BY <1>4, <1>5, PathGrows
<1>7. /\ Events(new[at].code) = Events(bs[at].code) \o <<e>> /\ ~Ends(new[at].code)
      /\ \A c \in DOMAIN bs : c # at => new[c].code = bs[c].code
  BY <1>1, <1>3 DEF IsAdded
<1>8. EndsRun(new[Last(w).block].code)
  BY <1>5, <1>7 DEF EndsRun
<1>9. run \in pth <=> Last(w).block = at
  BY DEF Situated
<1>10. HasEvents(new, w, t \o Seen(pth, run, e))
  <2>1. CASE run \in pth
    <3>1. Last(w).block = at /\ Seen(pth, run, e) = <<e>>
      BY <1>9, <2>1 DEF Seen
    <3>2. \A b \in DOMAIN bs : b # at => Events(new[b].code) = Events(bs[b].code)
      BY <1>7
    <3>3. QED BY ZenonT(60), <1>5, <1>7, <3>1, <3>2, EventAdded
  <2>2. CASE run \notin pth
    <3>1. Last(w).block # at /\ Seen(pth, run, e) = <<>>
      BY <1>9, <2>2 DEF Seen
    <3>2. t \in Seq(Nat)
      BY <1>5, EventsAreNumbers
    <3>3. t \o Seen(pth, run, e) = t
      BY <3>1, <3>2, NoMoreEvents
    <3>4. EventsAt(new, w) = EventsAt(bs, w)
      <4>1. ASSUME NEW i \in DOMAIN w
            PROVE  Events(new[w[i].block].code) = Events(bs[w[i].block].code)
        <5>1. w[i].block \in DOMAIN bs /\ w[i].block # at
          <6>1. Last(w) = w[Len(w)] /\ (i # Len(w) => Ends(bs[w[i].block].code))
            BY <1>5, PathFacts
          <6>2. QED BY <1>5, <3>1, <6>1 DEF IsPath
        <5>2. QED BY <1>7, <5>1
      <4>2. QED BY <4>1 DEF EventsAt
    <3>5. QED BY <1>5, <3>3, <3>4 DEF HasEvents, TraceOf
  <2>3. QED BY <2>1, <2>2
<1>11. Situated(new, at, cs, pth, run, Last(w))
  BY <1>7 DEF Situated
<1>12. QED BY <1>6, <1>8, <1>10, <1>11 DEF Follows, IsRun

\* No call waits for the value of a right operand.
NoRhs(cs) == \A k \in Holders(cs) : cs[k].function \notin RhsFunctions

LEMMA ReturnSeen ==
  ASSUME NEW bs, NEW at, NEW cs, NEW d, ModuleInv(bs, at, cs, d), ~Ends(bs[at].code), NoRhs(cs),
         NEW pth, NEW run, NEW w, NEW t, Follows(bs, run, w, t),
         Situated(bs, at, cs, pth, run, Last(w)),
         NEW new, new = Emit(bs, at, Ret(d))
  PROVE  Follows(new, run, w, t) /\ Situated(new, at, cs, {}, run, Last(w))
<1>1. Ret(d).op = "ret" /\ Returns(Ret(d), d) /\ IsTerminator(Ret(d))
  BY DEF Ret, Returns, IsTerminator
<1>2. CodeInv(bs, d) /\ at \in DOMAIN bs /\ bs[at].placed = TRUE
  BY DEF ModuleInv
<1>3. IsAdded(bs, at, Ret(d), new)
  BY <1>1, <1>2, AddedTo
<1>4. GoesOn(bs, new)
  BY <1>1, <1>3, AddedGoesOn
<1>5. FollowsTo(bs, run, w, t) /\ EndsRun(bs[Last(w).block].code) /\ Last(w).block \in DOMAIN bs
  BY PathFacts DEF Follows, IsRun, FollowsTo
<1>6. EndsRun(new[Last(w).block].code) /\ Ends(new[at].code)
  BY <1>1, <1>3, <1>5 DEF EndsRun, IsAdded
<1>7. Follows(new, run, w, t)
  BY <1>4, <1>5, <1>6, RunStays
<1>8. Situated(new, at, cs, {}, run, Last(w))
  BY <1>6 DEF Situated, NoRhs
<1>9. QED BY <1>7, <1>8

-----------------------------------------------------------------------------
(* Both sides of an if *)

\* What run does where it is, when block at branches to m unless it has ended already.
SideEnds(bs, at, m, new) == new = IF Ends(bs[at].code) THEN bs ELSE Emit(bs, at, Br(m))

IsLeft(bs, at, m, new) ==
  /\ GoesOn(bs, new) /\ DOMAIN new = DOMAIN bs
  /\ \A c \in DOMAIN bs : c # at => new[c].code = bs[c].code
  /\ Ends(bs[at].code) => new = bs
  /\ ~Ends(bs[at].code) => IsAdded(bs, at, Br(m), new)

LEMMA SideAdded ==
  ASSUME NEW bs, NEW d, CodeInv(bs, d), NEW at \in DOMAIN bs, bs[at].placed = TRUE,
         NEW m, NEW new, SideEnds(bs, at, m, new)
  PROVE  CodeInv(new, d) /\ IsLeft(bs, at, m, new)
<1>1. CASE Ends(bs[at].code)
  BY <1>1 DEF SideEnds, IsLeft, GoesOn, Grows
<1>2. CASE ~Ends(bs[at].code)
  <2>1. new = Emit(bs, at, Br(m)) /\ Br(m).op # "phi" /\ Br(m).op # "event" /\ Returns(Br(m), d)
    BY <1>2, Branches DEF SideEnds
  <2>2. CodeInv(new, d) /\ IsAdded(bs, at, Br(m), new)
    BY <1>2, <2>1, AddedTo
  <2>3. GoesOn(bs, new)
    BY <1>2, <2>1, <2>2, AddedGoesOn
  <2>4. QED BY <1>2, <2>2, <2>3 DEF IsAdded, IsLeft
<1>3. QED BY <1>1, <1>2

\* A run at the end of a side goes on to m, and others stay.
SideLeft(bs, at, m, new, run, w, t) ==
  \E v : /\ Follows(new, run, v, t)
         /\ IF Last(w).block = at /\ ~Ends(bs[at].code) THEN Last(v) = Onto(bs, run, Last(w), m)
            ELSE v = w
LEMMA SideLeaves ==
  ASSUME NEW bs, NEW at, NEW d, CodeInv(bs, d), at \in DOMAIN bs, bs[at].placed = TRUE,
         NEW m \in DOMAIN bs, m # at, bs[m].code = <<>>,
         NEW run, NEW w, NEW t, Follows(bs, run, w, t),
         NEW new, SideEnds(bs, at, m, new)
  PROVE  SideLeft(bs, at, m, new, run, w, t)
<1>1. /\ GoesOn(bs, new) /\ DOMAIN new = DOMAIN bs
      /\ \A c \in DOMAIN bs : c # at => new[c].code = bs[c].code
      /\ Ends(bs[at].code) => new = bs
      /\ ~Ends(bs[at].code) => IsAdded(bs, at, Br(m), new)
  <2>1. IsLeft(bs, at, m, new)
    BY SideAdded
  <2>2. QED BY <2>1 DEF IsLeft
<1>2. FollowsTo(bs, run, w, t) /\ EndsRun(bs[Last(w).block].code) /\ Last(w).block \in DOMAIN bs
  BY PathFacts DEF Follows, IsRun, FollowsTo
<1>3. CASE Last(w).block = at /\ ~Ends(bs[at].code)
  <2> DEFINE next == Onto(bs, run, Last(w), m)
  <2>1. ~EndsRun(new[at].code) /\ NextOf(new[at].code, run, Last(w)) = next
    <3>1. IsAdded(bs, Last(w).block, Br(m), new)
      BY <1>1, <1>3
    <3>2. QED BY ZenonT(60), <1>3, <3>1, BranchesOnto
  <2>2. next.block = m /\ new[m].code = <<>>
    BY <1>1 DEF Onto
  <2>3. IsFresh(bs, w, m)
    BY <1>3, EmptyCode DEF IsFresh
  <2>4. Events(new[m].code) = <<>> /\ EndsRun(new[m].code)
    BY <2>2, EventsEmpty, EmptyCode DEF EndsRun
  <2> HIDE DEF next
  <2>5. FollowsTo(new, run, Append(w, next), t) /\ Last(Append(w, next)) = next
    BY <1>1, <1>2, <1>3, <2>1, <2>2, <2>3, <2>4, RunGoesOn
  <2>6. Follows(new, run, Append(w, next), t)
    BY <2>2, <2>4, <2>5 DEF Follows, FollowsTo, IsRun
  <2>7. QED BY <1>3, <2>5, <2>6 DEF next, SideLeft
<1>4. CASE ~(Last(w).block = at /\ ~Ends(bs[at].code))
  <2>1. EndsRun(new[Last(w).block].code)
    BY <1>1, <1>2, <1>4
  <2>2. Follows(new, run, w, t)
    BY <1>1, <1>2, <2>1, RunStays
  <2>3. QED BY <1>4, <2>2 DEF SideLeft
<1>5. QED BY <1>3, <1>4

\* Frame h of the true side becomes that of the false one.
TurnsToElse(cs, ds, h, pth) ==
  /\ OnlyTop(cs, ds, h) /\ h \in Holders(cs) /\ h \in Holders(ds)
  /\ cs[h].function = "LowerIf then" /\ ds[h].function = "LowerIf else"
  /\ ds[h].merge = cs[h].merge /\ ds[h].thenPath = pth

LEMMA ElseSeen ==
  ASSUME NEW bs, NEW at, NEW cs, NEW d, ModuleInv(bs, at, cs, d),
         NEW ds, NEW h, NEW pth, TurnsToElse(cs, ds, h, pth),
         ds[h].thenTerminated <=> Ends(bs[at].code),
         NEW run, NEW w, NEW t, Follows(bs, run, w, t),
         Situated(bs, at, cs, pth, run, Last(w)),
         NEW new, SideEnds(bs, at, cs[h].merge, new)
  PROVE  \E v : /\ Follows(new, run, v, t)
                /\ Situated(new, cs[h].else, ds, cs[h].elsePath, run, Last(v))
<1> DEFINE m == cs[h].merge
           e == cs[h].else
           here == Last(w)
<1>1. /\ CodeInv(bs, d) /\ at \in DOMAIN bs /\ bs[at].placed = TRUE /\ h \in Holders(cs)
      /\ cs[h].function = "LowerIf then"
      /\ Held(cs[h]) = {m, e} /\ Held(cs[h]) \subseteq DOMAIN bs /\ at \notin Held(cs[h])
      /\ e # m /\ bs[m].code = <<>> /\ bs[e].code = <<>>
      /\ WaitsAt(cs[h]) = e /\ Waits(cs[h]) = cs[h].elsePath
  <2>1. h \in Holders(cs) /\ cs[h].function = "LowerIf then"
    BY DEF TurnsToElse
  <2>2. Held(cs[h]) = {m, e} /\ Side(cs[h]) = e
    BY <2>1 DEF Held, Side
  <2>3. WaitsAt(cs[h]) = e /\ Waits(cs[h]) = cs[h].elsePath
    BY <2>1, <2>2 DEF WaitsAt, Waits
  <2>4. /\ CodeInv(bs, d) /\ at \in DOMAIN bs /\ bs[at].placed = TRUE
        /\ HolderInv(bs, cs[h]) /\ Held(cs[h]) \subseteq DOMAIN bs /\ at \notin Held(cs[h])
    BY <2>1, HolderFacts
  <2>5. e # m /\ bs[m].code = <<>> /\ bs[e].code = <<>>
    BY <2>1, <2>2, <2>4 DEF HolderInv
  <2>6. QED BY <2>1, <2>2, <2>3, <2>4, <2>5
<1>2. /\ ds[h].function = "LowerIf else" /\ Held(ds[h]) = {m} /\ WaitsAt(ds[h]) = m
      /\ Waits(ds[h]) = pth /\ OnlyTop(cs, ds, h) /\ h \in Holders(ds)
      /\ ds[h].thenPath = pth
  BY DEF TurnsToElse, Held, WaitsAt, Waits
<1>3. PICK v : /\ Follows(new, run, v, t)
               /\ IF here.block = at /\ ~Ends(bs[at].code) THEN Last(v) = Onto(bs, run, here, m)
                  ELSE v = w
  <2>1. m \in DOMAIN bs /\ m # at
    BY <1>1
  <2>2. SideLeft(bs, at, m, new, run, w, t)
    BY <1>1, <2>1, SideLeaves
  <2>3. QED BY <2>2 DEF SideLeft
<1>4. ~Ends(new[e].code)
  <2>1. new[e].code = bs[e].code
    <3>1. IsLeft(bs, at, m, new) /\ e \in DOMAIN bs /\ e # at
      BY <1>1, SideAdded
    <3>2. QED BY <3>1 DEF IsLeft
  <2>2. QED BY <1>1, <2>1, EmptyCode
<1>5. run \in pth <=> here.block = at /\ ~Ends(bs[at].code)
  BY DEF Situated
<1>6. /\ HolderHas(run, here, cs[h])
      /\ \A k \in Holders(cs) :
           /\ HolderHas(run, here, cs[k]) /\ cs[k].function \in HoldingFunctions
           /\ run \in pth => here.block \notin Held(cs[k])
           /\ here.block \in Held(cs[k]) =>
                \A j \in Holders(cs) : j # k => here.block \notin Held(cs[j])
  BY <1>1, WhereRunsAre
<1>7. \A k \in Holders(cs) : k # h => m \notin Held(cs[k])
  <2>1. m \in Held(cs[h]) /\ \A k \in Holders(cs) : k # h => Held(cs[k]) \cap Held(cs[h]) = {}
    BY <1>1, HolderFacts
  <2>2. QED BY <2>1
<1>0. Situated(bs, at, cs, pth, run, here)
  OBVIOUS
<1> HIDE DEF m, e, here
<1>8. ds[h].function \notin RhsFunctions
  BY <1>2 DEF RhsFunctions
<1>9. Balanced(cs, pth, ds, cs[h].elsePath, h, run)
  BY <1>1, <1>2 DEF Balanced
<1>10. CASE run \in pth
  <2>1. Last(v).block = m
    BY <1>3, <1>5, <1>10 DEF Onto
  <2>2. OthersHave(cs, h, run, Last(v))
    BY <1>6, <1>7, <1>10, <2>1, HolderElsewhere DEF OthersHave
  <2>3. run \notin cs[h].elsePath
    BY <1>1, <1>6, <1>10 DEF HolderHas
  <2>4. HolderSituated(ds, cs[h].elsePath, h, run, Last(v))
    <3>1. ~ds[h].thenTerminated
      BY <1>5, <1>10
    <3>2. HolderHas(run, Last(v), ds[h])
      BY <1>2, <1>10, <2>1, <3>1 DEF HolderHas
    <3>3. QED BY <1>8, <3>2 DEF HolderSituated
  <2>5. Gets(new, e, cs[h].elsePath, run, Last(v))
    BY <1>1, <2>1, <2>3 DEF Gets
  <2>6. Situated(new, e, ds, cs[h].elsePath, run, Last(v))
    <3>1. Shifts(cs, pth, new, e, ds, cs[h].elsePath, h, run, Last(v))
      BY <1>2, <1>9, <2>2, <2>4, <2>5 DEF Shifts
    <3>2. QED BY <1>0, <3>1, Shifted
  <2>7. QED BY <1>3, <2>6 DEF e
<1>11. CASE run \notin pth
  <2>1. v = w
    BY <1>3, <1>5, <1>11
  <2>2. run \in cs[h].elsePath <=> here.block = e
    BY <1>1, <1>6 DEF HolderHas
  <2>3. here.block # m
    BY <1>1, <1>6 DEF HolderHas
  <2>4. HolderSituated(ds, cs[h].elsePath, h, run, here)
    <3>1. HolderHas(run, here, ds[h])
      BY <1>2, <1>11, <2>3 DEF HolderHas
    <3>2. QED BY <1>8, <3>1 DEF HolderSituated
  <2>5. Gets(new, e, cs[h].elsePath, run, here) /\ OthersHave(cs, h, run, here)
    BY <1>4, <1>6, <2>2 DEF Gets, OthersHave
  <2>6. Situated(new, e, ds, cs[h].elsePath, run, here)
    <3>1. Shifts(cs, pth, new, e, ds, cs[h].elsePath, h, run, here)
      BY <1>2, <1>9, <2>4, <2>5 DEF Shifts
    <3>2. QED BY <1>0, <3>1, Shifted
  <2>7. QED BY <1>3, <2>1, <2>6 DEF e, here
<1>12. QED BY <1>10, <1>11

\* The short way of an ||.
LEMMA BranchHasNoEvents ==
  ASSUME NEW m
  PROVE  Events(<<Br(m)>>) = <<>>
<1>1. Append(<<>>, Br(m)) = <<Br(m)>>
  OBVIOUS
<1>2. IsCode(<<>>) /\ Br(m).op # "event"
  BY EmptyCode, Branches
<1>3. Events(Append(<<>>, Br(m))) = Events(<<>>) \o EventOf(Br(m))
  BY <1>2, EventsAppended
<1>4. Events(<<>>) \o <<>> = <<>>
  BY EventsEmpty
<1>5. QED BY <1>1, <1>2, <1>3, <1>4 DEF EventOf

LEMMA ShortBranch ==
  ASSUME NEW new, NEW at, NEW m, new[at.block].code = <<Br(m)>>, NEW run
  PROVE  /\ ~EndsRun(new[at.block].code)
         /\ NextOf(new[at.block].code, run, at) = Onto(new, run, at, m)
<1> DEFINE code == new[at.block].code
<1>1. Last(<<Br(m)>>) = Br(m)
  BY DEF Last
<1>2. Br(m).op = "br" /\ Br(m).to = <<m>> /\ <<m>>[1] = m
  BY DEF Br
<1>3. Last(code) = Br(m) /\ Ends(code)
  BY <1>1, BranchCode
<1>4. ~EndsRun(code)
  BY <1>2, <1>3 DEF EndsRun
<1>5. ~GoesSecond(code, run, PhisOf(code, run, at))
  BY <1>2, <1>3 DEF GoesSecond
<1> HIDE DEF code
<1>6. NextOf(code, run, at) = [block |-> m, from |-> at.block, phis |-> PhisOf(code, run, at)]
  BY <1>2, <1>3, <1>5 DEF NextOf
<1>7. QED BY <1>4, <1>6 DEF Onto, code

\* The if has been lowered, and call h returns.
EndsIf(cs, ds, h) ==
  /\ OnlyTop(cs, ds, h) /\ h \in Holders(cs) /\ h \notin Holders(ds)
  /\ cs[h].function = "LowerIf else"

EndedIf(bs, at, cs, d, ds, h, m) ==
  /\ CodeInv(bs, d) /\ at \in DOMAIN bs /\ bs[at].placed = TRUE
  /\ h \in Holders(cs) /\ h \notin Holders(ds) /\ OnlyTop(cs, ds, h)
  /\ Held(cs[h]) = {m} /\ m \in DOMAIN bs /\ m # at /\ bs[m].code = <<>>
  /\ WaitsAt(cs[h]) = m /\ Waits(cs[h]) = cs[h].thenPath
  /\ \A k \in Holders(cs) : k # h => m \notin Held(cs[k])
  /\ cs[h].function = "LowerIf else"

LEMMA EndsIfFacts ==
  ASSUME NEW bs, NEW at, NEW cs, NEW d, ModuleInv(bs, at, cs, d),
         NEW ds, NEW h, EndsIf(cs, ds, h), NEW m, m = cs[h].merge
  PROVE  EndedIf(bs, at, cs, d, ds, h, m)
<1>1. /\ h \in Holders(cs) /\ h \notin Holders(ds) /\ OnlyTop(cs, ds, h)
      /\ cs[h].function = "LowerIf else"
  BY DEF EndsIf
<1>2. Held(cs[h]) = {m} /\ WaitsAt(cs[h]) = m /\ Waits(cs[h]) = cs[h].thenPath
  BY <1>1 DEF Held, WaitsAt, Waits
<1>3. /\ CodeInv(bs, d) /\ at \in DOMAIN bs /\ bs[at].placed = TRUE
      /\ HolderInv(bs, cs[h]) /\ Held(cs[h]) \subseteq DOMAIN bs /\ at \notin Held(cs[h])
      /\ \A k \in Holders(cs) : k # h => Held(cs[k]) \cap Held(cs[h]) = {}
  BY <1>1, HolderFacts
<1>4. bs[m].code = <<>>
  BY <1>3 DEF HolderInv
<1>5. \A k \in Holders(cs) : k # h => m \notin Held(cs[k])
  BY <1>2, <1>3
<1>6. QED BY <1>1, <1>2, <1>3, <1>4, <1>5 DEF EndedIf

LEMMA IfMergeSeen ==
  ASSUME NEW bs, NEW at, NEW cs, NEW d, ModuleInv(bs, at, cs, d),
         NEW ds, NEW h, EndsIf(cs, ds, h),
         NEW pth, NEW run, NEW w, NEW t, Follows(bs, run, w, t),
         Situated(bs, at, cs, pth, run, Last(w)),
         NEW ended, SideEnds(bs, at, cs[h].merge, ended),
         NEW new, new = Place(ended, cs[h].merge)
  PROVE  \E v : /\ Follows(new, run, v, t)
                /\ Situated(new, cs[h].merge, ds, cs[h].thenPath \cup pth, run, Last(v))
<1> DEFINE m == cs[h].merge
           here == Last(w)
           qth == cs[h].thenPath \cup pth
<1>1. /\ CodeInv(bs, d) /\ at \in DOMAIN bs /\ bs[at].placed = TRUE
      /\ h \in Holders(cs) /\ h \notin Holders(ds) /\ OnlyTop(cs, ds, h)
      /\ Held(cs[h]) = {m} /\ m \in DOMAIN bs /\ m # at /\ bs[m].code = <<>>
      /\ WaitsAt(cs[h]) = m /\ Waits(cs[h]) = cs[h].thenPath
      /\ \A k \in Holders(cs) : k # h => m \notin Held(cs[k])
      /\ cs[h].function = "LowerIf else"
  <2>1. EndedIf(bs, at, cs, d, ds, h, m)
    BY EndsIfFacts
  <2>2. QED BY <2>1 DEF EndedIf
<1>2. CodeInv(ended, d) /\ IsLeft(bs, at, m, ended)
  BY <1>1, SideAdded
<1>3. SideLeft(bs, at, m, ended, run, w, t)
  BY <1>1, SideLeaves
<1>4. PICK v : /\ Follows(ended, run, v, t)
               /\ IF here.block = at /\ ~Ends(bs[at].code) THEN Last(v) = Onto(bs, run, here, m)
                  ELSE v = w
  BY <1>3 DEF SideLeft
<1>0. Situated(bs, at, cs, pth, run, here)
  OBVIOUS
<1>5. run \in pth <=> here.block = at /\ ~Ends(bs[at].code)
  BY DEF Situated
<1>6. /\ HolderHas(run, here, cs[h])
      /\ \A k \in Holders(cs) :
           /\ HolderHas(run, here, cs[k]) /\ cs[k].function \in HoldingFunctions
           /\ run \in pth => here.block \notin Held(cs[k])
  <2>1. h \in Holders(cs)
    BY <1>1
  <2>2. QED BY <2>1, WhereRunsAre
<1> HIDE DEF m, here
<1>7. /\ DOMAIN new = DOMAIN ended /\ \A c \in DOMAIN ended : new[c].code = ended[c].code
      /\ ended[m].code = <<>> /\ m \in DOMAIN ended
  <2>1. m \in DOMAIN ended /\ ended[m].code = bs[m].code
    BY <1>1, <1>2 DEF IsLeft
  <2>2. IsPlacing(ended, m, new)
    BY <1>2, <2>1, PlacedBlock DEF CodeInv, m
  <2>3. QED BY <1>1, <2>1, <2>2 DEF IsPlacing
<1>8. Follows(new, run, v, t)
  <2>1. GoesOn(ended, new)
    BY <1>7 DEF GoesOn, Grows
  <2>2. /\ FollowsTo(ended, run, v, t) /\ EndsRun(ended[Last(v).block].code)
        /\ Last(v).block \in DOMAIN ended
    BY <1>4, PathFacts DEF Follows, IsRun, FollowsTo
  <2>3. EndsRun(new[Last(v).block].code)
    BY <1>7, <2>2
  <2>4. QED BY <2>1, <2>2, <2>3, RunStays
<1>9. ~Ends(new[m].code)
  BY <1>7, EmptyCode
<1>10. Balanced(cs, pth, ds, qth, h, run) /\ HolderSituated(ds, qth, h, run, Last(v))
  BY <1>1 DEF Balanced, HolderSituated
<1>11. Gets(new, m, qth, run, Last(v)) /\ OthersHave(cs, h, run, Last(v))
  <2>1. CASE run \in pth
    <3>1. Last(v).block = m
      BY <1>4, <1>5, <2>1 DEF Onto
    <3>2. Gets(new, m, qth, run, Last(v))
      BY <1>9, <2>1, <3>1 DEF Gets
    <3>3. OthersHave(cs, h, run, Last(v))
      BY <1>1, <1>6, <2>1, <3>1, HolderElsewhere DEF OthersHave
    <3>4. QED BY <3>2, <3>3
  <2>2. CASE run \notin pth
    <3>1. Last(v) = here
      BY <1>4, <1>5, <2>2 DEF here
    <3>2. run \in cs[h].thenPath <=> here.block = m
      BY <1>1, <1>6 DEF HolderHas
    <3>3. Gets(new, m, qth, run, Last(v))
      BY <1>9, <2>2, <3>1, <3>2 DEF Gets
    <3>4. OthersHave(cs, h, run, Last(v))
      BY <1>6, <3>1 DEF OthersHave
    <3>5. QED BY <3>3, <3>4
  <2>3. QED BY <2>1, <2>2
<1> HIDE DEF qth
<1>12. Situated(new, m, ds, qth, run, Last(v))
  <2>1. Shifts(cs, pth, new, m, ds, qth, h, run, Last(v))
    BY <1>1, <1>10, <1>11 DEF Shifts
  <2>2. QED BY <1>0, <2>1, Shifted
<1>13. QED BY <1>8, <1>12 DEF m, qth

LEMMA NoMergeSeen ==
  ASSUME NEW bs, NEW at, NEW cs, NEW d, ModuleInv(bs, at, cs, d),
         NEW ds, NEW h, EndsIf(cs, ds, h), cs[h].thenTerminated,
         NEW pth, NEW run, NEW here, Situated(bs, at, cs, pth, run, here)
  PROVE  Situated(bs, at, ds, cs[h].thenPath \cup pth, run, here)
<1> DEFINE qth == cs[h].thenPath \cup pth
<1>1. /\ h \in Holders(cs) /\ h \notin Holders(ds) /\ OnlyTop(cs, ds, h)
      /\ Waits(cs[h]) = cs[h].thenPath /\ cs[h].function = "LowerIf else"
  <2>1. EndedIf(bs, at, cs, d, ds, h, cs[h].merge)
    BY EndsIfFacts
  <2>2. QED BY <2>1 DEF EndedIf
<1>2. run \notin cs[h].thenPath
  BY <1>1 DEF Situated, HolderHas
<1>3. Gets(bs, at, qth, run, here) /\ OthersHave(cs, h, run, here)
  BY <1>2 DEF Situated, Gets, OthersHave
<1>4. Balanced(cs, pth, ds, qth, h, run) /\ HolderSituated(ds, qth, h, run, here)
  BY <1>1 DEF Balanced, HolderSituated
<1> HIDE DEF qth
<1>5. Shifts(cs, pth, bs, at, ds, qth, h, run, here)
  BY <1>1, <1>3, <1>4 DEF Shifts
<1>6. Situated(bs, at, ds, qth, run, here)
  BY <1>5, Shifted
<1>7. QED BY <1>6 DEF qth

-----------------------------------------------------------------------------
(* A condition *)

\* Call h begins to hold e and m, which begin with code in e; the runs of pth go to a
\* or wait, as turn says.
BeginsFork(bs, cs, ds, h, a, e, m, code) ==
  /\ OnlyTop(cs, ds, h) /\ h \notin Holders(cs) /\ h \in Holders(ds)
  /\ ds[h].function \in HoldingFunctions /\ ds[h].function # "LowerIf else"
  /\ ds[h].merge = m /\ Side(ds[h]) = e
  /\ code = IF ds[h].function = "LowerLogicalOr rhs" THEN <<Br(m)>> ELSE <<>>
\* The runs of pth that go to the first block are qth, and the others wait.
Divides(f, pth, qth) ==
  /\ pth = qth \cup Waits(f) /\ qth \cap Waits(f) = {}
  /\ f.function \in RhsFunctions => Goes(f) = qth
\* The condition leads a run where it is to go.
LeadsTo(bs, run, here, ended, qth, a, e) ==
  NextOf(ended[here.block].code, run, here) = Onto(bs, run, here, IF run \in qth THEN a ELSE e)

LEMMA ForkSeen ==
  ASSUME NEW bs, NEW at, NEW cs, NEW d, ModuleInv(bs, at, cs, d), ~Ends(bs[at].code),
         NEW ds, NEW h, NEW a, NEW e, NEW m, NEW code, BeginsFork(bs, cs, ds, h, a, e, m, code),
         NEW pth, NEW qth, Divides(ds[h], pth, qth),
         NEW run, NEW w, NEW t, Follows(bs, run, w, t),
         Situated(bs, at, cs, pth, run, Last(w)),
         NEW ins, ins.op = "condbr", NEW ended, IsAdded(bs, at, ins, ended),
         run \in pth => LeadsTo(bs, run, Last(w), ended, qth, a, e),
         NEW new, IsExtension(ended, code, a, e, m, new)
  PROVE  \E v : Follows(new, run, v, t) /\ Situated(new, a, ds, qth, run, Last(v))
<1> DEFINE here == Last(w)
           isOr == ds[h].function = "LowerLogicalOr rhs"
           f == ds[h]
<1>1. /\ OnlyTop(cs, ds, h) /\ h \notin Holders(cs) /\ h \in Holders(ds)
      /\ f.function \in HoldingFunctions /\ f.function # "LowerIf else"
      /\ f.merge = m /\ Side(f) = e /\ Held(f) = {m, e}
      /\ code = IF isOr THEN <<Br(m)>> ELSE <<>>
      /\ WaitsAt(f) = IF isOr THEN m ELSE e
      /\ isOr => f.short = e
  BY DEF BeginsFork, Held, WaitsAt, Side
<1>2. /\ at \in DOMAIN bs /\ DOMAIN ended = DOMAIN bs
      /\ \A c \in DOMAIN bs : c # at => ended[c].code = bs[c].code
      /\ IsTerminator(ins) /\ Ends(ended[at].code) /\ Last(ended[at].code) = ins
  BY DEF ModuleInv, IsAdded, IsTerminator
<1>3. /\ DOMAIN new = DOMAIN bs \cup {a, e, m}
      /\ a \notin DOMAIN bs /\ e \notin DOMAIN bs /\ m \notin DOMAIN bs
      /\ a # e /\ a # m /\ e # m
      /\ \A b \in DOMAIN bs : new[b] = ended[b]
      /\ new[a].code = <<>> /\ new[e].code = code /\ new[m].code = <<>>
  BY <1>2 DEF IsExtension
<1>4. GoesOn(bs, new)
  <2>1. GoesOn(bs, ended)
    BY AddedGoesOn
  <2>2. GoesOn(ended, new)
    BY <1>2, <1>3 DEF GoesOn, Grows
  <2>3. QED BY <2>1, <2>2, GoesOnOn
<1>5. FollowsTo(bs, run, w, t) /\ EndsRun(bs[here.block].code) /\ here.block \in DOMAIN bs
  BY PathFacts DEF Follows, IsRun, FollowsTo
<1>0. Situated(bs, at, cs, pth, run, here)
  OBVIOUS
<1>6. run \in pth <=> here.block = at
  BY DEF Situated
<1>7. \A k \in Holders(cs) :
        /\ HolderHas(run, here, cs[k]) /\ cs[k].function \in HoldingFunctions
        /\ run \in pth => here.block \notin Held(cs[k])
        /\ Held(cs[k]) \subseteq DOMAIN bs
  <2>1. \A k \in Holders(cs) : Held(cs[k]) \subseteq DOMAIN bs
    BY DEF ModuleInv, HoldersInv, HolderInv
  <2>2. QED BY <2>1, WhereRunsAre
<1>8. /\ run \in pth <=> run \in qth \/ run \in Waits(f)
      /\ ~(run \in qth /\ run \in Waits(f))
      /\ f.function \in RhsFunctions => Goes(f) = qth
  BY DEF Divides
<1>9. /\ ~Ends(new[a].code) /\ ~Ends(new[m].code)
      /\ Events(new[a].code) = <<>> /\ Events(new[m].code) = <<>>
      /\ EndsRun(new[a].code) /\ EndsRun(new[m].code)
  BY <1>3, EmptyCode, EventsEmpty DEF EndsRun
<1> HIDE DEF here, f, isOr
<1>10. Balanced(cs, pth, ds, qth, h, run)
  BY <1>1, <1>8 DEF Balanced, f
<1>11. ASSUME NEW v, Follows(new, run, v, t), Gets(new, a, qth, run, Last(v)),
              OthersHave(cs, h, run, Last(v)), HolderHas(run, Last(v), f)
       PROVE  Situated(new, a, ds, qth, run, Last(v))
  <2>1. HolderSituated(ds, qth, h, run, Last(v))
    BY <1>8, <1>11 DEF HolderSituated, f
  <2>2. Shifts(cs, pth, new, a, ds, qth, h, run, Last(v))
    BY <1>1, <1>10, <1>11, <2>1 DEF Shifts
  <2>3. QED BY <1>0, <2>2, Shifted
<1>12. CASE run \notin pth
  <2>1. new[here.block].code = bs[here.block].code
    BY <1>2, <1>3, <1>5, <1>6, <1>12
  <2>2. Follows(new, run, w, t)
    BY <1>4, <1>5, <2>1, RunStays DEF here
  <2>3. Gets(new, a, qth, run, here) /\ OthersHave(cs, h, run, here)
    BY <1>3, <1>5, <1>7, <1>8, <1>12 DEF Gets, OthersHave
  <2>4. HolderHas(run, here, f)
    <3>1. here.block # m /\ here.block # e
      BY <1>3, <1>5
    <3>2. f.function # "LowerIf else" /\ here.block \notin Held(f) /\ here.block # WaitsAt(f)
          /\ here.block # f.merge /\ run \notin Waits(f)
      BY <1>1, <1>8, <1>12, <3>1
    <3>3. QED BY <3>2 DEF HolderHas
  <2>5. QED BY <1>11, <2>2, <2>3, <2>4 DEF here
<1>13. CASE run \in pth
  <2> DEFINE b == IF run \in qth THEN a ELSE e
             next == Onto(bs, run, here, b)
             u == Append(w, next)
  <2>1. here.block = at /\ next.block = b /\ next.from = at
    BY <1>6, <1>13 DEF Onto
  <2>2. NextOf(new[at].code, run, here) = next
    BY <1>2, <1>3, <1>13, <2>1 DEF LeadsTo, here
  <2>3. ~EndsRun(new[at].code)
    BY <1>2, <1>3 DEF EndsRun
  <2>4. b \in DOMAIN new /\ IsFresh(bs, w, b) /\ Events(new[b].code) = <<>>
    <3>1. Events(<<Br(m)>>) = <<>>
      BY BranchHasNoEvents
    <3>2. QED BY <1>1, <1>3, <3>1, EventsEmpty DEF IsFresh
  <2>5. FollowsTo(new, run, u, t) /\ Last(u) = next
    <3> HIDE DEF b, next
    <3>1. QED BY <1>4, <1>5, <2>1, <2>2, <2>3, <2>4, RunGoesOn DEF here
  <2>6. OthersHave(cs, h, run, next)
    BY <1>3, <1>7, <1>13, <2>1, HolderElsewhere DEF OthersHave
  <2>7. CASE run \in qth
    <3>1. b = a /\ run \notin Waits(f)
      BY <1>8, <2>7
    <3> HIDE DEF b, next, u
    <3>2. Follows(new, run, u, t)
      BY <1>9, <2>1, <2>5, <3>1 DEF Follows, FollowsTo, IsRun
    <3>3. Gets(new, a, qth, run, next)
      BY <1>9, <2>1, <2>7, <3>1 DEF Gets
    <3>4. HolderHas(run, next, f)
      BY <1>1, <1>3, <2>1, <3>1 DEF HolderHas
    <3>5. QED BY <1>11, <2>5, <2>6, <3>2, <3>3, <3>4
  <2>8. CASE run \notin qth
    <3>1. b = e /\ run \in Waits(f)
      BY <1>8, <1>13, <2>8
    <3> HIDE DEF b, next, u
    <3>2. CASE ~isOr
      <4>1. new[e].code = <<>>
        BY <1>1, <1>3, <3>2
      <4>2. Follows(new, run, u, t)
        BY <2>1, <2>5, <3>1, <4>1, EmptyCode DEF Follows, FollowsTo, IsRun, EndsRun
      <4>3. Gets(new, a, qth, run, next)
        BY <1>3, <2>1, <2>8, <3>1 DEF Gets
      <4>4. HolderHas(run, next, f)
        BY <1>1, <1>3, <2>1, <3>1, <3>2 DEF HolderHas, isOr, f
      <4>5. QED BY <1>11, <2>5, <2>6, <4>2, <4>3, <4>4
    <3>3. CASE isOr
      <4> DEFINE last == Onto(new, run, next, m)
                 x == Append(u, last)
      <4>1. new[e].code = <<Br(m)>>
        BY <1>1, <1>3, <3>3
      <4>2. ~EndsRun(new[e].code) /\ NextOf(new[e].code, run, next) = last
        BY <2>1, <3>1, <4>1, ShortBranch
      <4>3. last.block = m /\ last.from = e
        BY <2>1, <3>1 DEF Onto
      <4>4. IsFresh(new, u, m) /\ m \in DOMAIN new
        BY <1>3, <1>9, <2>1, <2>5, <3>1 DEF IsFresh
      <4>5. GoesOn(new, new)
        BY DEF GoesOn, Grows
      <4> HIDE DEF last
      <4>6. FollowsTo(new, run, x, t) /\ Last(x) = last
        BY <1>9, <2>1, <2>5, <3>1, <4>2, <4>3, <4>4, <4>5, RunGoesOn
      <4> HIDE DEF x
      <4>7. Follows(new, run, x, t)
        BY <1>9, <4>3, <4>6 DEF Follows, FollowsTo, IsRun
      <4>8. Gets(new, a, qth, run, last)
        BY <1>3, <2>8, <4>3 DEF Gets
      <4>9. HolderHas(run, last, f)
        BY <1>1, <3>1, <3>3, <4>3 DEF HolderHas, isOr
      <4>10. OthersHave(cs, h, run, last)
        BY <1>3, <1>7, <1>13, <4>3, HolderElsewhere DEF OthersHave
      <4>11. QED BY <1>11, <4>6, <4>7, <4>8, <4>9, <4>10
    <3>4. QED BY <3>2, <3>3
  <2>9. QED BY <2>7, <2>8
<1>14. QED BY <1>12, <1>13

-----------------------------------------------------------------------------
(* The end of a right operand *)

IsOr(f) == f.function = "LowerLogicalOr rhs"
\* The builder's block and the short way lead to m, which has the phi ins only.
LeadsBoth(bs, at, f, s, m, ins, new) ==
  /\ DOMAIN new = DOMAIN bs /\ GoesOn(bs, new)
  /\ \A c \in DOMAIN bs : c \notin {at, s, m} => new[c].code = bs[c].code
  /\ ~EndsRun(new[at].code)
  /\ \A run, x : x.block = at => NextOf(new[at].code, run, x) = Onto(bs, run, x, m)
  /\ ~IsOr(f) => /\ ~EndsRun(new[s].code)
            /\ \A run, x : x.block = s => /\ NextOf(new[s].code, run, x).block = m
                                          /\ NextOf(new[s].code, run, x).from = s
  /\ new[m].code = <<ins>> /\ Events(new[m].code) = <<>> /\ ~Ends(new[m].code)

LEMMA OnePhi ==
  ASSUME NEW ins, ins.op = "phi"
  PROVE  /\ Append(<<>>, ins) = <<ins>> /\ Events(<<ins>>) = <<>> /\ ~Ends(<<ins>>)
         /\ HasPhi(<<ins>>) /\ <<ins>>[1] = ins
<1>1. Append(<<>>, ins) = <<ins>> /\ <<ins>>[1] = ins /\ <<ins>> # <<>>
  OBVIOUS
<1>2. IsCode(<<>>)
  BY EmptyCode
<1>3. Events(Append(<<>>, ins)) = Events(<<>>) \o EventOf(ins)
  BY <1>2, EventsAppended
<1>4. Events(<<>>) \o <<>> = <<>>
  BY EventsEmpty
<1>5. Last(<<ins>>) = ins
  BY DEF Last
<1>6. ~Ends(<<ins>>)
  BY <1>5 DEF Ends, IsTerminator
<1>7. QED BY <1>1, <1>3, <1>4, <1>6 DEF EventOf, HasPhi

LEMMA MergedLeads ==
  ASSUME NEW bs, NEW d, CodeInv(bs, d),
         NEW at \in DOMAIN bs, bs[at].placed = TRUE, ~Ends(bs[at].code),
         NEW f, NEW m, NEW s, m = f.merge, s = f.short, m \in DOMAIN bs, s \in DOMAIN bs,
         at # s, at # m, s # m, bs[m].code = <<>>, bs[s].placed = TRUE,
         ~IsOr(f) => bs[s].code = <<>>,
         NEW ins, ins.op = "phi", NEW new, IsMerged(bs, at, f, ins, new)
  PROVE  LeadsBoth(bs, at, f, s, m, ins, new)
<1> DEFINE ended == Emit(bs, at, Br(m))
           both == IF IsOr(f) THEN ended ELSE Emit(ended, s, Br(m))
           placed == Place(both, m)
<1>1. new = Emit(placed, m, ins)
  BY DEF IsMerged, IsOr
<1>2. Br(m).op # "phi" /\ Br(m).op # "event" /\ Returns(Br(m), d)
  BY Branches
<1>3. CodeInv(ended, d) /\ IsAdded(bs, at, Br(m), ended) /\ GoesOn(bs, ended)
  <2>1. CodeInv(ended, d) /\ IsAdded(bs, at, Br(m), ended)
    BY <1>2, AddedTo
  <2>2. QED BY <1>2, <2>1, AddedGoesOn
<1>4. DOMAIN ended = DOMAIN bs /\ \A c \in DOMAIN bs : c # at => ended[c] = bs[c]
  BY <1>3 DEF IsAdded
<1> HIDE DEF ended
<1>6. /\ CodeInv(both, d) /\ GoesOn(ended, both) /\ DOMAIN both = DOMAIN bs
      /\ \A c \in DOMAIN bs : c # s => both[c].code = ended[c].code
      /\ IsOr(f) => both = ended
      /\ ~IsOr(f) => IsAdded(ended, s, Br(m), both)
  <2>1. CASE IsOr(f)
    BY <1>3, <1>4, <2>1 DEF GoesOn, Grows
  <2>2. CASE ~IsOr(f)
    <3>1. both = Emit(ended, s, Br(m)) /\ s \in DOMAIN ended
      BY <1>4, <2>2
    <3>2. ended[s].placed = TRUE /\ ~Ends(ended[s].code)
      BY <1>4, <2>2, EmptyCode
    <3> HIDE DEF both
    <3>3. CodeInv(both, d) /\ IsAdded(ended, s, Br(m), both)
      BY <1>2, <1>3, <3>1, <3>2, AddedTo
    <3>4. GoesOn(ended, both)
      BY <1>2, <3>2, <3>3, AddedGoesOn
    <3>5. DOMAIN both = DOMAIN bs /\ \A c \in DOMAIN bs : c # s => both[c].code = ended[c].code
      BY <1>4, <3>3 DEF IsAdded
    <3>6. QED BY <2>2, <3>3, <3>4, <3>5
  <2>3. QED BY <2>1, <2>2
<1>7. both[m].code = <<>> /\ m \in DOMAIN both
  BY <1>4, <1>6
<1> HIDE DEF both
<1>8. IsModule(placed) /\ IsPlacing(both, m, placed)
  BY <1>6, <1>7, PlacedBlock DEF CodeInv
<1> HIDE DEF placed
<1>9. /\ DOMAIN new = DOMAIN bs
      /\ \A c \in DOMAIN bs : c # m => new[c].code = both[c].code
      /\ new[m].code = <<ins>>
  <2>1. /\ DOMAIN placed = DOMAIN bs /\ m \in DOMAIN placed /\ placed[m].code = <<>>
        /\ \A c \in DOMAIN bs : c # m => placed[c].code = both[c].code
    BY <1>6, <1>7, <1>8 DEF IsPlacing
  <2>2. /\ DOMAIN new = DOMAIN placed /\ \A c \in DOMAIN placed : c # m => new[c] = placed[c]
        /\ new[m].code = Append(placed[m].code, ins)
    <3>1. IsModule(placed) /\ m \in DOMAIN placed
      BY <1>8, <2>1
    <3>2. \A c \in DOMAIN placed : c # m => new[c] = placed[c]
      BY <1>1, <3>1, Emitted
    <3>3. DOMAIN new = DOMAIN placed
      BY <1>1, <3>1, Emitted
    <3>4. new[m].code = Append(placed[m].code, ins)
      BY <1>1, <3>1, Emitted
    <3>5. QED BY <3>2, <3>3, <3>4
  <2>3. QED BY <2>1, <2>2, OnePhi
<1>10. Events(new[m].code) = <<>> /\ ~Ends(new[m].code)
  BY <1>9, OnePhi
<1>11. GoesOn(bs, new)
  <2>1. GoesOn(bs, both)
    BY <1>3, <1>6, GoesOnOn
  <2>2. Grows(both, new)
    BY <1>6, <1>7, <1>9, EmptyCode DEF Grows
  <2>3. ASSUME NEW b \in DOMAIN both PROVE Events(new[b].code) = Events(both[b].code)
    BY <1>6, <1>7, <1>9, <1>10, EventsEmpty
  <2>4. QED BY <2>1, <2>2, <2>3, GoesOnOn DEF GoesOn
<1>12. /\ ~EndsRun(new[at].code)
       /\ \A run, x : x.block = at => NextOf(new[at].code, run, x) = Onto(bs, run, x, m)
  <2>1. new[at].code = ended[at].code
    BY <1>6, <1>9
  <2>2. ~EndsRun(ended[at].code)
    <3> DEFINE x == [block |-> at]
    <3>1. x.block = at
      OBVIOUS
    <3> HIDE DEF x
    <3>2. QED BY <1>3, <3>1, BranchesOnto
  <2>3. ASSUME NEW run, NEW x, x.block = at
        PROVE  NextOf(ended[at].code, run, x) = Onto(bs, run, x, m)
    BY <1>3, <2>3, AnyBranchesOnto
  <2>4. QED BY <2>1, <2>2, <2>3
<1>13. ASSUME ~IsOr(f)
       PROVE  /\ ~EndsRun(new[s].code)
              /\ \A run, x : x.block = s => /\ NextOf(new[s].code, run, x).block = m
                                            /\ NextOf(new[s].code, run, x).from = s
  <2>1. new[s].code = both[s].code /\ IsAdded(ended, s, Br(m), both)
    BY <1>6, <1>9, <1>13
  <2>2. ~EndsRun(both[s].code)
    <3> DEFINE x == [block |-> s]
    <3>1. x.block = s
      OBVIOUS
    <3> HIDE DEF x
    <3>2. QED BY <2>1, <3>1, BranchesOnto
  <2>3. ASSUME NEW run, NEW x, x.block = s
        PROVE  NextOf(both[s].code, run, x).block = m /\ NextOf(both[s].code, run, x).from = s
    <3>1. NextOf(both[s].code, run, x) = Onto(ended, run, x, m)
      BY <2>1, <2>3, AnyBranchesOnto
    <3>2. Onto(ended, run, x, m).block = m /\ Onto(ended, run, x, m).from = x.block
      BY DEF Onto
    <3>3. QED BY <2>3, <3>1, <3>2
  <2>4. QED BY <2>1, <2>2, <2>3
<1>14. \A c \in DOMAIN bs : c \notin {at, s, m} => new[c].code = bs[c].code
  BY <1>4, <1>6, <1>9
<1>15. QED BY <1>9, <1>10, <1>11, <1>12, <1>13, <1>14 DEF LeadsBoth

\* The operator has been lowered, and call h returns.
EndsLogical(cs, ds, h) ==
  /\ OnlyTop(cs, ds, h) /\ h \in Holders(cs) /\ h \notin Holders(ds)
  /\ cs[h].function \in RhsFunctions
\* A run that got to the operator has got to its end, from the right operand if it
\* evaluated it.
AtEnd(bs, at, f, pth, run, here, there) ==
  /\ run \in pth => there = Onto(bs, run, here, f.merge) /\ here.block = at
  /\ run \in Waits(f) => there.block = f.merge /\ there.from = f.short

LEMMA RhsFacts ==
  ASSUME NEW f, f.function \in RhsFunctions
  PROVE  /\ Held(f) = {f.merge, f.short} /\ Side(f) = f.short
         /\ WaitsAt(f) = IF f.function = "LowerLogicalOr rhs" THEN f.merge ELSE f.short
         /\ \A run : run \in f.path <=> run \in Goes(f) \/ run \in Waits(f)
         /\ \A run : ~(run \in Goes(f) /\ run \in Waits(f))
         /\ f.function # "LowerIf else" /\ f.function \in HoldingFunctions
         /\ f.function # "LowerLogicalOr rhs" => f.function = "LowerLogicalAnd rhs"
  BY DEF RhsFunctions, Held, Side, WaitsAt, Goes, Waits, HoldingFunctions

LEMMA LogicalSeen ==
  ASSUME NEW bs, NEW at, NEW cs, NEW d, ModuleInv(bs, at, cs, d), ~Ends(bs[at].code),
         NEW ds, NEW h, EndsLogical(cs, ds, h),
         NEW pth, NEW run, NEW w, NEW t, Follows(bs, run, w, t),
         Situated(bs, at, cs, pth, run, Last(w)),
         NEW ins, ins.op = "phi", NEW new, IsMerged(bs, at, cs[h], ins, new)
  PROVE  /\ run \in Goes(cs[h]) <=> run \in pth
         /\ new[cs[h].merge].code = <<ins>>
         /\ \E v : /\ Follows(new, run, v, t)
                   /\ Situated(new, cs[h].merge, ds, cs[h].path, run, Last(v))
                   /\ AtEnd(bs, at, cs[h], pth, run, Last(w), Last(v))
<1> DEFINE here == Last(w)
           f == cs[h]
           m == f.merge
           s == f.short
           isOr == f.function = "LowerLogicalOr rhs"
           qth == f.path
<1>1. /\ OnlyTop(cs, ds, h) /\ h \in Holders(cs) /\ h \notin Holders(ds)
      /\ f.function \in RhsFunctions
  BY DEF EndsLogical
<1>2. /\ Held(f) = {m, s} /\ Side(f) = s
      /\ WaitsAt(f) = IF isOr THEN m ELSE s
      /\ run \in qth <=> run \in Goes(f) \/ run \in Waits(f)
      /\ ~(run \in Goes(f) /\ run \in Waits(f))
      /\ f.function # "LowerIf else"
      /\ ~isOr => f.function = "LowerLogicalAnd rhs"
  BY <1>1, RhsFacts
<1>3. /\ CodeInv(bs, d) /\ at \in DOMAIN bs /\ bs[at].placed = TRUE
      /\ HolderInv(bs, f) /\ Held(f) \subseteq DOMAIN bs /\ at \notin Held(f)
      /\ \A k \in Holders(cs) : k # h => Held(cs[k]) \cap Held(f) = {}
  BY <1>1, HolderFacts
<1>4. /\ m \in DOMAIN bs /\ s \in DOMAIN bs /\ at # s /\ at # m /\ s # m
      /\ bs[m].code = <<>> /\ bs[s].placed = TRUE
      /\ ~isOr => bs[s].code = <<>>
      /\ isOr => bs[s].code = <<Br(m)>>
  BY <1>2, <1>3 DEF HolderInv
<1>5. LeadsBoth(bs, at, f, s, m, ins, new)
  BY <1>3, <1>4, MergedLeads DEF IsOr
<1>6. /\ DOMAIN new = DOMAIN bs /\ GoesOn(bs, new)
      /\ \A c \in DOMAIN bs : c \notin {at, s, m} => new[c].code = bs[c].code
      /\ ~EndsRun(new[at].code)
      /\ \A x : x.block = at => NextOf(new[at].code, run, x) = Onto(bs, run, x, m)
      /\ ~isOr => /\ ~EndsRun(new[s].code)
                /\ \A x : x.block = s => /\ NextOf(new[s].code, run, x).block = m
                                         /\ NextOf(new[s].code, run, x).from = s
      /\ new[m].code = <<ins>> /\ Events(new[m].code) = <<>> /\ ~Ends(new[m].code)
  BY <1>5 DEF LeadsBoth, IsOr
<1>7. FollowsTo(bs, run, w, t) /\ EndsRun(bs[here.block].code) /\ here.block \in DOMAIN bs
  BY PathFacts DEF Follows, IsRun, FollowsTo
<1>0. Situated(bs, at, cs, pth, run, here)
  OBVIOUS
<1>8. /\ run \in pth <=> here.block = at
      /\ HolderHas(run, here, f)
      /\ run \in Goes(f) <=> run \in pth \/ \E k \in Holders(cs) : k > h /\ run \in Waits(cs[k])
  BY <1>1 DEF Situated
<1>9. \A k \in Holders(cs) :
        /\ HolderHas(run, here, cs[k]) /\ cs[k].function \in HoldingFunctions
        /\ here.block \in Held(f) /\ k # h => here.block \notin Held(cs[k])
        /\ run \in pth => here.block \notin Held(cs[k])
        /\ k # h => m \notin Held(cs[k])
  <2>1. \A k \in Holders(cs) :
        /\ HolderHas(run, here, cs[k]) /\ cs[k].function \in HoldingFunctions
        /\ run \in pth => here.block \notin Held(cs[k])
    BY WhereRunsAre
  <2>2. \A k \in Holders(cs) : k # h => \A b \in Held(f) : b \notin Held(cs[k])
    BY <1>3
  <2>3. QED BY <1>2, <2>1, <2>2
<1>10. run \in Goes(f) <=> run \in pth
  <2>1. ~\E k \in Holders(cs) : k > h
    BY <1>1 DEF OnlyTop
  <2>2. QED BY <1>8, <2>1
<1>11. run \in Waits(f) <=> here.block = (IF isOr THEN m ELSE s)
  BY <1>2, <1>8 DEF HolderHas
<1>12. Balanced(cs, pth, ds, qth, h, run)
  BY <1>1, <1>2, <1>10 DEF Balanced
<1> HIDE DEF here, f, m, s, isOr, qth
<1>13. ASSUME NEW there, Gets(new, m, qth, run, there), OthersHave(cs, h, run, there)
       PROVE  Situated(new, m, ds, qth, run, there)
  <2>1. HolderSituated(ds, qth, h, run, there)
    BY <1>1 DEF HolderSituated
  <2>2. Shifts(cs, pth, new, m, ds, qth, h, run, there)
    BY <1>1, <1>12, <1>13, <2>1 DEF Shifts
  <2>3. QED BY <1>0, <2>2, Shifted
<1>14. EndsRun(new[m].code)
  BY <1>6 DEF EndsRun
<1>15. ASSUME NEW next, next.block = m, ~EndsRun(new[here.block].code),
              next = NextOf(new[here.block].code, run, here), here.block # m
       PROVE  Follows(new, run, Append(w, next), t) /\ Last(Append(w, next)) = next
  <2>1. IsFresh(bs, w, m)
    BY <1>4, <1>15, EmptyCode DEF IsFresh, here
  <2>2. FollowsTo(new, run, Append(w, next), t) /\ Last(Append(w, next)) = next
    BY <1>4, <1>6, <1>7, <1>15, <2>1, RunGoesOn DEF here
  <2>3. QED BY <1>14, <1>15, <2>2 DEF Follows, FollowsTo, IsRun
<1>16. \E v : /\ Follows(new, run, v, t)
              /\ Situated(new, m, ds, qth, run, Last(v))
              /\ AtEnd(bs, at, f, pth, run, here, Last(v))
  <2>1. CASE run \in pth
    <3> DEFINE next == Onto(bs, run, here, m)
               v == Append(w, next)
    <3>1. here.block = at /\ next.block = m /\ next = NextOf(new[at].code, run, here)
      BY <1>6, <1>8, <2>1 DEF Onto
    <3> HIDE DEF next
    <3>2. Follows(new, run, v, t) /\ Last(v) = next
      BY <1>4, <1>6, <1>15, <3>1
    <3>3. Gets(new, m, qth, run, next)
      BY <1>2, <1>6, <1>10, <2>1, <3>1 DEF Gets, qth
    <3>4. OthersHave(cs, h, run, next)
      BY <1>9, <2>1, <3>1, HolderElsewhere DEF OthersHave
    <3>5. run \notin Waits(f)
      BY <1>2, <1>10, <2>1
    <3>6. AtEnd(bs, at, f, pth, run, here, next)
      BY <3>1, <3>5 DEF AtEnd, next, m
    <3>7. QED BY <1>13, <3>2, <3>3, <3>4, <3>6
  <2>2. CASE run \in Waits(f) /\ isOr
    <3>1. here.block = m /\ here.from = s
      BY <1>1, <1>8, <1>11, <2>2 DEF HolderHas, isOr, m, s
    <3>2. Follows(new, run, w, t)
      BY <1>6, <1>7, <1>14, <3>1, RunStays DEF here
    <3>3. Gets(new, m, qth, run, here) /\ OthersHave(cs, h, run, here)
      BY <1>2, <1>6, <1>9, <2>2, <3>1 DEF Gets, OthersHave, qth
    <3>4. run \notin pth
      BY <1>2, <1>10, <2>2
    <3>5. AtEnd(bs, at, f, pth, run, here, here)
      BY <3>1, <3>4 DEF AtEnd, m, s
    <3>6. QED BY <1>13, <3>2, <3>3, <3>5 DEF here
  <2>3. CASE run \in Waits(f) /\ ~isOr
    <3> DEFINE next == NextOf(new[s].code, run, here)
               v == Append(w, next)
    <3>1. here.block = s /\ next.block = m /\ next.from = s
      BY <1>6, <1>11, <2>3
    <3> HIDE DEF next
    <3>2. Follows(new, run, v, t) /\ Last(v) = next
      BY <1>4, <1>6, <1>15, <2>3, <3>1 DEF next
    <3>3. Gets(new, m, qth, run, next)
      BY <1>2, <1>6, <2>3, <3>1 DEF Gets, qth
    <3>4. here.block \in Held(f)
      BY <1>2, <3>1 DEF m, s
    <3>5. OthersHave(cs, h, run, next)
      BY <1>9, <3>1, <3>4, HolderElsewhere DEF OthersHave
    <3>6. run \notin pth
      BY <1>2, <1>10, <2>3
    <3>7. AtEnd(bs, at, f, pth, run, here, next)
      BY <3>1, <3>6 DEF AtEnd, m, s
    <3>8. QED BY <1>13, <3>2, <3>3, <3>5, <3>7
  <2>4. CASE run \notin pth /\ run \notin Waits(f)
    <3>1. here.block \notin {at, s, m}
      <4>1. here.block # at /\ here.block # WaitsAt(f)
        BY <1>8, <2>4 DEF HolderHas
      <4>2. here.block \in Held(f) => here.block = WaitsAt(f)
        BY <1>8 DEF HolderHas
      <4>3. QED BY <1>2, <4>1, <4>2 DEF m, s
    <3>2. EndsRun(new[here.block].code)
      BY <1>6, <1>7, <3>1
    <3>3. Follows(new, run, w, t)
      BY <1>6, <1>7, <3>2, RunStays DEF here
    <3>4. Gets(new, m, qth, run, here) /\ OthersHave(cs, h, run, here)
      BY <1>2, <1>9, <1>10, <2>4, <3>1 DEF Gets, OthersHave, qth
    <3>5. AtEnd(bs, at, f, pth, run, here, here)
      BY <2>4 DEF AtEnd
    <3>6. QED BY <1>13, <3>3, <3>4, <3>5 DEF here
  <2>5. QED BY <2>1, <2>2, <2>3, <2>4
<1>17. QED BY <1>6, <1>10, <1>16 DEF here, f, m, qth

-----------------------------------------------------------------------------
(* Calls, again *)

LEMMA Top ==
  ASSUME NEW bs, NEW at, NEW cs, StackInv(bs, at, cs), cs # <<>>
  PROVE  ~(Len(cs) > Len(cs)) /\ \A k \in Holders(cs) : k # Len(cs) => Len(cs) > k /\ ~(k > Len(cs))
<1>1. Len(cs) \in Nat /\ DOMAIN cs = 1..Len(cs)
  BY StackFacts DEF StackInv
<1>2. QED BY <1>1 DEF Holders

LEMMA TopReplaced ==
  ASSUME NEW bs, NEW at, NEW cs, StackInv(bs, at, cs), cs # <<>>,
         NEW f, f.function \in HoldingFunctions, NEW ds, IsReplaced(cs, f, ds)
  PROVE  OnlyTop(cs, ds, Len(cs)) /\ Len(cs) \in Holders(ds) /\ ds[Len(cs)] = f /\ IsStack(ds)
<1>1. /\ IsStack(ds) /\ DOMAIN ds = DOMAIN cs /\ ds[Len(cs)] = f
      /\ \A i \in DOMAIN cs : i # Len(cs) => ds[i] = cs[i]
  BY Replaced DEF IsReplaced, StackInv
<1>2. Len(cs) \in DOMAIN cs
  BY StackFacts DEF StackInv
<1>3. Holders(ds) \subseteq Holders(cs) \cup {Len(cs)}
  BY <1>1 DEF Holders
<1>4. \A k \in Holders(cs) : k # Len(cs) => k \in Holders(ds) /\ ds[k] = cs[k]
  BY <1>1 DEF Holders
<1>5. Len(cs) \in Holders(ds)
  BY <1>1, <1>2 DEF Holders
<1>6. QED BY <1>1, <1>3, <1>4, <1>5, Top DEF OnlyTop

LEMMA TopPushed ==
  ASSUME NEW cs, NEW mid, NEW h, OnlyTop(cs, mid, h), h \in Holders(mid), IsStack(mid),
         NEW g, g.function \notin HoldingFunctions, NEW ds, IsPushed(mid, g, ds)
  PROVE  OnlyTop(cs, ds, h) /\ h \in Holders(ds) /\ ds[h] = mid[h]
<1>1. /\ DOMAIN ds = 1..(Len(mid) + 1) /\ DOMAIN mid = 1..Len(mid) /\ Len(mid) \in Nat
      /\ \A i \in DOMAIN mid : ds[i] = mid[i]
      /\ ds[Len(mid) + 1] = g
  BY Pushed, StackFacts DEF IsPushed
<1>2. Holders(ds) = Holders(mid) /\ \A k \in Holders(mid) : ds[k] = mid[k]
  <2>1. \A i \in DOMAIN ds : i \in DOMAIN mid \/ i = Len(mid) + 1
    BY <1>1
  <2>2. DOMAIN mid \subseteq DOMAIN ds
    BY <1>1
  <2>3. QED BY <1>1, <2>1, <2>2 DEF Holders
<1>3. QED BY <1>2 DEF OnlyTop

LEMMA TopPopped ==
  ASSUME NEW bs, NEW at, NEW cs, StackInv(bs, at, cs), cs # <<>>, NEW ds, ds = Front(cs)
  PROVE  OnlyTop(cs, ds, Len(cs)) /\ Len(cs) \notin Holders(ds)
<1>1. /\ DOMAIN ds = 1..(Len(cs) - 1) /\ Len(cs) \in Nat /\ DOMAIN cs = 1..Len(cs)
      /\ \A i \in DOMAIN ds : ds[i] = cs[i]
  BY Popped, StackFacts DEF StackInv
<1>2. \A k \in DOMAIN cs : k # Len(cs) => k \in DOMAIN ds
  BY <1>1
<1>3. Len(cs) \notin DOMAIN ds /\ DOMAIN ds \subseteq DOMAIN cs
  BY <1>1
<1>4. QED BY <1>1, <1>2, <1>3, Top DEF OnlyTop, Holders

\* A call that holds nothing returns.
LEMMA NonHolderPopped ==
  ASSUME NEW bs, NEW at, NEW cs, StackInv(bs, at, cs), cs # <<>>, NEW ds, ds = Front(cs),
         Last(cs).function \notin HoldingFunctions
  PROVE  Holders(ds) = Holders(cs) /\ \A k \in Holders(cs) : ds[k] = cs[k]
<1>1. Len(cs) \notin Holders(cs)
  BY OnTop
<1>2. QED BY <1>1, TopPopped DEF OnlyTop

LEMMA NonHolderPushed ==
  ASSUME NEW bs, NEW at, NEW cs, StackInv(bs, at, cs), NEW f, NEW ds, IsPushed(cs, f, ds),
         f.function \notin HoldingFunctions
  PROVE  Holders(ds) = Holders(cs) /\ \A k \in Holders(cs) : ds[k] = cs[k]
<1>1. /\ DOMAIN ds = 1..(Len(cs) + 1) /\ DOMAIN cs = 1..Len(cs) /\ Len(cs) \in Nat
      /\ \A i \in DOMAIN cs : ds[i] = cs[i]
      /\ ds[Len(cs) + 1] = f
  BY Pushed, StackFacts DEF IsPushed, StackInv
<1>2. \A i \in DOMAIN ds : i \in DOMAIN cs \/ i = Len(cs) + 1
  BY <1>1
<1>3. DOMAIN cs \subseteq DOMAIN ds
  BY <1>1
<1>4. QED BY <1>1, <1>2, <1>3 DEF Holders

\* Below a call of statements there are only such calls.
LEMMA StatementsBelow ==
  ASSUME NEW bs, NEW at, NEW cs, StackInv(bs, at, cs), cs # <<>>,
         Last(cs).function \in OnStatements
  PROVE  NoRhs(cs)
<1> DEFINE n == Len(cs)
           T == {i \in 0..(n - 1) : cs[n - i].function \in OnStatements}
<1>1. n \in Nat /\ n > 0 /\ DOMAIN cs = 1..n /\ cs[n] = Last(cs)
  BY StackFacts DEF StackInv
<1>2. \A i \in DOMAIN cs : i > 1 /\ cs[i].function \in OnStatements =>
        cs[i - 1].function \in OnStatements
  BY DEF StackInv, OnStatements
<1> HIDE DEF n
<1>3. 0 \in T
  BY <1>1
<1>4. ASSUME NEW i \in 0..((n - 1) - 1), i \in T PROVE i + 1 \in T
  <2>1. n - i \in DOMAIN cs /\ n - i > 1 /\ (n - i) - 1 = n - (i + 1) /\ i + 1 \in 0..(n - 1)
    BY <1>1
  <2>2. cs[(n - i) - 1].function \in OnStatements
    BY <1>2, <1>4, <2>1
  <2>3. cs[n - (i + 1)].function \in OnStatements
    BY <2>1, <2>2
  <2>4. QED BY <2>1, <2>3
<1>5. \A i \in 0..(n - 1) : i \in T
  <2> HIDE DEF T
  <2>1. n - 1 \in Nat
    BY <1>1
  <2>2. QED BY <1>3, <1>4, <2>1, InductionUpTo
<1>6. \A k \in DOMAIN cs : cs[k].function \in OnStatements
  <2> TAKE k \in DOMAIN cs
  <2>1. n - k \in 0..(n - 1) /\ n - (n - k) = k
    BY <1>1
  <2>2. n - k \in T
    BY <1>5, <2>1
  <2>3. cs[n - (n - k)].function \in OnStatements
    BY <2>2
  <2>4. QED BY <2>1, <2>3
<1>7. RhsFunctions \cap OnStatements = {}
  BY DEF RhsFunctions, OnStatements, StatementFunctions
<1>8. QED BY <1>6, <1>7 DEF NoRhs, Holders

\* Calls of expressions are on a call that asks for an expression.
ExpressionsAsked(cs) ==
  \A i \in DOMAIN cs : i > 1 /\ cs[i].function \notin OnStatements =>
    cs[i - 1].function \notin StatementFunctions

LEMMA AskedPushed ==
  ASSUME NEW cs, IsStack(cs), ExpressionsAsked(cs), NEW f, NEW ds, IsPushed(cs, f, ds), cs # <<>>,
         f.function \notin OnStatements => Last(cs).function \notin StatementFunctions
  PROVE  ExpressionsAsked(ds)
<1>1. /\ DOMAIN ds = 1..(Len(cs) + 1) /\ DOMAIN cs = 1..Len(cs) /\ Len(cs) \in Nat /\ Len(cs) > 0
      /\ Last(cs) = cs[Len(cs)]
      /\ \A i \in DOMAIN cs : ds[i] = cs[i]
      /\ ds[Len(cs) + 1] = f
  BY Pushed, StackFacts DEF IsPushed
<1>2. ASSUME NEW i \in DOMAIN ds, i > 1, ds[i].function \notin OnStatements
      PROVE  ds[i - 1].function \notin StatementFunctions
  <2>1. CASE i = Len(cs) + 1
    <3>1. i - 1 = Len(cs) /\ Len(cs) \in DOMAIN cs
      BY <1>1, <2>1
    <3>2. ds[i - 1] = Last(cs) /\ ds[i] = f
      BY <1>1, <2>1, <3>1
    <3>3. QED BY <1>2, <3>2
  <2>2. CASE i # Len(cs) + 1
    <3>1. i \in DOMAIN cs /\ i - 1 \in DOMAIN cs
      BY <1>1, <1>2, <2>2
    <3>2. ds[i] = cs[i] /\ ds[i - 1] = cs[i - 1]
      BY <1>1, <3>1
    <3>3. QED BY <1>2, <3>1, <3>2 DEF ExpressionsAsked
  <2>3. QED BY <2>1, <2>2
<1>3. QED BY <1>2 DEF ExpressionsAsked

LEMMA AskedPopped ==
  ASSUME NEW cs, IsStack(cs), ExpressionsAsked(cs), cs # <<>>, NEW ds, ds = Front(cs)
  PROVE  /\ ExpressionsAsked(ds) /\ IsStack(ds)
         /\ Last(cs).function \notin OnStatements /\ Len(cs) > 1 =>
              ds # <<>> /\ Last(ds).function \notin StatementFunctions
<1>1. /\ IsStack(ds) /\ Len(ds) = Len(cs) - 1 /\ DOMAIN ds = 1..(Len(cs) - 1)
      /\ \A i \in DOMAIN ds : ds[i] = cs[i]
  BY Popped
<1>2. /\ Len(cs) \in Nat /\ Len(cs) > 0 /\ DOMAIN cs = 1..Len(cs) /\ Last(cs) = cs[Len(cs)]
      /\ ds = <<>> <=> Len(ds) = 0
      /\ ds # <<>> => Last(ds) = ds[Len(ds)]
  BY <1>1, StackFacts
<1>3. ASSUME NEW i \in DOMAIN ds, i > 1, ds[i].function \notin OnStatements
      PROVE  ds[i - 1].function \notin StatementFunctions
  <2>1. i \in DOMAIN cs /\ i - 1 \in DOMAIN ds
    BY <1>1, <1>2, <1>3
  <2>2. ds[i] = cs[i] /\ ds[i - 1] = cs[i - 1]
    BY <1>1, <2>1
  <2>3. QED BY <1>3, <2>1, <2>2 DEF ExpressionsAsked
<1>4. ASSUME Last(cs).function \notin OnStatements, Len(cs) > 1
      PROVE  ds # <<>> /\ Last(ds).function \notin StatementFunctions
  <2>1. Len(cs) \in DOMAIN cs /\ Len(ds) \in DOMAIN ds /\ Len(ds) # 0
    BY <1>1, <1>2, <1>4
  <2>2. cs[Len(cs) - 1].function \notin StatementFunctions
    BY <1>2, <1>4, <2>1 DEF ExpressionsAsked
  <2>3. Last(ds) = cs[Len(cs) - 1]
    BY <1>1, <1>2, <2>1
  <2>4. QED BY <1>2, <2>1, <2>2, <2>3
<1>5. QED BY <1>1, <1>3, <1>4 DEF ExpressionsAsked

LEMMA AskedReplaced ==
  ASSUME NEW cs, IsStack(cs), ExpressionsAsked(cs), cs # <<>>, NEW f, NEW ds, IsReplaced(cs, f, ds),
         f.function \notin OnStatements => Last(cs).function \notin OnStatements
  PROVE  ExpressionsAsked(ds) /\ IsStack(ds) /\ ds # <<>> /\ Last(ds) = f
<1>1. /\ IsStack(ds) /\ Len(ds) = Len(cs) /\ DOMAIN ds = DOMAIN cs
      /\ \A i \in DOMAIN cs : i # Len(cs) => ds[i] = cs[i]
      /\ ds[Len(cs)] = f
  BY Replaced DEF IsReplaced
<1>2. /\ Len(cs) \in Nat /\ Len(cs) > 0 /\ DOMAIN cs = 1..Len(cs) /\ Last(cs) = cs[Len(cs)]
      /\ ds = <<>> <=> Len(ds) = 0
      /\ ds # <<>> => Last(ds) = ds[Len(ds)]
  BY <1>1, StackFacts
<1>3. ds # <<>> /\ Last(ds) = f
  BY <1>1, <1>2
<1>4. ASSUME NEW i \in DOMAIN ds, i > 1, ds[i].function \notin OnStatements
      PROVE  ds[i - 1].function \notin StatementFunctions
  <2>1. i - 1 \in DOMAIN cs /\ i - 1 # Len(cs)
    BY <1>1, <1>2, <1>4
  <2>2. ds[i - 1] = cs[i - 1]
    BY <1>1, <2>1
  <2>3. cs[i].function \notin OnStatements
    BY <1>1, <1>2, <1>4
  <2>4. QED BY <1>1, <1>4, <2>2, <2>3 DEF ExpressionsAsked
<1>5. QED BY <1>1, <1>3, <1>4 DEF ExpressionsAsked

-----------------------------------------------------------------------------
(* The events of the body, and the invariant *)

EventsBy(exp, run) == FlattenSeq([e \in DOMAIN exp |-> Seen(exp[e], run, e)])

LEMMA OneMore ==
  ASSUME NEW exp, IsStack(exp), NEW p, NEW run
  PROVE  EventsBy(Append(exp, p), run) = EventsBy(exp, run) \o Seen(p, run, Len(exp) + 1)
<1> DEFINE n == Len(exp)
           new == Append(exp, p)
           V == Seq(Nat)
           picks(x) == [e \in DOMAIN x |-> Seen(x[e], run, e)]
<1>1. /\ n \in Nat /\ DOMAIN exp = 1..n /\ DOMAIN new = 1..(n + 1)
      /\ \A i \in 1..n : new[i] = exp[i]
      /\ new[n + 1] = p
  BY StackFacts, Pushed
<1>2. <<>> \in V /\ \A e \in Nat : <<e>> \in V
  OBVIOUS
<1> HIDE DEF V, n, new
<1>3. \A q : \A e \in Nat : Seen(q, run, e) \in V
  BY <1>2 DEF Seen
<1>4. picks(exp) \in Seq(V) /\ Len(picks(exp)) = n
  <2>1. picks(exp) \in [1..n -> V]
    BY <1>1, <1>3
  <2>2. QED BY <1>1, <2>1
<1>5. picks(new) = Append(picks(exp), Seen(p, run, n + 1))
  <2>1. DOMAIN picks(new) = 1..(n + 1)
    BY <1>1
  <2>2. \A i \in 1..n : picks(new)[i] = picks(exp)[i]
    BY <1>1
  <2>3. picks(new)[n + 1] = Seen(p, run, n + 1)
    BY <1>1
  <2>4. picks(new) \in Seq(V)
    <3>1. picks(new) \in [1..(n + 1) -> V]
      BY <1>1, <1>3
    <3>2. QED BY <1>1, <3>1
  <2>5. Seen(p, run, n + 1) \in V
    BY <1>1, <1>3
  <2> HIDE DEF picks
  <2>6. QED BY <1>1, <1>4, <2>1, <2>2, <2>3, <2>4, <2>5
<1>6. EventsBy(exp, run) = FlattenSeq(picks(exp)) /\ EventsBy(new, run) = FlattenSeq(picks(new))
  BY DEF EventsBy
<1> HIDE DEF picks
<1>7. FlattenSeq(Append(picks(exp), Seen(p, run, n + 1)))
        = FlattenSeq(picks(exp)) \o Seen(p, run, n + 1)
  <2>1. Seen(p, run, n + 1) \in V
    BY <1>1, <1>3
  <2>2. QED BY <1>4, <2>1, FlattenAppend DEF V
<1>8. QED BY <1>5, <1>6, <1>7 DEF new, n

\* Run has done the events of the body so far, and is where it is to be.
HasRun(bs, at, cs, pth, res, run, t) ==
  \E w : /\ Follows(bs, run, w, t)
         /\ cs # <<>> => /\ Situated(bs, at, cs, pth, run, Last(w))
                         /\ run \in pth => HasValue(bs, run, Last(w), res)
RunInv ==
  /\ IsStack(expected)
  /\ \A run \in Runs :
       HasRun(blocks, insert, calls, path, result, run, EventsBy(expected, run))
ExpressionInv ==
  /\ ExpressionsAsked(calls)
  /\ ~result.none => calls # <<>> /\ Last(calls).function \notin StatementFunctions
SInv == IInv /\ RunInv /\ ExpressionInv

\* Run has the events t in bs, in which the call of the expression returns nothing.
Reaches(bs, at, cs, pth, run, t) ==
  \E w : Follows(bs, run, w, t) /\ Situated(bs, at, cs, pth, run, Last(w))

LEMMA HasReached ==
  ASSUME NEW bs, NEW at, NEW cs, NEW pth, NEW res, NEW run, NEW t
  PROVE  /\ HasRun(bs, at, cs, pth, res, run, t) /\ cs # <<>> => Reaches(bs, at, cs, pth, run, t)
         /\ Reaches(bs, at, cs, pth, run, t) /\ res.none => HasRun(bs, at, cs, pth, res, run, t)
         /\ Reaches(bs, at, cs, {}, run, t) => HasRun(bs, at, cs, {}, res, run, t)
BY DEF HasRun, Reaches, HasValue

LEMMA ReachesSame ==
  ASSUME NEW bs, NEW at, NEW cs, NEW pth, NEW run, NEW t, Reaches(bs, at, cs, pth, run, t),
         NEW ds, Holders(ds) = Holders(cs), \A h \in Holders(cs) : ds[h] = cs[h]
  PROVE  Reaches(bs, at, ds, pth, run, t)
BY SituatedSame DEF Reaches

LEMMA EventReached ==
  ASSUME NEW bs, NEW at, NEW cs, NEW d, ModuleInv(bs, at, cs, d), ~Ends(bs[at].code),
         NEW pth, NEW run, NEW exp, IsStack(exp),
         Reaches(bs, at, cs, pth, run, EventsBy(exp, run)),
         NEW new, new = Emit(bs, at, Event(Len(exp) + 1))
  PROVE  Reaches(new, at, cs, pth, run, EventsBy(Append(exp, pth), run))
<1>1. Len(exp) + 1 \in Nat
  BY StackFacts
<1> DEFINE e == Len(exp) + 1
<1>2. EventsBy(Append(exp, pth), run) = EventsBy(exp, run) \o Seen(pth, run, e)
  BY OneMore
<1>3. PICK w : /\ Follows(bs, run, w, EventsBy(exp, run))
               /\ Situated(bs, at, cs, pth, run, Last(w))
  BY DEF Reaches
<1> HIDE DEF e
<1>4. /\ Follows(new, run, w, EventsBy(exp, run) \o Seen(pth, run, e))
      /\ Situated(new, at, cs, pth, run, Last(w))
  BY <1>1, <1>3, EventSeen DEF e
<1>5. QED BY <1>2, <1>4 DEF Reaches

LEMMA ReturnReached ==
  ASSUME NEW bs, NEW at, NEW cs, NEW d, ModuleInv(bs, at, cs, d), ~Ends(bs[at].code), NoRhs(cs),
         NEW pth, NEW run, NEW t, Reaches(bs, at, cs, pth, run, t),
         NEW new, new = Emit(bs, at, Ret(d))
  PROVE  Reaches(new, at, cs, {}, run, t)
BY ReturnSeen DEF Reaches

-----------------------------------------------------------------------------
(* Every action takes the runs where they are to be *)

LEMMA Facts ==
  ASSUME SInv
  PROVE  /\ ModuleInv(blocks, insert, calls, declared) /\ StackInv(blocks, insert, calls)
         /\ IsStack(expected) /\ IsStack(calls) /\ ExpressionsAsked(calls)
         /\ calls # <<>> => \A run \in Runs :
              Reaches(blocks, insert, calls, path, run, EventsBy(expected, run))
         /\ calls # <<>> /\ Last(calls).function \in StatementFunctions => result.none
BY HasReached DEF SInv, IInv, RunInv, ExpressionInv, StackInv

LEMMA SkipSeen == SInv /\ SkipStatement => RunInv' /\ ExpressionInv'
<1> SUFFICES ASSUME SInv, SkipStatement PROVE RunInv' /\ ExpressionInv'
  OBVIOUS
<1>1. /\ calls # <<>> /\ Last(calls).function = "LowerStatements" /\ Ends(blocks[insert].code)
      /\ expected' = Append(expected, path)
      /\ UNCHANGED <<blocks, insert, calls, result, path>>
  BY CurrentBlock DEF SkipStatement, Statement, Skips, Lowering
<1>2. /\ IsStack(expected) /\ result.none
      /\ \A run \in Runs : Reaches(blocks, insert, calls, path, run, EventsBy(expected, run))
  BY <1>1, Facts DEF StatementFunctions
<1>3. IsStack(expected')
  BY <1>1, <1>2, Pushed
<1>4. ASSUME NEW run \in Runs
      PROVE  Reaches(blocks, insert, calls, path, run, EventsBy(expected', run))
  <2>1. PICK w : /\ Follows(blocks, run, w, EventsBy(expected, run))
                 /\ Situated(blocks, insert, calls, path, run, Last(w))
    BY <1>2 DEF Reaches
  <2>2. run \notin path
    BY <1>1, <2>1 DEF Situated
  <2>3. Seen(path, run, Len(expected) + 1) = <<>>
    BY <2>2 DEF Seen
  <2>4. EventsBy(expected, run) \in Seq(Nat)
    BY <2>1, EventsAreNumbers DEF Follows
  <2>5. EventsBy(expected', run) = EventsBy(expected, run)
    <3>1. EventsBy(expected, run) \o <<>> = EventsBy(expected, run)
      BY <2>4, NoMoreEvents
    <3>2. QED BY <1>1, <1>2, <2>3, <3>1, OneMore
  <2>6. QED BY <2>1, <2>5 DEF Reaches
<1>5. QED BY <1>1, <1>2, <1>3, <1>4, HasReached DEF RunInv, ExpressionInv, SInv

LEMMA SimpleSeen == SInv /\ LowerSimple => RunInv' /\ ExpressionInv'
<1> SUFFICES ASSUME SInv, LowerSimple PROVE RunInv' /\ ExpressionInv'
  OBVIOUS
<1>1. /\ calls # <<>> /\ Last(calls).function = "LowerStatements" /\ ~Ends(blocks[insert].code)
      /\ blocks' = Emit(blocks, insert, Event(Len(expected) + 1))
      /\ expected' = Append(expected, path)
      /\ UNCHANGED <<insert, calls, result, path>>
  BY CurrentBlock DEF LowerSimple, LoweredStatement, Statement, Skips, Lowering, NextEvent
<1>2. /\ IsStack(expected) /\ result.none /\ ModuleInv(blocks, insert, calls, declared)
      /\ \A run \in Runs : Reaches(blocks, insert, calls, path, run, EventsBy(expected, run))
  BY <1>1, Facts DEF StatementFunctions
<1>3. IsStack(expected')
  BY <1>1, <1>2, Pushed
<1>4. ASSUME NEW run \in Runs
      PROVE  Reaches(blocks', insert, calls, path, run, EventsBy(expected', run))
  BY <1>1, <1>2, EventReached
<1>5. QED BY <1>1, <1>2, <1>3, <1>4, HasReached DEF RunInv, ExpressionInv, SInv

\* A call that holds nothing is made, or returns.
LEMMA CallSeen ==
  ASSUME SInv, calls # <<>>, NEW f,
         f \in {"LowerStatements", "LowerIf", "LowerReturn", "StoreIntoPointer",
                "LowerLogicalAnd", "LowerLogicalOr"},
         f \notin OnStatements => Last(calls).function \notin StatementFunctions,
         result.none, Call(f), UNCHANGED <<blocks, insert, path, expected, result>>
  PROVE  RunInv' /\ ExpressionInv'
<1> DEFINE frame == [function |-> f]
<1>1. IsPushed(calls, frame, calls')
  BY DEF Call, IsPushed
<1>2. /\ frame.function \notin HoldingFunctions
      /\ frame.function \notin OnStatements => Last(calls).function \notin StatementFunctions
  BY DEF HoldingFunctions
<1> HIDE DEF frame
<1>3. /\ StackInv(blocks, insert, calls) /\ IsStack(calls) /\ ExpressionsAsked(calls)
      /\ IsStack(expected)
      /\ \A run \in Runs : Reaches(blocks, insert, calls, path, run, EventsBy(expected, run))
  BY Facts
<1>4. Holders(calls') = Holders(calls) /\ \A k \in Holders(calls) : calls'[k] = calls[k]
  BY <1>1, <1>2, <1>3, NonHolderPushed
<1>5. ExpressionsAsked(calls')
  BY <1>1, <1>2, <1>3, AskedPushed
<1>6. ASSUME NEW run \in Runs
      PROVE  Reaches(blocks, insert, calls', path, run, EventsBy(expected, run))
  BY <1>3, <1>4, ReachesSame
<1>7. QED BY <1>3, <1>5, <1>6, HasReached DEF RunInv, ExpressionInv

LEMMA BlockSeen == SInv /\ LowerBlock => RunInv' /\ ExpressionInv'
<1> SUFFICES ASSUME SInv, LowerBlock PROVE RunInv' /\ ExpressionInv'
  OBVIOUS
<1>1. calls # <<>> /\ Last(calls).function = "LowerStatements" /\ Call("LowerStatements")
      /\ UNCHANGED <<blocks, insert, path, expected, result>>
  BY DEF LowerBlock, LoweredStatement, Statement, Lowering
<1>2. result.none /\ "LowerStatements" \in OnStatements
  BY <1>1, Facts DEF StatementFunctions, OnStatements
<1>3. QED BY <1>1, <1>2, CallSeen

LEMMA WithExpressionSeen == SInv /\ LowerWithExpression => RunInv' /\ ExpressionInv'
<1> SUFFICES ASSUME SInv, LowerWithExpression PROVE RunInv' /\ ExpressionInv'
  OBVIOUS
<1>1. calls # <<>> /\ Last(calls).function = "LowerStatements"
      /\ UNCHANGED <<blocks, insert, path, expected, result>>
  BY DEF LowerWithExpression, LoweredStatement, Statement, Lowering
<1>2. PICK f \in {"LowerIf", "LowerReturn", "StoreIntoPointer"} : Call(f)
  BY DEF LowerWithExpression
<1>3. result.none /\ f \in OnStatements
  BY <1>1, Facts DEF StatementFunctions, OnStatements
<1>4. QED BY <1>1, <1>2, <1>3, CallSeen

LEMMA LogicalBegun == SInv /\ LowerLogical => RunInv' /\ ExpressionInv'
<1> SUFFICES ASSUME SInv, LowerLogical PROVE RunInv' /\ ExpressionInv'
  OBVIOUS
<1>1. /\ calls # <<>> /\ Last(calls).function \notin StatementFunctions /\ result.none
      /\ UNCHANGED <<blocks, insert, path, expected, result>>
  BY DEF LowerLogical, Expecting, StatementFunctions
<1>2. PICK f \in {"LowerLogicalAnd", "LowerLogicalOr"} : Call(f)
  BY DEF LowerLogical
<1>3. QED BY <1>1, <1>2, CallSeen

\* What has returned nothing returns.
LEMMA ReturnsSeen ==
  ASSUME NEW cs, NEW bs, NEW at, StackInv(bs, at, cs), cs # <<>>,
         Last(cs).function \notin HoldingFunctions, NEW ds, ds = Front(cs),
         NEW new, NEW to, NEW pth, NEW run, NEW t, Reaches(new, to, cs, pth, run, t)
  PROVE  Reaches(new, to, ds, pth, run, t)
<1>1. Holders(ds) = Holders(cs) /\ \A k \in Holders(cs) : ds[k] = cs[k]
  BY NonHolderPopped
<1>2. QED BY <1>1, ReachesSame

LEMMA EndStatementsSeen == SInv /\ EndStatements => RunInv' /\ ExpressionInv'
<1> SUFFICES ASSUME SInv, EndStatements PROVE RunInv' /\ ExpressionInv'
  OBVIOUS
<1>1. /\ calls # <<>> /\ Last(calls).function = "LowerStatements" /\ calls' = Front(calls)
      /\ UNCHANGED <<blocks, insert, path, expected, result>>
  BY DEF EndStatements, Lowering, Return
<1>2. /\ StackInv(blocks, insert, calls) /\ IsStack(calls) /\ ExpressionsAsked(calls)
      /\ IsStack(expected) /\ result.none
      /\ \A run \in Runs : Reaches(blocks, insert, calls, path, run, EventsBy(expected, run))
  BY <1>1, Facts DEF StatementFunctions
<1>3. Last(calls).function \notin HoldingFunctions
  BY <1>1 DEF HoldingFunctions
<1>4. ExpressionsAsked(calls')
  BY <1>1, <1>2, AskedPopped
<1>5. \A run \in Runs : Reaches(blocks, insert, calls', path, run, EventsBy(expected, run))
  BY <1>1, <1>2, <1>3, ReturnsSeen
<1>6. QED BY <1>1, <1>2, <1>4, <1>5, HasReached DEF RunInv, ExpressionInv

LEMMA StoreSeen == SInv /\ Store => RunInv' /\ ExpressionInv'
<1> SUFFICES ASSUME SInv, Store PROVE RunInv' /\ ExpressionInv'
  OBVIOUS
<1>1. /\ calls # <<>> /\ Last(calls).function = "StoreIntoPointer"
      /\ blocks' = Emit(blocks, insert, Event(Len(expected) + 1))
      /\ expected' = Append(expected, path)
      /\ result' = NoResult /\ calls' = Front(calls)
      /\ UNCHANGED <<insert, path>>
  BY DEF Store, Returned, Lowering, Return, NextEvent
<1>2. /\ StackInv(blocks, insert, calls) /\ IsStack(calls) /\ ExpressionsAsked(calls)
      /\ IsStack(expected) /\ ModuleInv(blocks, insert, calls, declared)
      /\ \A run \in Runs : Reaches(blocks, insert, calls, path, run, EventsBy(expected, run))
  BY <1>1, Facts
<1>3. ~Ends(blocks[insert].code) /\ Last(calls).function \notin HoldingFunctions
  BY <1>1, <1>2, OnTop DEF StatementFunctions, HoldingFunctions
<1>4. result'.none /\ IsStack(expected') /\ ExpressionsAsked(calls')
  BY <1>1, <1>2, Pushed, AskedPopped DEF NoResult
<1>5. ASSUME NEW run \in Runs
      PROVE  Reaches(blocks', insert, calls', path, run, EventsBy(expected', run))
  <2>1. Reaches(blocks', insert, calls, path, run, EventsBy(expected', run))
    BY <1>1, <1>2, <1>3, EventReached
  <2>2. QED BY <1>1, <1>2, <1>3, <2>1, ReturnsSeen
<1>6. QED BY <1>1, <1>4, <1>5, HasReached DEF RunInv, ExpressionInv

\* A return statement leaves no run where the builder is.
LEMMA ReturnStatementSeen ==
  ASSUME SInv, calls # <<>>, Last(calls).function \in OnStatements, ~Ends(blocks[insert].code),
         blocks' = ReturnStatement(insert), expected' = Append(expected, path), NEW run \in Runs
  PROVE  Reaches(blocks', insert, calls, {}, run, EventsBy(expected', run))
<1> DEFINE done == Emit(blocks, insert, Event(Len(expected) + 1))
<1>1. /\ blocks' = Emit(done, insert, Ret(declared))
      /\ done = Emit(blocks, insert, Event(Len(expected) + 1))
  BY DEF ReturnStatement, NextEvent
<1>2. /\ StackInv(blocks, insert, calls) /\ ModuleInv(blocks, insert, calls, declared)
      /\ IsStack(expected)
      /\ Reaches(blocks, insert, calls, path, run, EventsBy(expected, run))
  BY Facts
<1> HIDE DEF done
<1>3. Reaches(done, insert, calls, path, run, EventsBy(expected', run))
  BY <1>1, <1>2, EventReached
<1>4. ModuleInv(done, insert, calls, declared) /\ ~Ends(done[insert].code)
  BY <1>1, <1>2, EventEmitted
<1>5. NoRhs(calls)
  BY <1>2, StatementsBelow
<1>6. QED BY <1>1, <1>3, <1>4, <1>5, ReturnReached

LEMMA LowerReturnSeen == SInv /\ LowerReturn => RunInv' /\ ExpressionInv'
<1> SUFFICES ASSUME SInv, LowerReturn PROVE RunInv' /\ ExpressionInv'
  OBVIOUS
<1>1. /\ ~Ends(blocks[insert].code) /\ calls # <<>> /\ Last(calls).function = "LowerStatements"
      /\ blocks' = ReturnStatement(insert)
      /\ expected' = Append(expected, path) /\ path' = {}
      /\ UNCHANGED <<insert, calls, result>>
  BY CurrentBlock DEF LowerReturn, LoweredStatement, Statement, Skips, Lowering
<1>2. IsStack(expected) /\ result.none /\ ExpressionsAsked(calls)
  BY <1>1, Facts DEF StatementFunctions
<1>3. Last(calls).function \in OnStatements
  BY <1>1 DEF OnStatements, StatementFunctions
<1>4. \A run \in Runs : Reaches(blocks', insert, calls, {}, run, EventsBy(expected', run))
  BY <1>1, <1>3, ReturnStatementSeen
<1>5. IsStack(expected')
  BY <1>1, <1>2, Pushed
<1>6. QED BY <1>1, <1>2, <1>4, <1>5, HasReached DEF RunInv, ExpressionInv

LEMMA ReturnValueSeen == SInv /\ LowerReturnValue => RunInv' /\ ExpressionInv'
<1> SUFFICES ASSUME SInv, LowerReturnValue PROVE RunInv' /\ ExpressionInv'
  OBVIOUS
<1>1. /\ calls # <<>> /\ Last(calls).function = "LowerReturn" /\ calls' = Front(calls)
      /\ blocks' = ReturnStatement(insert) /\ result' = NoResult
      /\ expected' = Append(expected, path) /\ path' = {}
      /\ UNCHANGED insert
  BY DEF LowerReturnValue, Returned, Lowering, Return
<1>2. /\ StackInv(blocks, insert, calls) /\ IsStack(calls) /\ ExpressionsAsked(calls)
      /\ IsStack(expected)
  BY <1>1, Facts
<1>3. /\ ~Ends(blocks[insert].code) /\ Last(calls).function \notin HoldingFunctions
      /\ Last(calls).function \in OnStatements
  BY <1>1, <1>2, OnTop DEF StatementFunctions, OnStatements, HoldingFunctions
<1>4. result'.none /\ IsStack(expected') /\ ExpressionsAsked(calls')
  BY <1>1, <1>2, Pushed, AskedPopped DEF NoResult
<1>5. ASSUME NEW run \in Runs
      PROVE  Reaches(blocks', insert, calls', {}, run, EventsBy(expected', run))
  <2>1. Reaches(blocks', insert, calls, {}, run, EventsBy(expected', run))
    BY <1>1, <1>3, ReturnStatementSeen
  <2>2. QED BY <1>1, <1>2, <1>3, <2>1, ReturnsSeen
<1>6. QED BY <1>1, <1>4, <1>5, HasReached DEF RunInv, ExpressionInv

LEMMA OperandSeen == SInv /\ LowerOperand => RunInv' /\ ExpressionInv'
<1> SUFFICES ASSUME SInv, LowerOperand PROVE RunInv' /\ ExpressionInv'
  OBVIOUS
<1> DEFINE n == operands + 1
<1>1. /\ calls # <<>> /\ Last(calls).function \notin StatementFunctions
      /\ blocks' = Emit(blocks, insert, Event(Len(expected) + 1))
      /\ expected' = Append(expected, path)
      /\ result' = Result(Operand(n), {run \in Runs : run[n]})
      /\ UNCHANGED <<insert, calls, path>>
  BY DEF LowerOperand, Expecting, NextEvent, StatementFunctions
<1> HIDE DEF n
<1>2. /\ StackInv(blocks, insert, calls) /\ ExpressionsAsked(calls)
      /\ IsStack(expected) /\ ModuleInv(blocks, insert, calls, declared)
      /\ \A run \in Runs : Reaches(blocks, insert, calls, path, run, EventsBy(expected, run))
  BY <1>1, Facts
<1>3. ~Ends(blocks[insert].code)
  BY <1>1, <1>2, OnTop
<1>4. IsStack(expected')
  BY <1>1, <1>2, Pushed
<1>5. ASSUME NEW run \in Runs, NEW here
      PROVE  HasValue(blocks', run, here, result')
  <2>1. result'.value = Operand(n) /\ result'.truth = {r \in Runs : r[n]}
    BY <1>1 DEF Result
  <2>2. Operand(n).is = "operand" /\ Operand(n).of = n
    BY DEF Operand
  <2>3. Evaluate(run, PhisOf(blocks'[here.block].code, run, here), Operand(n)) = run[n]
    BY <2>2 DEF Evaluate
  <2>4. run \in result'.truth <=> run[n]
    BY <2>1
  <2>5. QED BY <2>1, <2>3, <2>4 DEF HasValue
<1>6. ASSUME NEW run \in Runs
      PROVE  HasRun(blocks', insert, calls, path, result', run, EventsBy(expected', run))
  <2>1. Reaches(blocks', insert, calls, path, run, EventsBy(expected', run))
    BY <1>1, <1>2, <1>3, EventReached
  <2>2. QED BY <1>5, <2>1 DEF Reaches, HasRun
<1>7. QED BY <1>1, <1>2, <1>4, <1>6 DEF RunInv, ExpressionInv

LEMMA DefaultReturnSeen == SInv /\ EmitDefaultReturnIfNeeded => RunInv' /\ ExpressionInv'
<1> SUFFICES ASSUME SInv, EmitDefaultReturnIfNeeded PROVE RunInv' /\ ExpressionInv'
  OBVIOUS
<1>1. /\ calls # <<>> /\ Last(calls).function = "LowerStatements" /\ Len(calls) = 1
      /\ blocks' = IF Ends(blocks[insert].code) THEN blocks
                   ELSE Emit(blocks, insert, Ret(declared))
      /\ calls' = Front(calls) /\ UNCHANGED <<insert, result, path, expected>>
  BY CurrentBlock DEF EmitDefaultReturnIfNeeded, Lowering, Return, NeedsDefaultReturn
<1>2. /\ StackInv(blocks, insert, calls) /\ IsStack(calls) /\ ExpressionsAsked(calls)
      /\ IsStack(expected) /\ result.none /\ ModuleInv(blocks, insert, calls, declared)
      /\ \A run \in Runs : Reaches(blocks, insert, calls, path, run, EventsBy(expected, run))
  BY <1>1, Facts DEF StatementFunctions
<1>3. NoRhs(calls) /\ ExpressionsAsked(calls')
  BY <1>1, <1>2, StatementsBelow, AskedPopped DEF OnStatements, StatementFunctions
<1>4. calls' = <<>>
  <2>0. IsStack(Front(calls)) /\ Len(Front(calls)) = Len(calls) - 1
    BY <1>1, <1>2, Popped
  <2>1. IsStack(calls') /\ Len(calls') = 0
    BY <1>1, <2>0
  <2>2. QED BY <2>1, StackFacts
<1>5. ASSUME NEW run \in Runs
      PROVE  HasRun(blocks', insert, calls', path, result, run, EventsBy(expected, run))
  <2>1. \E w : Follows(blocks', run, w, EventsBy(expected, run))
    <3>1. CASE Ends(blocks[insert].code)
      BY <1>1, <1>2, <3>1 DEF Reaches
    <3>2. CASE ~Ends(blocks[insert].code)
      <4>1. Reaches(blocks', insert, calls, {}, run, EventsBy(expected, run))
        BY <1>1, <1>2, <1>3, <3>2, ReturnReached
      <4>2. QED BY <4>1 DEF Reaches
    <3>3. QED BY <3>1, <3>2
  <2>2. QED BY <1>4, <2>1 DEF HasRun
<1>6. QED BY <1>1, <1>2, <1>3, <1>5 DEF RunInv, ExpressionInv

\* The runs of pth go to x if the value v is true, and to y if not: qth to a, the others to e.
Chooses(bs, at, pth, qth, run, here, v, x, y, a, e) ==
  run \in pth =>
    IF Evaluate(run, PhisOf(bs[at].code, run, here), v)
      THEN x = IF run \in qth THEN a ELSE e
      ELSE y = IF run \in qth THEN a ELSE e

LEMMA ConditionSeen ==
  ASSUME NEW bs, NEW at, NEW cs, NEW d, ModuleInv(bs, at, cs, d), ~Ends(bs[at].code),
         NEW ds, NEW h, NEW a, NEW e, NEW m, NEW code, BeginsFork(bs, cs, ds, h, a, e, m, code),
         AreNext(bs, a, e, m),
         NEW pth, NEW qth, Divides(ds[h], pth, qth),
         NEW run, NEW w, NEW t, Follows(bs, run, w, t),
         Situated(bs, at, cs, pth, run, Last(w)),
         NEW v, NEW x, NEW y, Chooses(bs, at, pth, qth, run, Last(w), v, x, y, a, e),
         NEW new, IsForked(bs, at, CondBr(v, x, y), code, new)
  PROVE  Reaches(new, a, ds, qth, run, t)
<1> DEFINE ins == CondBr(v, x, y)
           ended == Emit(bs, at, ins)
           here == Last(w)
<1>1. CodeInv(bs, d) /\ at \in DOMAIN bs /\ bs[at].placed = TRUE
  BY DEF ModuleInv
<1>2. ins.op = "condbr"
  BY Conditions
<1>3. IsCode(code)
  BY EmptyCode, BranchCode DEF BeginsFork
<1>4. new = ended \o <<NewBlock(TRUE), [code |-> code, placed |-> TRUE], NewBlock(FALSE)>>
  BY DEF IsForked
<1>5. ended = Emit(bs, at, ins)
  OBVIOUS
<1>6. CodeInv(ended, d) /\ IsAdded(bs, at, ins, ended) /\ Len(ended) = Len(bs)
  <2> HIDE DEF ins
  <2>1. ins.op # "phi" /\ Returns(ins, d)
    BY <1>2 DEF Returns
  <2>2. CodeInv(ended, d) /\ IsAdded(bs, at, ins, ended)
    BY <1>1, <2>1, AddedTo
  <2>3. CodeInv(ended, d) /\ IsEmission(bs, at, ins, ended)
    BY <1>1, <2>1, EmittedCode
  <2>4. QED BY <2>2, <2>3 DEF IsEmission
<1>7. run \in pth => here.block = at
  BY DEF Situated
<1>8. ASSUME run \in pth PROVE LeadsTo(bs, run, here, ended, qth, a, e)
  <2>1. IsAdded(bs, here.block, CondBr(v, x, y), ended)
    BY <1>6, <1>7, <1>8
  <2> HIDE DEF ended, here
  <2>2. /\ Evaluate(run, PhisOf(bs[here.block].code, run, here), v)
              => NextOf(ended[here.block].code, run, here) = Onto(bs, run, here, x)
        /\ ~Evaluate(run, PhisOf(bs[here.block].code, run, here), v)
              => NextOf(ended[here.block].code, run, here) = Onto(bs, run, here, y)
    BY <2>1, ForksOnto
  <2>3. CASE Evaluate(run, PhisOf(bs[here.block].code, run, here), v)
    <3>1. x = IF run \in qth THEN a ELSE e
      BY <1>7, <1>8, <2>3 DEF Chooses, here
    <3>2. QED BY <2>2, <2>3, <3>1 DEF LeadsTo
  <2>4. CASE ~Evaluate(run, PhisOf(bs[here.block].code, run, here), v)
    <3>1. y = IF run \in qth THEN a ELSE e
      BY <1>7, <1>8, <2>4 DEF Chooses, here
    <3>2. QED BY <2>2, <2>4, <3>1 DEF LeadsTo
  <2>5. QED BY <2>3, <2>4
<1> HIDE DEF ended, ins
<1>9. IsExtension(ended, code, a, e, m, new)
  BY <1>3, <1>4, <1>6, Extended DEF CodeInv, AreNext
<1>10. \E u : Follows(new, run, u, t) /\ Situated(new, a, ds, qth, run, Last(u))
  BY ZenonT(60), <1>2, <1>6, <1>8, <1>9, ForkSeen DEF here
<1>11. QED BY <1>10 DEF Reaches

\* The value of a condition is known, and runs are where they are to be.
LEMMA ValueFacts ==
  ASSUME SInv, calls # <<>>, ~result.none, NEW run \in Runs
  PROVE  \E w : /\ Follows(blocks, run, w, EventsBy(expected, run))
                /\ Situated(blocks, insert, calls, path, run, Last(w))
                /\ run \in path =>
                     (Evaluate(run, PhisOf(blocks[insert].code, run, Last(w)), result.value)
                        <=> run \in result.truth)
<1>1. PICK w : /\ Follows(blocks, run, w, EventsBy(expected, run))
               /\ Situated(blocks, insert, calls, path, run, Last(w))
               /\ run \in path => HasValue(blocks, run, Last(w), result)
  BY DEF SInv, RunInv, HasRun
<1>2. ASSUME run \in path
      PROVE  Evaluate(run, PhisOf(blocks[insert].code, run, Last(w)), result.value)
               <=> run \in result.truth
  <2>1. Last(w).block = insert
    BY <1>1, <1>2 DEF Situated
  <2>2. HasValue(blocks, run, Last(w), result)
    BY <1>1, <1>2
  <2>3. QED BY <2>1, <2>2 DEF HasValue
<1>3. QED BY <1>1, <1>2

LEMMA ThenSeen == SInv /\ LowerThen => RunInv' /\ ExpressionInv'
<1> SUFFICES ASSUME SInv, LowerThen PROVE RunInv' /\ ExpressionInv'
  OBVIOUS
<1> DEFINE a == Len(blocks) + 1
           e == Len(blocks) + 2
           m == Len(blocks) + 3
           h == Len(calls)
           f == [function |-> "LowerIf then", else |-> e, merge |-> m,
                 elsePath |-> path \ result.truth]
           g == [function |-> "LowerStatements"]
           qth == path \cap result.truth
           mid == Append(Front(calls), f)
<1>1. /\ calls # <<>> /\ Last(calls).function = "LowerIf" /\ ~result.none
      /\ blocks' = Emit(blocks, insert, CondBr(result.value, a, e))
                     \o <<NewBlock(TRUE), NewBlock(TRUE), NewBlock(FALSE)>>
      /\ insert' = a /\ calls' = Front(calls) \o <<f, g>> /\ path' = qth /\ result' = NoResult
      /\ expected' = expected
  BY DEF LowerThen, Returned, Lowering
<1>2. /\ StackInv(blocks, insert, calls) /\ IsStack(calls) /\ ExpressionsAsked(calls)
      /\ IsStack(expected) /\ ModuleInv(blocks, insert, calls, declared)
  BY Facts
<1>3. AreNext(blocks, a, e, m)
  BY DEF AreNext
<1> HIDE DEF a, e, m
<1>4. IsForked(blocks, insert, CondBr(result.value, a, e), <<>>, blocks')
  BY <1>1 DEF IsForked, NewBlock
<1>5. IsReplaced(calls, f, mid)
  BY DEF IsReplaced
<1>6. IsPushed(mid, g, calls')
  <2>1. IsStack(Front(calls))
    BY <1>1, <1>2, Popped DEF StackInv
  <2> HIDE DEF f, g
  <2>2. QED BY <1>1, <2>1, Concatenated DEF IsPushed
<1>7. /\ f.function = "LowerIf then" /\ g.function = "LowerStatements" /\ f.merge = m
      /\ f.elsePath = path \ result.truth /\ Side(f) = e
  BY DEF Side
<1>8. ~Ends(blocks[insert].code) /\ h \notin Holders(calls)
  BY <1>1, <1>2, OnTop DEF StatementFunctions, HoldingFunctions
<1> HIDE DEF f, g, mid
<1>9. /\ f.function \in HoldingFunctions /\ g.function \notin HoldingFunctions
      /\ f.function \in OnStatements /\ g.function \in OnStatements
      /\ f.function \notin RhsFunctions
  BY <1>7 DEF HoldingFunctions, OnStatements, StatementFunctions, RhsFunctions
<1>10. OnlyTop(calls, mid, h) /\ h \in Holders(mid) /\ mid[h] = f /\ IsStack(mid)
  BY <1>1, <1>2, <1>5, <1>9, TopReplaced
<1>11. OnlyTop(calls, calls', h) /\ h \in Holders(calls') /\ calls'[h] = f
  BY <1>6, <1>9, <1>10, TopPushed
<1>12. BeginsFork(blocks, calls, calls', h, a, e, m, <<>>)
  BY <1>7, <1>8, <1>9, <1>11 DEF BeginsFork
<1>13. Divides(calls'[h], path, qth)
  <2>1. Waits(f) = path \ result.truth
    BY <1>7 DEF Waits
  <2>2. QED BY <1>9, <1>11, <2>1 DEF Divides
<1> HIDE DEF h
<1>14. ASSUME NEW run \in Runs
       PROVE  Reaches(blocks', a, calls', qth, run, EventsBy(expected, run))
  <2>1. PICK w : /\ Follows(blocks, run, w, EventsBy(expected, run))
                 /\ Situated(blocks, insert, calls, path, run, Last(w))
                 /\ run \in path =>
                      (Evaluate(run, PhisOf(blocks[insert].code, run, Last(w)), result.value)
                         <=> run \in result.truth)
    BY <1>1, ValueFacts
  <2>2. Chooses(blocks, insert, path, qth, run, Last(w), result.value, a, e, a, e)
    BY <2>1 DEF Chooses
  <2> HIDE DEF qth
  <2>3. QED BY <1>2, <1>3, <1>4, <1>8, <1>12, <1>13, <2>1, <2>2, ConditionSeen
<1>15. ExpressionsAsked(calls')
  <2>1. ExpressionsAsked(mid) /\ IsStack(mid) /\ mid # <<>>
    BY <1>1, <1>2, <1>5, <1>9, AskedReplaced
  <2>2. QED BY <1>6, <1>9, <2>1, AskedPushed
<1>16. result'.none
  BY <1>1 DEF NoResult
<1>17. QED BY <1>1, <1>2, <1>14, <1>15, <1>16, HasReached DEF RunInv, ExpressionInv

LEMMA ElseStepSeen == SInv /\ LowerElse => RunInv' /\ ExpressionInv'
<1> SUFFICES ASSUME SInv, LowerElse PROVE RunInv' /\ ExpressionInv'
  OBVIOUS
<1> DEFINE h == Len(calls)
           frame == Last(calls)
           f == [function |-> "LowerIf else", merge |-> frame.merge,
                 thenTerminated |-> IsCurrentBlockTerminated, thenPath |-> path]
           g(function) == [function |-> function]
           mid == Append(Front(calls), f)
<1>1. /\ calls # <<>> /\ frame.function = "LowerIf then"
      /\ blocks' = BranchTo(frame.merge) /\ insert' = frame.else /\ path' = frame.elsePath
      /\ UNCHANGED <<result, expected>>
      /\ \/ calls' = Front(calls) \o <<f>>
         \/ \E function \in {"LowerStatements", "LowerIf"} :
              calls' = Front(calls) \o <<f, g(function)>>
  BY DEF LowerElse, Lowering
<1>2. /\ StackInv(blocks, insert, calls) /\ IsStack(calls) /\ ExpressionsAsked(calls)
      /\ IsStack(expected) /\ ModuleInv(blocks, insert, calls, declared) /\ result.none
      /\ \A run \in Runs : Reaches(blocks, insert, calls, path, run, EventsBy(expected, run))
  BY <1>1, Facts DEF StatementFunctions
<1>3. h \in Holders(calls) /\ calls[h] = frame
  BY <1>1, <1>2, OnTop DEF HoldingFunctions
<1>4. SideEnds(blocks, insert, calls[h].merge, blocks')
  BY <1>1, <1>3, CurrentBlock DEF BranchTo, SideEnds
<1>5. IsReplaced(calls, f, mid)
  BY DEF IsReplaced
<1>6. /\ f.function = "LowerIf else" /\ f.merge = calls[h].merge
      /\ f.thenTerminated = IsCurrentBlockTerminated /\ f.thenPath = path
  BY <1>3
<1>7. calls' = mid \/ \E function \in {"LowerStatements", "LowerIf"} :
                        IsPushed(mid, g(function), calls')
  <2>1. IsStack(Front(calls))
    BY <1>1, <1>2, Popped DEF StackInv
  <2> HIDE DEF f, g
  <2>2. QED BY ZenonT(60), <1>1, <2>1, Concatenated DEF IsPushed
<1> HIDE DEF f, mid
<1>8. f.function \in HoldingFunctions /\ f.function \in OnStatements
  BY <1>6 DEF HoldingFunctions, OnStatements, StatementFunctions
<1>9. OnlyTop(calls, mid, h) /\ h \in Holders(mid) /\ mid[h] = f /\ IsStack(mid)
      /\ ExpressionsAsked(mid) /\ mid # <<>>
  <2>1. OnlyTop(calls, mid, h) /\ h \in Holders(mid) /\ mid[h] = f /\ IsStack(mid)
    BY <1>1, <1>2, <1>5, <1>8, TopReplaced
  <2>2. ExpressionsAsked(mid) /\ mid # <<>>
    BY <1>1, <1>2, <1>5, <1>8, AskedReplaced
  <2>3. QED BY <2>1, <2>2
<1>10. ASSUME NEW function \in {"LowerStatements", "LowerIf"}, IsPushed(mid, g(function), calls')
       PROVE  /\ OnlyTop(calls, calls', h) /\ h \in Holders(calls') /\ calls'[h] = f
              /\ ExpressionsAsked(calls')
  <2>1. g(function).function \notin HoldingFunctions /\ g(function).function \in OnStatements
    BY DEF HoldingFunctions, OnStatements, StatementFunctions
  <2> HIDE DEF g
  <2>2. QED BY <1>9, <1>10, <2>1, TopPushed, AskedPushed
<1>11. /\ OnlyTop(calls, calls', h) /\ h \in Holders(calls') /\ calls'[h] = f
       /\ ExpressionsAsked(calls')
  BY <1>7, <1>9, <1>10
<1>12. TurnsToElse(calls, calls', h, path)
  BY <1>1, <1>3, <1>6, <1>11 DEF TurnsToElse
<1>13. calls'[h].thenTerminated <=> Ends(blocks[insert].code)
  BY <1>6, <1>11, CurrentBlock
<1> HIDE DEF h, frame
<1>14. ASSUME NEW run \in Runs
       PROVE  Reaches(blocks', insert', calls', path', run, EventsBy(expected, run))
  <2>1. PICK w : /\ Follows(blocks, run, w, EventsBy(expected, run))
                 /\ Situated(blocks, insert, calls, path, run, Last(w))
    BY <1>2 DEF Reaches
  <2>2. \E v : /\ Follows(blocks', run, v, EventsBy(expected, run))
               /\ Situated(blocks', calls[h].else, calls', calls[h].elsePath, run, Last(v))
    BY <1>2, <1>4, <1>12, <1>13, <2>1, ElseSeen
  <2>3. QED BY <1>1, <1>3, <2>2 DEF Reaches
<1>15. QED BY <1>1, <1>2, <1>11, <1>14, HasReached DEF RunInv, ExpressionInv

LEMMA MergeSeen == SInv /\ LowerMerge => RunInv' /\ ExpressionInv'
<1> SUFFICES ASSUME SInv, LowerMerge PROVE RunInv' /\ ExpressionInv'
  OBVIOUS
<1> DEFINE h == Len(calls)
           frame == Last(calls)
           ended == BranchTo(frame.merge)
<1>1. /\ calls # <<>> /\ frame.function = "LowerIf else" /\ path' = frame.thenPath \cup path
      /\ calls' = Front(calls) /\ UNCHANGED <<result, expected>>
  BY DEF LowerMerge, Lowering, Return
<1>2. /\ StackInv(blocks, insert, calls) /\ IsStack(calls) /\ ExpressionsAsked(calls)
      /\ IsStack(expected) /\ ModuleInv(blocks, insert, calls, declared)
      /\ \A run \in Runs : Reaches(blocks, insert, calls, path, run, EventsBy(expected, run))
  BY <1>1, Facts
<1>3. h \in Holders(calls) /\ calls[h] = frame
  BY <1>1, <1>2, OnTop DEF HoldingFunctions
<1>4. EndsIf(calls, calls', h) /\ ExpressionsAsked(calls')
  BY <1>1, <1>2, <1>3, TopPopped, AskedPopped DEF EndsIf
<1>5. SideEnds(blocks, insert, calls[h].merge, ended)
  BY <1>1, <1>3, CurrentBlock DEF BranchTo, SideEnds
<1>6. ASSUME NEW run \in Runs
      PROVE  Reaches(blocks', insert', calls', path', run, EventsBy(expected, run))
  <2>1. PICK w : /\ Follows(blocks, run, w, EventsBy(expected, run))
                 /\ Situated(blocks, insert, calls, path, run, Last(w))
    BY <1>2 DEF Reaches
  <2>2. CASE Merges(frame.thenTerminated)
    <3>1. blocks' = Place(ended, frame.merge) /\ insert' = frame.merge
      BY <2>2 DEF LowerMerge
    <3>2. blocks' = Place(ended, calls[h].merge)
      BY <1>3, <3>1
    <3> HIDE DEF ended, h, frame
    <3>3. \E v : /\ Follows(blocks', run, v, EventsBy(expected, run))
                 /\ Situated(blocks', calls[h].merge, calls', calls[h].thenPath \cup path,
                             run, Last(v))
      BY <1>2, <1>4, <1>5, <2>1, <3>2, IfMergeSeen
    <3>4. QED BY <1>1, <1>3, <3>1, <3>3 DEF Reaches
  <2>3. CASE ~Merges(frame.thenTerminated)
    <3>1. blocks' = ended /\ insert' = insert
      BY <2>3 DEF LowerMerge
    <3>2. calls[h].thenTerminated /\ Ends(blocks[insert].code)
      BY <1>3, <2>3, CurrentBlock DEF Merges
    <3>3. blocks' = blocks
      BY <1>5, <3>1, <3>2 DEF SideEnds
    <3> HIDE DEF ended, h, frame
    <3>4. Situated(blocks, insert, calls', calls[h].thenPath \cup path, run, Last(w))
      BY <1>2, <1>4, <2>1, <3>2, NoMergeSeen
    <3>5. QED BY <1>1, <1>3, <2>1, <3>1, <3>3, <3>4 DEF Reaches
  <2>4. QED BY <2>2, <2>3
<1>7. result.none
  BY <1>1, Facts DEF StatementFunctions
<1>8. QED BY <1>1, <1>2, <1>4, <1>6, <1>7, HasReached DEF RunInv, ExpressionInv

LEMMA RhsSeen == SInv /\ LowerRhs => RunInv' /\ ExpressionInv'
<1> SUFFICES ASSUME SInv, LowerRhs PROVE RunInv' /\ ExpressionInv'
  OBVIOUS
<1> DEFINE and == Last(calls).function = "LowerLogicalAnd"
           to == ShortCircuit(and)
           a == Rhs
           e == Short
           m == Merge
           h == Len(calls)
           f == [function |-> IF and THEN "LowerLogicalAnd rhs" ELSE "LowerLogicalOr rhs",
                 rhs |-> Rhs, short |-> Short, merge |-> Merge,
                 path |-> path, truth |-> result.truth]
           qth == IF and THEN path \cap result.truth ELSE path \ result.truth
           code == IF and THEN <<>> ELSE <<Br(Merge)>>
<1>1. /\ calls # <<>> /\ Last(calls).function \in {"LowerLogicalAnd", "LowerLogicalOr"}
      /\ ~result.none
      /\ blocks' = Emit(blocks, insert, CondBr(result.value, to[1], to[2])) \o
           <<NewBlock(TRUE),
             IF and THEN NewBlock(TRUE) ELSE [NewBlock(TRUE) EXCEPT !.code = <<Br(Merge)>>],
             NewBlock(FALSE)>>
      /\ insert' = a /\ calls' = Append(Front(calls), f) /\ path' = qth /\ result' = NoResult
      /\ expected' = expected
  BY DEF LowerRhs, Returned, Lowering
<1>2. /\ StackInv(blocks, insert, calls) /\ IsStack(calls) /\ ExpressionsAsked(calls)
      /\ IsStack(expected) /\ ModuleInv(blocks, insert, calls, declared)
  BY Facts
<1>3. AreNext(blocks, a, e, m)
  BY DEF AreNext, Rhs, Short, Merge
<1>4. to[1] = (IF and THEN a ELSE e) /\ to[2] = (IF and THEN e ELSE a)
  BY DEF ShortCircuit
<1>5. IsForked(blocks, insert, CondBr(result.value, to[1], to[2]), code, blocks')
  <2> DEFINE second == IF and THEN NewBlock(TRUE)
                       ELSE [NewBlock(TRUE) EXCEPT !.code = <<Br(Merge)>>]
             ended == Emit(blocks, insert, CondBr(result.value, to[1], to[2]))
  <2>2. second = [code |-> code, placed |-> TRUE]
    BY DEF NewBlock
  <2>3. blocks' = ended \o <<NewBlock(TRUE), second, NewBlock(FALSE)>>
    BY <1>1
  <2> HIDE DEF second, and, code, to
  <2>4. QED BY <2>2, <2>3 DEF IsForked
<1>6. IsReplaced(calls, f, calls')
  BY <1>1 DEF IsReplaced
<1>7. /\ f.function = IF and THEN "LowerLogicalAnd rhs" ELSE "LowerLogicalOr rhs"
      /\ f.merge = m /\ f.short = e /\ f.path = path /\ f.truth = result.truth
  OBVIOUS
<1>8. ~Ends(blocks[insert].code) /\ h \notin Holders(calls)
  BY <1>1, <1>2, OnTop DEF StatementFunctions, HoldingFunctions
<1> HIDE DEF f, to, a, e, m
<1>9. /\ f.function \in HoldingFunctions /\ f.function \in RhsFunctions
      /\ Last(calls).function \notin OnStatements
      /\ f.function = "LowerLogicalOr rhs" <=> ~and
      /\ f.function = "LowerLogicalAnd rhs" <=> and
      /\ f.function # "LowerIf then" /\ f.function # "LowerIf else"
  BY <1>1, <1>7 DEF HoldingFunctions, OnStatements, StatementFunctions, RhsFunctions
<1>10. code = IF f.function = "LowerLogicalOr rhs" THEN <<Br(m)>> ELSE <<>>
  BY <1>9 DEF m
<1> HIDE DEF and, code
<1>11. OnlyTop(calls, calls', h) /\ h \in Holders(calls') /\ calls'[h] = f
  <2>1. calls # <<>> /\ StackInv(blocks, insert, calls) /\ f.function \in HoldingFunctions
    BY <1>1, <1>2, <1>9
  <2>2. QED BY <1>6, <2>1, TopReplaced
<1>12. BeginsFork(blocks, calls, calls', h, a, e, m, code)
  <2>1. Side(f) = e
    BY <1>7, <1>9 DEF Side
  <2>2. QED BY <1>7, <1>8, <1>9, <1>10, <1>11, <2>1 DEF BeginsFork
<1>13. Divides(calls'[h], path, qth)
  <2>1. CASE and
    <3>1. Waits(f) = path \ result.truth /\ Goes(f) = path \cap result.truth
      BY <1>7, <1>9, <2>1 DEF Waits, Goes
    <3>2. QED BY <1>11, <2>1, <3>1 DEF Divides
  <2>2. CASE ~and
    <3>1. Waits(f) = path \cap result.truth /\ Goes(f) = path \ result.truth
      BY <1>7, <1>9, <2>2 DEF Waits, Goes
    <3>2. QED BY <1>11, <2>2, <3>1 DEF Divides
  <2>3. QED BY <2>1, <2>2
<1> HIDE DEF h
<1>14. ASSUME NEW run \in Runs
       PROVE  Reaches(blocks', a, calls', qth, run, EventsBy(expected, run))
  <2>1. PICK w : /\ Follows(blocks, run, w, EventsBy(expected, run))
                 /\ Situated(blocks, insert, calls, path, run, Last(w))
                 /\ run \in path =>
                      (Evaluate(run, PhisOf(blocks[insert].code, run, Last(w)), result.value)
                         <=> run \in result.truth)
    BY <1>1, ValueFacts
  <2>2. Chooses(blocks, insert, path, qth, run, Last(w), result.value, to[1], to[2], a, e)
    <3>1. CASE and
      BY <1>4, <2>1, <3>1 DEF Chooses
    <3>2. CASE ~and
      BY <1>4, <2>1, <3>2 DEF Chooses
    <3>3. QED BY <3>1, <3>2
  <2> HIDE DEF qth
  <2>3. QED BY <1>2, <1>3, <1>5, <1>8, <1>12, <1>13, <2>1, <2>2, ConditionSeen
<1>15. ExpressionsAsked(calls')
  BY <1>1, <1>2, <1>6, <1>9, AskedReplaced
<1>16. result'.none
  BY <1>1 DEF NoResult
<1>17. QED BY <1>1, <1>2, <1>14, <1>15, <1>16, HasReached DEF RunInv, ExpressionInv

-----------------------------------------------------------------------------
(* The value of an && or an || *)

\* The truth of the operator whose right operand has ended.
TruthOf(f, truth) ==
  IF f.function = "LowerLogicalAnd rhs" THEN f.truth \cap truth ELSE f.truth \cup truth
ShortValue(f) == f.function # "LowerLogicalAnd rhs"
\* The phi of f's merge block.
PhiFor(f, at, value) ==
  Phi([b \in {f.short, at} |-> IF b = f.short THEN Constant(ShortValue(f)) ELSE value])

LEMMA PhiValue ==
  ASSUME NEW f, f.function \in RhsFunctions, NEW at, at # f.short, NEW value, NEW code,
         code = <<PhiFor(f, at, value)>>, NEW run, NEW there, there.block = f.merge
  PROVE  LET phis == PhisOf(code, run, there)
         IN  /\ there.from = at =>
                  Evaluate(run, phis, PhiOf(f.merge)) = Evaluate(run, there.phis, value)
             /\ there.from = f.short =>
                  Evaluate(run, phis, PhiOf(f.merge)) = ShortValue(f)
<1> DEFINE ins == PhiFor(f, at, value)
           phis == PhisOf(code, run, there)
           from == ins.incoming[there.from]
<1>1. /\ ins.op = "phi" /\ ins.incoming[at] = value
      /\ ins.incoming[f.short] = Constant(ShortValue(f))
  BY DEF PhiFor, Phi
<1> HIDE DEF ins
<1>2. HasPhi(code) /\ code[1] = ins
  BY <1>1, OnePhi DEF ins
<1>3. phis[f.merge] = Evaluate(run, there.phis, from)
  BY <1>2 DEF PhisOf
<1> HIDE DEF phis
<1>4. Evaluate(run, phis, PhiOf(f.merge)) = phis[f.merge]
  <2>1. PhiOf(f.merge).is = "phi" /\ PhiOf(f.merge).of = f.merge
    BY DEF PhiOf
  <2>2. QED BY <2>1 DEF Evaluate
<1>5. ASSUME there.from = f.short
      PROVE  Evaluate(run, there.phis, from) = ShortValue(f)
  <2>1. from.is = "constant" /\ from.of = ShortValue(f)
    BY <1>1, <1>5 DEF Constant
  <2> HIDE DEF from
  <2>2. QED BY <2>1 DEF Evaluate
<1>6. there.from = at => from = value
  BY <1>1
<1> HIDE DEF from
<1>7. QED BY <1>3, <1>4, <1>5, <1>6 DEF phis

LEMMA LogicalValue ==
  ASSUME NEW bs, NEW at, NEW f, f.function \in RhsFunctions, at # f.short, NEW res,
         NEW pth, NEW run, NEW here, NEW there, AtEnd(bs, at, f, pth, run, here, there),
         run \in Goes(f) <=> run \in pth,
         run \in pth =>
           (Evaluate(run, PhisOf(bs[at].code, run, here), res.value) <=> run \in res.truth),
         run \in f.path => there.block = f.merge,
         NEW new, new[f.merge].code = <<PhiFor(f, at, res.value)>>,
         NEW is, is.value = PhiOf(f.merge), is.truth = TruthOf(f, res.truth)
  PROVE  run \in f.path => HasValue(new, run, there, is)
<1> SUFFICES ASSUME run \in f.path
             PROVE  Evaluate(run, PhisOf(new[there.block].code, run, there), PhiOf(f.merge))
                      <=> run \in TruthOf(f, res.truth)
  BY DEF HasValue
<1> DEFINE phis == PhisOf(new[f.merge].code, run, there)
<1>1. there.block = f.merge
  OBVIOUS
<1>2. run \in Goes(f) \/ run \in Waits(f)
  BY RhsFacts
<1>3. /\ there.from = at =>
           Evaluate(run, phis, PhiOf(f.merge)) = Evaluate(run, there.phis, res.value)
      /\ there.from = f.short => Evaluate(run, phis, PhiOf(f.merge)) = ShortValue(f)
  BY <1>1, PhiValue
<1> HIDE DEF phis
<1>4. f.function = "LowerLogicalAnd rhs" \/ f.function = "LowerLogicalOr rhs"
  BY DEF RhsFunctions
<1>5. CASE run \in Goes(f)
  <2>1. there.from = at /\ there.phis = PhisOf(bs[at].code, run, here)
    BY <1>5 DEF AtEnd, Onto
  <2>2. Evaluate(run, there.phis, res.value) <=> run \in res.truth
    BY <1>5, <2>1
  <2>3. run \in TruthOf(f, res.truth) <=> run \in res.truth
    BY <1>4, <1>5 DEF TruthOf, Goes
  <2>4. Evaluate(run, phis, PhiOf(f.merge)) <=> run \in TruthOf(f, res.truth)
    BY <1>3, <2>1, <2>2, <2>3
  <2>5. QED BY <1>1, <2>4 DEF phis
<1>6. CASE run \in Waits(f)
  <2>1. there.from = f.short
    BY <1>6 DEF AtEnd
  <2>2. run \notin Goes(f)
    BY <1>6, RhsFacts
  <2>3. run \in TruthOf(f, res.truth) <=> ShortValue(f)
    <3>1. CASE f.function = "LowerLogicalAnd rhs"
      <4>1. run \notin f.truth
        BY <1>6, <3>1 DEF Waits
      <4>2. QED BY <3>1, <4>1 DEF TruthOf, ShortValue
    <3>2. CASE f.function = "LowerLogicalOr rhs"
      <4>1. run \in f.truth
        BY <1>6, <3>2 DEF Waits
      <4>2. QED BY <3>2, <4>1 DEF TruthOf, ShortValue
    <3>3. QED BY <1>4, <3>1, <3>2
  <2>4. Evaluate(run, phis, PhiOf(f.merge)) <=> run \in TruthOf(f, res.truth)
    BY <1>3, <2>1, <2>3
  <2>5. QED BY <1>1, <2>4 DEF phis
<1>7. QED BY <1>2, <1>5, <1>6

LEMMA MergeLogicalSeen ==
  ASSUME SInv, calls # <<>>, Last(calls).function \in RhsFunctions, ~result.none,
         NEW short, short = Constant(ShortValue(Last(calls))),
         MergeLogical(Last(calls), short),
         result' = Result(PhiOf(Last(calls).merge), TruthOf(Last(calls), result.truth))
  PROVE  RunInv' /\ ExpressionInv'
<1> DEFINE h == Len(calls)
           f == Last(calls)
           ins == PhiFor(f, insert, result.value)
<1>1. f.function = "LowerLogicalAnd rhs" \/ f.function = "LowerLogicalOr rhs"
  BY DEF RhsFunctions
<1>2. short = Constant(TRUE) <=> f.function = "LowerLogicalOr rhs"
  <2>1. Constant(TRUE) # Constant(FALSE)
    BY DEF Constant
  <2>2. CASE f.function = "LowerLogicalAnd rhs"
    <3>1. ShortValue(f) = FALSE
      BY <2>2 DEF ShortValue
    <3>2. QED BY <2>1, <2>2, <3>1
  <2>3. CASE f.function = "LowerLogicalOr rhs"
    <3>1. ShortValue(f) = TRUE
      BY <2>3 DEF ShortValue
    <3>2. QED BY <2>3, <3>1
  <2>4. QED BY <1>1, <2>2, <2>3
<1>3. /\ IsMerged(blocks, insert, f, ins, blocks')
      /\ insert' = f.merge /\ calls' = Front(calls) /\ path' = f.path /\ expected' = expected
  <2>1. ins = Phi([b \in {f.short, RhsExit(f)} |-> IF b = f.short THEN short ELSE result.value])
    BY DEF PhiFor, RhsExit
  <2>2. QED BY <1>2, <2>1 DEF MergeLogical, IsMerged, Return
<1>4. ins.op = "phi"
  BY DEF PhiFor, Phi
<1>5. /\ StackInv(blocks, insert, calls) /\ IsStack(calls) /\ ExpressionsAsked(calls)
      /\ IsStack(expected) /\ ModuleInv(blocks, insert, calls, declared)
  BY Facts
<1>6. /\ f.function \in HoldingFunctions /\ f.function \notin StatementFunctions
      /\ f.function \notin OnStatements /\ f.function # "LowerStatements"
  BY <1>1 DEF HoldingFunctions, StatementFunctions, OnStatements
<1>7. h \in Holders(calls) /\ calls[h] = f /\ Len(calls) > 1 /\ ~Ends(blocks[insert].code)
  BY <1>5, <1>6, OnTop
<1>8. EndsLogical(calls, calls', h)
  BY <1>3, <1>5, <1>7, TopPopped DEF EndsLogical
<1>9. ExpressionsAsked(calls') /\ calls' # <<>> /\ Last(calls').function \notin StatementFunctions
  BY <1>3, <1>5, <1>6, <1>7, AskedPopped
<1>10. insert # f.short
  <2>1. insert \notin Held(f)
    BY <1>5, <1>7, HolderFacts
  <2>2. Held(f) = {f.merge, f.short}
    BY RhsFacts
  <2>3. QED BY <2>1, <2>2
<1>11. result'.value = PhiOf(f.merge) /\ result'.truth = TruthOf(f, result.truth)
  BY DEF Result
<1> HIDE DEF h, f, ins
<1>12. ASSUME NEW run \in Runs
       PROVE  HasRun(blocks', f.merge, calls', f.path, result', run, EventsBy(expected, run))
  <2>1. PICK w : /\ Follows(blocks, run, w, EventsBy(expected, run))
                 /\ Situated(blocks, insert, calls, path, run, Last(w))
                 /\ run \in path =>
                      (Evaluate(run, PhisOf(blocks[insert].code, run, Last(w)), result.value)
                         <=> run \in result.truth)
    BY ValueFacts
  <2>2. /\ run \in Goes(calls[h]) <=> run \in path
        /\ blocks'[calls[h].merge].code = <<ins>>
        /\ \E v : /\ Follows(blocks', run, v, EventsBy(expected, run))
                  /\ Situated(blocks', calls[h].merge, calls', calls[h].path, run, Last(v))
                  /\ AtEnd(blocks, insert, calls[h], path, run, Last(w), Last(v))
    <3>1. IsMerged(blocks, insert, calls[h], ins, blocks')
      BY <1>3, <1>7
    <3>2. QED BY <1>4, <1>5, <1>7, <1>8, <2>1, <3>1, LogicalSeen
  <2>3. /\ run \in Goes(f) <=> run \in path
        /\ blocks'[f.merge].code = <<ins>>
    BY <1>7, <2>2
  <2>4. PICK v : /\ Follows(blocks', run, v, EventsBy(expected, run))
                 /\ Situated(blocks', f.merge, calls', f.path, run, Last(v))
                 /\ AtEnd(blocks, insert, f, path, run, Last(w), Last(v))
    BY <1>7, <2>2
  <2>5. run \in f.path => Last(v).block = f.merge
    BY <2>4 DEF Situated
  <2>6. f.function \in RhsFunctions /\ blocks'[f.merge].code = <<PhiFor(f, insert, result.value)>>
    BY <2>3 DEF f, ins
  <2>7. run \in f.path => HasValue(blocks', run, Last(v), result')
    BY <1>10, <1>11, <2>1, <2>3, <2>4, <2>5, <2>6, LogicalValue
  <2>8. QED BY <2>4, <2>7 DEF HasRun
<1>13. QED BY <1>3, <1>5, <1>9, <1>12 DEF RunInv, ExpressionInv

LEMMA LogicalAndSeen == SInv /\ LowerLogicalAnd => RunInv' /\ ExpressionInv'
<1> SUFFICES ASSUME SInv, LowerLogicalAnd PROVE RunInv' /\ ExpressionInv'
  OBVIOUS
<1>1. /\ calls # <<>> /\ Last(calls).function = "LowerLogicalAnd rhs" /\ ~result.none
      /\ MergeLogical(Last(calls), Constant(FALSE))
      /\ result' = Result(PhiOf(Last(calls).merge), Last(calls).truth \cap result.truth)
  BY DEF LowerLogicalAnd, Returned, Lowering
<1>2. Last(calls).function \in RhsFunctions /\ ShortValue(Last(calls)) = FALSE
  BY <1>1 DEF RhsFunctions, ShortValue
<1>3. TruthOf(Last(calls), result.truth) = Last(calls).truth \cap result.truth
  BY <1>1 DEF TruthOf
<1>4. Constant(FALSE) = Constant(ShortValue(Last(calls)))
  BY <1>2
<1>5. QED BY <1>1, <1>2, <1>3, <1>4, MergeLogicalSeen

LEMMA LogicalOrSeen == SInv /\ LowerLogicalOr => RunInv' /\ ExpressionInv'
<1> SUFFICES ASSUME SInv, LowerLogicalOr PROVE RunInv' /\ ExpressionInv'
  OBVIOUS
<1>1. /\ calls # <<>> /\ Last(calls).function = "LowerLogicalOr rhs" /\ ~result.none
      /\ MergeLogical(Last(calls), Constant(TRUE))
      /\ result' = Result(PhiOf(Last(calls).merge), Last(calls).truth \cup result.truth)
  BY DEF LowerLogicalOr, Returned, Lowering
<1>2. Last(calls).function \in RhsFunctions /\ ShortValue(Last(calls)) = TRUE
  BY <1>1 DEF RhsFunctions, ShortValue
<1>3. TruthOf(Last(calls), result.truth) = Last(calls).truth \cup result.truth
  BY <1>1 DEF TruthOf
<1>4. Constant(TRUE) = Constant(ShortValue(Last(calls)))
  BY <1>2
<1>5. QED BY <1>1, <1>2, <1>3, <1>4, MergeLogicalSeen

-----------------------------------------------------------------------------
(* Every step takes the runs where they are to be *)

LEMMA InitRuns == Init => RunInv /\ ExpressionInv
<1> SUFFICES ASSUME Init PROVE RunInv /\ ExpressionInv
  OBVIOUS
<1> DEFINE block == [code |-> <<>>, placed |-> TRUE]
           frame == [function |-> "LowerStatements"]
           w == <<Beginning>>
<1>1. /\ blocks = <<block>> /\ insert = 1 /\ calls = <<frame>> /\ result.none
      /\ expected = <<>> /\ path = Runs
  BY DEF Init, NewBlock, NoResult
<1>2. block.code = <<>> /\ frame.function = "LowerStatements"
  OBVIOUS
<1> HIDE DEF block, frame
<1>3. DOMAIN blocks = {1} /\ blocks[1] = block
  BY <1>1
<1>4. calls # <<>> /\ DOMAIN calls = {1} /\ calls[1] = frame
  BY <1>1
<1>5. Holders(calls) = {}
  BY <1>2, <1>4 DEF Holders, HoldingFunctions
<1>6. ~Ends(blocks[1].code) /\ EndsRun(blocks[1].code) /\ Events(blocks[1].code) = <<>>
  BY <1>2, <1>3, EmptyCode, EventsEmpty DEF EndsRun
<1>7. Beginning.block = 1
  BY DEF Beginning
<1>8. IsStack(<<>>) /\ IsStack(w)
  <2>1. <<>> \in Seq({}) /\ <<Beginning>> \in Seq({Beginning})
    OBVIOUS
  <2>2. QED BY <2>1 DEF IsStack
<1>9. w # <<>> /\ DOMAIN w = {1} /\ w[1] = Beginning /\ Len(w) = 1 /\ Last(w) = Beginning
  BY DEF Last
<1> HIDE DEF w
<1>10. ASSUME NEW run \in Runs
       PROVE  IsRun(blocks, run, w)
  BY <1>3, <1>6, <1>7, <1>8, <1>9 DEF IsRun, IsPath
<1>11. HasEvents(blocks, w, <<>>)
  <2> DEFINE V == Seq(Nat)
  <2>1. <<>> \in V
    OBVIOUS
  <2>2. EventsAt(blocks, w) = [i \in {1} |-> <<>>]
    BY <1>6, <1>7, <1>9 DEF EventsAt
  <2>3. [i \in {1} |-> <<>>] = Append(<<>>, <<>>)
    OBVIOUS
  <2>4. <<>> \in Seq(V) /\ Append(<<>>, <<>>) \in Seq(V)
    BY <2>1
  <2>5. FlattenSeq(Append(<<>>, <<>>)) = FlattenSeq(<<>>) \o <<>>
    BY <2>1, <2>4, FlattenAppend
  <2>6. FlattenSeq(Append(<<>>, <<>>)) = <<>>
    BY <2>5, FlattenEmpty
  <2>7. QED BY <2>2, <2>3, <2>4, <2>6 DEF HasEvents, TraceOf
<1>12. ASSUME NEW run \in Runs
       PROVE  EventsBy(expected, run) = <<>>
  <2> DEFINE picks == [e \in DOMAIN expected |-> Seen(expected[e], run, e)]
  <2>1. picks = <<>>
    BY <1>1
  <2>2. EventsBy(expected, run) = FlattenSeq(picks)
    BY DEF EventsBy
  <2> HIDE DEF picks
  <2>3. QED BY <2>1, <2>2, FlattenEmpty
<1>13. ASSUME NEW run \in Runs
       PROVE  Reaches(blocks, insert, calls, path, run, EventsBy(expected, run))
  <2>1. Situated(blocks, insert, calls, path, run, Last(w))
    BY <1>1, <1>5, <1>6, <1>7, <1>9 DEF Situated
  <2>2. Follows(blocks, run, w, EventsBy(expected, run))
    BY <1>10, <1>11, <1>12 DEF Follows
  <2>3. QED BY <2>1, <2>2 DEF Reaches
<1>14. RunInv
  BY <1>1, <1>8, <1>13, HasReached DEF RunInv
<1>15. ExpressionInv
  <2>1. ~(1 > 1)
    OBVIOUS
  <2>2. QED BY <1>1, <1>4, <2>1 DEF ExpressionInv, ExpressionsAsked
<1>16. QED BY <1>14, <1>15

LEMMA NextRuns == SInv /\ [Next]_vars => SInv'
<1> SUFFICES ASSUME SInv, [Next]_vars PROVE SInv'
  OBVIOUS
<1>1. IInv'
  BY NextKeeps DEF SInv
<1>2. CASE UNCHANGED vars
  BY <1>2 DEF SInv, IInv, RunInv, ExpressionInv, vars
<1>3. CASE Next
  <2>1. CASE Ended
    BY <1>2, <2>1 DEF Ended
  <2>2. CASE ~Ended
    <3>1. RunInv' /\ ExpressionInv'
      BY <1>3, <2>2, SkipSeen, SimpleSeen, BlockSeen, WithExpressionSeen, EndStatementsSeen,
         StoreSeen, LowerReturnSeen, ReturnValueSeen, ThenSeen, ElseStepSeen, MergeSeen,
         OperandSeen, LogicalBegun, RhsSeen, LogicalAndSeen, LogicalOrSeen, DefaultReturnSeen
      DEF Next
    <3>2. QED BY <1>1, <3>1 DEF SInv
  <2>3. QED BY <2>1, <2>2
<1>4. QED BY <1>2, <1>3

-----------------------------------------------------------------------------
(* Execution is the run *)

Prefix(w, j) == SubSeq(w, 1, j)

LEMMA PrefixFacts ==
  ASSUME NEW w, IsStack(w), w # <<>>
  PROVE  /\ Prefix(w, 1) = <<w[1]>> /\ Prefix(w, Len(w)) = w
         /\ \A j \in 1..Len(w) : Last(Prefix(w, j)) = w[j]
         /\ \A j \in 1..Len(w) : j # Len(w) => Prefix(w, j + 1) = Append(Prefix(w, j), w[j + 1])
<1>1. PICK S : w \in Seq(S)
  BY DEF IsStack
<1>2. Len(w) \in Nat /\ Len(w) > 0 /\ DOMAIN w = 1..Len(w) /\ \A i \in 1..Len(w) : w[i] \in S
  BY <1>1, StackFacts
<1>3. Prefix(w, Len(w)) = w
  BY <1>1, SubSeqFull DEF Prefix
<1>4. ASSUME NEW j \in 1..Len(w)
      PROVE  /\ Prefix(w, j) \in Seq(S) /\ Len(Prefix(w, j)) = j
             /\ \A i \in 1..j : Prefix(w, j)[i] = w[i]
  <2>1. \A i \in 1..j : w[i] \in S
    BY <1>2
  <2>2. 1 \in Int /\ j \in Int /\ 1 <= j /\ j - 1 + 1 = j
    BY <1>2
  <2>3. /\ SubSeq(w, 1, j) \in Seq(S)
        /\ Len(SubSeq(w, 1, j)) = IF 1 <= j THEN j - 1 + 1 ELSE 0
        /\ \A i \in 1..(j - 1 + 1) : SubSeq(w, 1, j)[i] = w[1 + i - 1]
    BY <2>1, <2>2, SubSeqProperties
  <2>4. \A i \in 1..j : 1 + i - 1 = i
    BY <1>2
  <2>5. QED BY <2>2, <2>3, <2>4 DEF Prefix
<1>5. ASSUME NEW j \in 1..Len(w) PROVE Last(Prefix(w, j)) = w[j]
  BY <1>2, <1>4 DEF Last
<1>6. Prefix(w, 1) = <<w[1]>>
  <2>1. 1 \in 1..Len(w) /\ w[1] \in S
    BY <1>2
  <2>2. /\ Prefix(w, 1) \in Seq(S) /\ Len(Prefix(w, 1)) = 1
        /\ \A i \in 1..1 : Prefix(w, 1)[i] = w[i]
    BY <1>4, <2>1
  <2>3. QED BY <2>1, <2>2
<1>7. ASSUME NEW j \in 1..Len(w), j # Len(w)
      PROVE  Prefix(w, j + 1) = Append(Prefix(w, j), w[j + 1])
  <2>0. j + 1 \in 1..Len(w) /\ j \in Nat
    <3>1. Len(w) \in Nat
      BY <1>2
    <3>2. QED BY <1>7, <3>1
  <2>1. j + 1 \in 1..Len(w) /\ w[j + 1] \in S /\ j \in Nat
    BY <1>2, <2>0
  <2>2. /\ Prefix(w, j) \in Seq(S) /\ Len(Prefix(w, j)) = j
        /\ \A i \in 1..j : Prefix(w, j)[i] = w[i]
    BY <1>4
  <2>3. /\ Prefix(w, j + 1) \in Seq(S) /\ Len(Prefix(w, j + 1)) = j + 1
        /\ \A i \in 1..(j + 1) : Prefix(w, j + 1)[i] = w[i]
    BY <1>4, <2>1
  <2>4. QED BY <2>1, <2>2, <2>3
<1>8. \A j \in 1..Len(w) : j # Len(w) => Prefix(w, j + 1) = Append(Prefix(w, j), w[j + 1])
  BY <1>7
<1>9. \A j \in 1..Len(w) : Last(Prefix(w, j)) = w[j]
  BY <1>5
<1>10. QED BY <1>3, <1>6, <1>8, <1>9

LEMMA Counted ==
  ASSUME NEW n \in Nat
  PROVE  IsFiniteSet(1..n) /\ Cardinality(1..n) = n
<1>1. 1 \in Int /\ n \in Int
  OBVIOUS
<1>2. IsFiniteSet(1..n) /\ Cardinality(1..n) = IF 1 > n THEN 0 ELSE n - 1 + 1
  BY <1>1, FS_Interval
<1>3. QED BY <1>2

\* A run has as many places as there are blocks, or less.
LEMMA PathIsShort ==
  ASSUME NEW bs, IsModule(bs), NEW run, NEW w, IsPath(bs, run, w)
  PROVE  Len(w) <= Len(bs) /\ Len(bs) \in Nat
<1>1. Len(bs) \in Nat /\ DOMAIN bs = 1..Len(bs)
  BY DEF IsModule
<1>2. Len(w) \in Nat /\ DOMAIN w = 1..Len(w)
  BY PathFacts
<1> DEFINE f == [i \in DOMAIN w |-> w[i].block]
<1>3. f \in [1..Len(w) -> 1..Len(bs)]
  BY <1>1, <1>2 DEF IsPath
<1>4. ~\E i, j \in 1..Len(w) : i # j /\ f[i] = f[j]
  BY <1>2 DEF IsPath
<1>5. IsFiniteSet(1..Len(w)) /\ Cardinality(1..Len(w)) = Len(w)
  BY <1>2, Counted
<1>6. IsFiniteSet(1..Len(bs)) /\ Cardinality(1..Len(bs)) = Len(bs)
  BY <1>1, Counted
<1> HIDE DEF f
<1>7. ~(Len(bs) < Len(w))
  BY <1>3, <1>4, <1>5, <1>6, FS_PigeonHole
<1>8. QED BY <1>1, <1>2, <1>7

LEMMA PlacesAsRun ==
  ASSUME NEW bs, bs = blocks, NEW run, NEW here, IsCode(bs[here.block].code)
  PROVE  /\ Stops(here.block) <=> EndsRun(bs[here.block].code)
         /\ After(run, here) = NextOf(bs[here.block].code, run, here)
<1> DEFINE code == blocks[here.block].code
<1>1. IsCode(code)
  OBVIOUS
<1>2. HasPhi(code) <=> code # <<>> /\ Head(code).op = "phi"
  BY <1>1 DEF HasPhi, IsCode
<1>3. HasPhi(code) => Head(code) = code[1]
  BY <1>1 DEF HasPhi, IsCode
<1>4. PhisAt(run, here) = PhisOf(code, run, here)
  <2>1. CASE HasPhi(code)
    BY <1>2, <1>3, <2>1 DEF PhisAt, PhisOf
  <2>2. CASE ~HasPhi(code)
    BY <1>2, <2>2 DEF PhisAt, PhisOf
  <2>3. QED BY <2>1, <2>2
<1>5. Stops(here.block) <=> EndsRun(code)
  BY DEF Stops, EndsRun, Ends, Terminated
<1>6. After(run, here) = NextOf(code, run, here)
  BY <1>4 DEF After, NextOf, GoesSecond
<1>7. QED BY <1>5, <1>6

\* What Execution does in a step.
StepOf(run, before) ==
  IF Stops(Last(before).block) THEN before ELSE Append(before, After(run, Last(before)))

LEMMA RunIsExecuted ==
  ASSUME IsModule(blocks), NEW run, NEW w, IsRun(blocks, run, w)
  PROVE  Execution(run) = w
<1> DEFINE n == Len(blocks)
           l == Len(w)
           upTo(k) == IF k <= l THEN k ELSE l
           h == [k \in 1..n |-> Prefix(w, upTo(k))]
           Eq(f) == f = [k \in 1..n |-> IF k = 1 THEN <<Beginning>> ELSE StepOf(run, f[k - 1])]
<1>1. IsPath(blocks, run, w) /\ EndsRun(blocks[w[l].block].code)
  BY PathFacts DEF IsRun
<1>2. /\ l \in Nat /\ l > 0 /\ n \in Nat /\ l <= n /\ n > 0
      /\ DOMAIN w = 1..l
  <2>1. l \in Nat /\ l > 0 /\ DOMAIN w = 1..l /\ n \in Nat /\ l <= n
    BY <1>1, PathFacts, PathIsShort
  <2>2. QED BY <2>1
<1>3. /\ w[1] = Beginning
      /\ \A i \in 1..l : IsCode(blocks[w[i].block].code)
      /\ \A i \in 1..l : i # l => ~EndsRun(blocks[w[i].block].code)
      /\ \A i \in 1..l : i # l => w[i + 1] = NextOf(blocks[w[i].block].code, run, w[i])
  BY <1>1, <1>2, ModuleFacts DEF IsPath
<1>4. /\ Prefix(w, 1) = <<w[1]>> /\ Prefix(w, l) = w
      /\ \A j \in 1..l : Last(Prefix(w, j)) = w[j]
      /\ \A j \in 1..l : j # l => Prefix(w, j + 1) = Append(Prefix(w, j), w[j + 1])
  BY <1>1, PrefixFacts DEF IsPath
<1> HIDE DEF l, n
<1>5. ASSUME NEW j \in 1..l
      PROVE  StepOf(run, Prefix(w, j)) = IF j = l THEN w ELSE Prefix(w, j + 1)
  <2>1. /\ Stops(w[j].block) <=> EndsRun(blocks[w[j].block].code)
        /\ After(run, w[j]) = NextOf(blocks[w[j].block].code, run, w[j])
    BY <1>3, PlacesAsRun
  <2>2. Last(Prefix(w, j)) = w[j]
    BY <1>4
  <2>3. CASE j = l
    <3>1. Stops(w[j].block)
      BY <1>1, <2>1, <2>3
    <3>2. QED BY <1>4, <2>2, <2>3, <3>1 DEF StepOf
  <2>4. CASE j # l
    <3>1. ~Stops(w[j].block) /\ After(run, w[j]) = w[j + 1]
      BY <1>3, <2>1, <2>4
    <3>2. Prefix(w, j + 1) = Append(Prefix(w, j), w[j + 1])
      BY <1>4, <2>4
    <3>3. QED BY <2>2, <2>4, <3>1, <3>2 DEF StepOf
  <2>5. QED BY <2>3, <2>4
<1>6. ASSUME NEW k \in 1..n
      PROVE  h[k] = IF k = 1 THEN <<Beginning>> ELSE StepOf(run, h[k - 1])
  <2>1. CASE k = 1
    BY <1>2, <1>3, <1>4, <2>1
  <2>2. CASE k # 1
    <3>1. k - 1 \in 1..n /\ upTo(k - 1) \in 1..l
      BY <1>2, <2>2
    <3>2. StepOf(run, Prefix(w, upTo(k - 1)))
            = IF upTo(k - 1) = l THEN w ELSE Prefix(w, upTo(k - 1) + 1)
      BY <1>5, <3>1
    <3>3. CASE upTo(k - 1) = l
      <4>1. upTo(k) = l
        BY <1>2, <2>2, <3>3
      <4>2. QED BY <1>4, <2>2, <3>1, <3>2, <3>3, <4>1
    <3>4. CASE upTo(k - 1) # l
      <4>1. upTo(k) = upTo(k - 1) + 1
        BY <1>2, <2>2, <3>4
      <4>2. QED BY <2>2, <3>1, <3>2, <3>4, <4>1
    <3>5. QED BY <3>3, <3>4
  <2>3. QED BY <2>1, <2>2
<1>7. Eq(h)
  <2>1. [k \in 1..n |-> IF k = 1 THEN <<Beginning>> ELSE StepOf(run, h[k - 1])]
          = [k \in 1..n |-> h[k]]
    <3> HIDE DEF h
    <3>1. QED BY <1>6
  <2>2. [k \in 1..n |-> h[k]] = h
    OBVIOUS
  <2> HIDE DEF h
  <2>3. QED BY <2>1, <2>2
<1>8. h[n] = w
  <2>1. upTo(n) = l /\ n \in 1..n
    BY <1>2
  <2>2. QED BY <1>4, <2>1
<1> HIDE DEF h
<1>9. Execution(run) = (CHOOSE f : Eq(f))[n]
  BY DEF Execution, StepOf, Beginning, n
<1> DEFINE c == CHOOSE f : Eq(f)
<1>10. Eq(c)
  <2> HIDE DEF Eq
  <2>1. QED BY <1>7
<1>11. \A k \in 1..n : c[k] = IF k = 1 THEN <<Beginning>> ELSE StepOf(run, c[k - 1])
  <2> HIDE DEF c
  <2>1. QED BY <1>10
<1> HIDE DEF c
<1> DEFINE T == {k \in 0..n : k # 0 => c[k] = h[k]}
<1>12. 0 \in T
  BY <1>2
<1>13. ASSUME NEW k \in 0..(n - 1), k \in T PROVE k + 1 \in T
  <2>1. k + 1 \in 1..n /\ k + 1 \in 0..n /\ (k + 1) - 1 = k
    BY <1>2
  <2>2. /\ c[k + 1] = IF k + 1 = 1 THEN <<Beginning>> ELSE StepOf(run, c[(k + 1) - 1])
        /\ h[k + 1] = IF k + 1 = 1 THEN <<Beginning>> ELSE StepOf(run, h[(k + 1) - 1])
    BY <1>6, <1>11, <2>1
  <2>3. CASE k = 0
    <3>1. k + 1 = 1
      BY <2>3
    <3>2. QED BY <2>1, <2>2, <3>1
  <2>4. CASE k # 0
    <3>1. c[k] = h[k]
      BY <1>13, <2>4
    <3>2. QED BY <2>1, <2>2, <3>1
  <2>5. QED BY <2>3, <2>4
<1>14. n \in 0..n /\ n # 0
  BY <1>2
<1>15. \A k \in 0..n : k \in T
  <2> HIDE DEF T
  <2>1. QED BY <1>2, <1>12, <1>13, InductionUpTo
<1>16. c[n] = h[n]
  BY <1>14, <1>15
<1>17. QED BY <1>8, <1>9, <1>16 DEF c

-----------------------------------------------------------------------------
(* What the invariant says of runs *)

LEMMA RunsAreTold == SInv => BuilderFollowsBody /\ SameEvents
<1> SUFFICES ASSUME SInv PROVE BuilderFollowsBody /\ SameEvents
  OBVIOUS
<1>1. IsModule(blocks)
  BY DEF SInv, IInv, ModuleInv, CodeInv
<1>2. ASSUME NEW run \in Runs
      PROVE  /\ ~Lowered =>
                  ((Last(Execution(run)).block = insert /\ ~Terminated(insert)) <=> run \in path)
             /\ Trace(run) = EventsOfBody(run)
  <2>1. PICK w : /\ Follows(blocks, run, w, EventsBy(expected, run))
                 /\ calls # <<>> => Situated(blocks, insert, calls, path, run, Last(w))
    BY DEF SInv, RunInv, HasRun
  <2>2. Execution(run) = w
    BY <1>1, <2>1, RunIsExecuted DEF Follows
  <2>3. ASSUME ~Lowered
        PROVE  (Last(Execution(run)).block = insert /\ ~Terminated(insert)) <=> run \in path
    <3>1. Terminated(insert) <=> Ends(blocks[insert].code)
      BY DEF Terminated, Ends
    <3>2. Last(w).block = insert /\ ~Ends(blocks[insert].code) <=> run \in path
      BY <2>1, <2>3 DEF Lowered, Situated
    <3>3. QED BY <2>2, <3>1, <3>2
  <2>4. Trace(run) = TraceOf(blocks, w)
    BY <2>2 DEF Trace, TraceOf, EventsAt
  <2>5. TraceOf(blocks, w) = EventsBy(expected, run)
    BY <2>1 DEF Follows, HasEvents
  <2>6. EventsBy(expected, run) = EventsOfBody(run)
    BY DEF EventsBy, EventsOfBody, Seen
  <2>7. QED BY <2>3, <2>4, <2>5, <2>6
<1>3. QED BY <1>2 DEF BuilderFollowsBody, SameEvents

-----------------------------------------------------------------------------
(* What an action adds to the blocks *)

\* Blocks that have ended stay, and those put into the function are in N.
Changes(bs, new, N) ==
  /\ Grows(bs, new)
  /\ \A b \in DOMAIN bs : bs[b].placed = TRUE => new[b].placed = TRUE
  /\ \A b \in DOMAIN new :
       new[b].placed = TRUE => (b \in DOMAIN bs /\ bs[b].placed = TRUE) \/ b \in N

LEMMA ChangesOn ==
  ASSUME NEW bs, NEW mid, NEW new, NEW M, NEW N, Changes(bs, mid, M), Changes(mid, new, N)
  PROVE  Changes(bs, new, M \cup N)
BY GrowsOn DEF Changes, Grows

\* Types of values and instructions, with events E, operands 1 to n and blocks D.
ValueIn(v, n, D) ==
  \/ v.is = "operand" /\ v \in [is : {"operand"}, of : 1..n]
  \/ v.is = "constant" /\ v \in [is : {"constant"}, of : BOOLEAN]
  \/ v.is = "phi" /\ v \in [is : {"phi"}, of : D]
Typed(ins, E, n, D) ==
  /\ ins.op \in {"event", "br", "condbr", "ret", "phi"}
  /\ ins.op = "event" => ins.id \in E
  /\ ins.op = "br" => ins.to \in [1..1 -> D]
  /\ ins.op = "condbr" => ins.to \in [1..2 -> D] /\ ValueIn(ins.on, n, D)
  /\ ins.op = "ret" => ins.valued \in BOOLEAN
  /\ ins.op = "phi" => \A b \in DOMAIN ins.incoming : b \in D /\ ValueIn(ins.incoming[b], n, D)
ListTyped(code, E, n, D) == \A i \in DOMAIN code : Typed(code[i], E, n, D)
CodeTyped(bs, E, n) == \A b \in DOMAIN bs : ListTyped(bs[b].code, E, n, DOMAIN bs)

LEMMA ValueWider ==
  ASSUME NEW n \in Nat, NEW m \in Nat, n <= m, NEW D, NEW F, D \subseteq F, NEW v, ValueIn(v, n, D)
  PROVE  ValueIn(v, m, F)
<1>1. 1..n \subseteq 1..m
  OBVIOUS
<1>2. QED BY <1>1 DEF ValueIn

LEMMA TypedWider ==
  ASSUME NEW E, NEW G, E \subseteq G, NEW n \in Nat, NEW m \in Nat, n <= m,
         NEW D, NEW F, D \subseteq F, NEW ins, Typed(ins, E, n, D)
  PROVE  Typed(ins, G, m, F)
<1>1. \A k \in {1, 2} : ins.to \in [1..k -> D] => ins.to \in [1..k -> F]
  OBVIOUS
<1>2. \A v : ValueIn(v, n, D) => ValueIn(v, m, F)
  BY ValueWider
<1>3. QED BY <1>1, <1>2 DEF Typed

LEMMA CodeWider ==
  ASSUME NEW E, NEW G, E \subseteq G, NEW n \in Nat, NEW m \in Nat, n <= m,
         NEW bs, CodeTyped(bs, E, n)
  PROVE  CodeTyped(bs, G, m)
BY TypedWider DEF CodeTyped, ListTyped

LEMMA EmitChanges ==
  ASSUME NEW bs, IsModule(bs), NEW b \in DOMAIN bs, ~Ends(bs[b].code), NEW ins,
         NEW new, new = Emit(bs, b, ins)
  PROVE  /\ IsModule(new) /\ Changes(bs, new, {}) /\ DOMAIN new = DOMAIN bs
         /\ \A c \in DOMAIN bs : c # b => new[c] = bs[c]
         /\ \A E, n : CodeTyped(bs, E, n) /\ Typed(ins, E, n, DOMAIN bs) => CodeTyped(new, E, n)
<1>1. /\ IsModule(new) /\ DOMAIN new = DOMAIN bs
      /\ \A c \in DOMAIN bs : c # b => new[c] = bs[c]
      /\ new[b].code = Append(bs[b].code, ins) /\ new[b].placed = bs[b].placed
  BY Emitted
<1>2. Grows(bs, new)
  BY <1>1 DEF Grows
<1>3. Changes(bs, new, {})
  BY <1>1, <1>2 DEF Changes
<1>4. ASSUME NEW E, NEW n, CodeTyped(bs, E, n), Typed(ins, E, n, DOMAIN bs)
      PROVE  CodeTyped(new, E, n)
  <2>1. ListTyped(bs[b].code, E, n, DOMAIN bs) /\ IsStack(bs[b].code)
    BY <1>4, ModuleFacts DEF CodeTyped, IsStack, IsCode
  <2>2. /\ DOMAIN Append(bs[b].code, ins) = 1..(Len(bs[b].code) + 1)
        /\ DOMAIN bs[b].code = 1..Len(bs[b].code) /\ Len(bs[b].code) \in Nat
        /\ \A i \in DOMAIN bs[b].code : Append(bs[b].code, ins)[i] = bs[b].code[i]
        /\ Append(bs[b].code, ins)[Len(bs[b].code) + 1] = ins
    BY <2>1, Pushed, StackFacts
  <2>3. ListTyped(Append(bs[b].code, ins), E, n, DOMAIN bs)
    <3>1. \A i \in DOMAIN Append(bs[b].code, ins) :
            i \in DOMAIN bs[b].code \/ i = Len(bs[b].code) + 1
      BY <2>2
    <3>2. QED BY <1>4, <2>1, <2>2, <3>1 DEF ListTyped
  <2>4. QED BY <1>1, <1>4, <2>3 DEF CodeTyped
<1>5. QED BY <1>1, <1>3, <1>4

LEMMA PlaceChanges ==
  ASSUME NEW bs, IsModule(bs), NEW b \in DOMAIN bs, NEW new, new = Place(bs, b)
  PROVE  /\ IsModule(new) /\ Changes(bs, new, {b}) /\ DOMAIN new = DOMAIN bs
         /\ \A c \in DOMAIN bs : new[c].code = bs[c].code
         /\ \A E, n : CodeTyped(bs, E, n) => CodeTyped(new, E, n)
<1>1. IsModule(new) /\ IsPlacing(bs, b, new)
  BY PlacedBlock
<1>2. DOMAIN new = DOMAIN bs /\ \A c \in DOMAIN bs : new[c].code = bs[c].code
  BY <1>1 DEF IsPlacing
<1>3. Changes(bs, new, {b})
  BY <1>1, <1>2 DEF Changes, Grows, IsPlacing
<1>4. QED BY <1>1, <1>2, <1>3 DEF CodeTyped

LEMMA ExtensionChanges ==
  ASSUME NEW bs, NEW code, NEW a, NEW e, NEW m, NEW new, IsExtension(bs, code, a, e, m, new)
  PROVE  /\ Changes(bs, new, {a, e})
         /\ \A E, n : CodeTyped(bs, E, n) /\ n \in Nat /\ ListTyped(code, E, n, DOMAIN new) =>
              CodeTyped(new, E, n)
<1>1. Changes(bs, new, {a, e})
  BY DEF Changes, Grows, IsExtension
<1>2. ASSUME NEW E, NEW n, CodeTyped(bs, E, n), n \in Nat, ListTyped(code, E, n, DOMAIN new),
             NEW b \in DOMAIN new
      PROVE  ListTyped(new[b].code, E, n, DOMAIN new)
  <2>1. CASE b \in DOMAIN bs
    <3>1. new[b] = bs[b] /\ DOMAIN bs \subseteq DOMAIN new
      BY <2>1 DEF IsExtension
    <3>2. ListTyped(bs[b].code, E, n, DOMAIN bs)
      BY <1>2, <2>1 DEF CodeTyped
    <3>3. n <= n
      BY <1>2
    <3>4. QED BY <1>2, <3>1, <3>2, <3>3, TypedWider DEF ListTyped
  <2>2. CASE b \in {a, m}
    <3>1. new[b].code = <<>>
      BY <2>2 DEF IsExtension
    <3>2. QED BY <3>1 DEF ListTyped
  <2>3. CASE b = e
    BY <1>2, <2>3 DEF IsExtension
  <2>4. QED BY <2>1, <2>2, <2>3 DEF IsExtension
<1>3. QED BY <1>1, <1>2 DEF CodeTyped

\* Instructions that are made have their types.
LEMMA InstructionsTyped ==
  ASSUME NEW E, NEW n, NEW D
  PROVE  /\ \A e \in E : Typed(Event(e), E, n, D)
         /\ \A b \in D : Typed(Br(b), E, n, D)
         /\ \A b, c \in D : \A v : ValueIn(v, n, D) => Typed(CondBr(v, b, c), E, n, D)
         /\ Typed(Ret(TRUE), E, n, D) /\ Typed(Ret(FALSE), E, n, D)
<1>1. ASSUME NEW e \in E PROVE Typed(Event(e), E, n, D)
  <2>1. Event(e).op = "event" /\ Event(e).id = e
    BY DEF Event
  <2>2. QED BY <2>1 DEF Typed
<1>2. ASSUME NEW b \in D PROVE Typed(Br(b), E, n, D)
  <2>1. Br(b).op = "br" /\ Br(b).to = <<b>>
    BY DEF Br
  <2>2. <<b>> \in [1..1 -> D]
    OBVIOUS
  <2>3. QED BY <2>1, <2>2 DEF Typed
<1>3. ASSUME NEW b \in D, NEW c \in D, NEW v, ValueIn(v, n, D)
      PROVE  Typed(CondBr(v, b, c), E, n, D)
  <2>1. CondBr(v, b, c).op = "condbr" /\ CondBr(v, b, c).to = <<b, c>> /\ CondBr(v, b, c).on = v
    BY DEF CondBr
  <2>2. <<b, c>> \in [1..2 -> D]
    OBVIOUS
  <2>3. QED BY <1>3, <2>1, <2>2 DEF Typed
<1>4. Typed(Ret(TRUE), E, n, D) /\ Typed(Ret(FALSE), E, n, D)
  <2>1. /\ Ret(TRUE).op = "ret" /\ Ret(TRUE).valued = TRUE
        /\ Ret(FALSE).op = "ret" /\ Ret(FALSE).valued = FALSE
    BY DEF Ret
  <2> HIDE DEF Typed
  <2>2. \A i : i.op = "ret" /\ i.valued \in BOOLEAN => Typed(i, E, n, D)
    BY DEF Typed
  <2>3. QED BY <2>1, <2>2
<1>5. QED BY <1>1, <1>2, <1>3, <1>4

-----------------------------------------------------------------------------
(* Blocks that are visited *)

Visits(bs, run, b) == \E w : IsRun(bs, run, w) /\ \E i \in DOMAIN w : w[i].block = b
Covered(bs) == \A b \in DOMAIN bs : bs[b].placed = TRUE => \E run \in Runs : Visits(bs, run, b)

LEMMA Counts ==
  ASSUME NEW n \in Nat
  PROVE  /\ 0 \notin 1..n
         /\ \A i \in 0..(n - 1) : i # 0 => i \in 1..n /\ i # n
         /\ \A i \in 0..(n - 1) : i + 1 \in 0..n /\ i + 1 # 0
         /\ n > 0 /\ n # 1 => n - 1 \in 1..n /\ n - 1 # n /\ (n - 1) + 1 = n
OBVIOUS

\* A run in longer blocks goes where it went before.
LEMMA StillVisits ==
  ASSUME NEW bs, NEW new, Grows(bs, new), NEW run, NEW b, Visits(bs, run, b),
         NEW v, IsRun(new, run, v)
  PROVE  Visits(new, run, b)
<1>1. PICK w : IsRun(bs, run, w) /\ \E i \in DOMAIN w : w[i].block = b
  BY DEF Visits
<1>2. IsPath(bs, run, w) /\ IsPath(new, run, w) /\ IsPath(new, run, v)
  BY <1>1, PathGrows DEF IsRun
<1>3. /\ Len(w) \in Nat /\ Len(w) > 0 /\ DOMAIN w = 1..Len(w)
      /\ Len(v) \in Nat /\ Len(v) > 0 /\ DOMAIN v = 1..Len(v) /\ Last(v) = v[Len(v)]
  BY <1>2, PathFacts
<1> DEFINE T == {i \in 0..Len(w) : i # 0 => i \in DOMAIN v /\ v[i] = w[i]}
<1>4. 0 \in T
  BY <1>3
<1>5. ASSUME NEW i \in 0..(Len(w) - 1), i \in T PROVE i + 1 \in T
  <2>1. i + 1 \in 0..Len(w) /\ i + 1 # 0
    BY <1>3
  <2>2. CASE i = 0
    <3>1. 1 \in DOMAIN v /\ v[1] = w[1]
      BY <1>2, <1>3 DEF IsPath
    <3>2. QED BY <2>1, <2>2, <3>1
  <2>3. CASE i # 0
    <3>0. i \in 1..Len(w) /\ i # Len(w)
      BY <1>3, <2>3, Counts
    <3>1. i \in DOMAIN w /\ i # Len(w) /\ i \in DOMAIN v /\ v[i] = w[i]
      BY <1>3, <1>5, <2>3, <3>0
    <3>2. ~EndsRun(new[w[i].block].code) /\ w[i + 1] = NextOf(new[w[i].block].code, run, w[i])
      BY <1>2, <3>1 DEF IsPath
    <3>3. i # Len(v)
      BY <1>1, <1>3, <3>1, <3>2 DEF IsRun
    <3>4. i + 1 \in DOMAIN v /\ v[i + 1] = NextOf(new[v[i].block].code, run, v[i])
      BY <1>2, <1>3, <3>1, <3>3 DEF IsPath
    <3>5. QED BY <2>1, <3>1, <3>2, <3>4
  <2>4. QED BY <2>2, <2>3
<1>6. \A i \in 0..Len(w) : i \in T
  <2> HIDE DEF T
  <2>1. QED BY <1>3, <1>4, <1>5, InductionUpTo
<1>7. \A i \in DOMAIN w : i \in DOMAIN v /\ v[i] = w[i]
  BY <1>3, <1>6
<1>8. QED BY <1>1, <1>7 DEF Visits

\* The block of the builder is visited by the runs that are at it, and one that is held
\* by those that wait for it.
LEMMA InsertVisited ==
  ASSUME NEW bs, NEW at, NEW cs, NEW pth, NEW res, NEW run, NEW t,
         HasRun(bs, at, cs, pth, res, run, t), cs # <<>>, run \in pth
  PROVE  Visits(bs, run, at)
<1>1. PICK w : Follows(bs, run, w, t) /\ Situated(bs, at, cs, pth, run, Last(w))
  BY DEF HasRun
<1>2. IsRun(bs, run, w) /\ Last(w).block = at
  BY <1>1 DEF Follows, Situated
<1>3. Len(w) \in DOMAIN w /\ Last(w) = w[Len(w)]
  BY <1>2, PathFacts DEF IsRun
<1>4. QED BY <1>2, <1>3 DEF Visits

LEMMA SideVisited ==
  ASSUME NEW bs, IsModule(bs), NEW at, NEW cs, NEW pth, NEW res, NEW run, NEW t,
         HasRun(bs, at, cs, pth, res, run, t), cs # <<>>,
         NEW k \in Holders(cs), run \in Waits(cs[k]), Side(cs[k]) \in DOMAIN bs,
         cs[k].function # "LowerIf else"
  PROVE  Visits(bs, run, Side(cs[k]))
<1>1. PICK w : Follows(bs, run, w, t) /\ Situated(bs, at, cs, pth, run, Last(w))
  BY DEF HasRun
<1>2. IsRun(bs, run, w) /\ HolderHas(run, Last(w), cs[k])
  BY <1>1 DEF Follows, Situated
<1>3. Last(w).block = WaitsAt(cs[k])
  BY <1>2 DEF HolderHas
<1>4. Len(w) \in DOMAIN w /\ Last(w) = w[Len(w)] /\ DOMAIN w = 1..Len(w) /\ Len(w) \in Nat
  BY <1>2, PathFacts DEF IsRun
<1>5. CASE cs[k].function # "LowerLogicalOr rhs"
  <2>1. WaitsAt(cs[k]) = Side(cs[k])
    BY <1>5 DEF WaitsAt
  <2>2. QED BY <1>2, <1>3, <1>4, <2>1 DEF Visits
<1>6. CASE cs[k].function = "LowerLogicalOr rhs"
  <2>1. Last(w).from = cs[k].short /\ Side(cs[k]) = cs[k].short
    BY <1>2, <1>3, <1>6 DEF HolderHas, WaitsAt, Side
  <2>2. Len(w) # 1
    <3>1. Len(bs) \in Nat /\ DOMAIN bs = 1..Len(bs)
      BY ModuleFacts
    <3>2. 0 \notin DOMAIN bs
      BY <3>1, Counts
    <3>3. w[1] = Beginning /\ Beginning.from = 0
      BY <1>2 DEF IsRun, IsPath, Beginning
    <3>4. Len(w) = 1 => Last(w).from = 0
      BY <1>4, <3>3
    <3>5. QED BY <2>1, <3>2, <3>4
  <2>3. /\ Len(w) - 1 \in DOMAIN w /\ Len(w) - 1 # Len(w) /\ (Len(w) - 1) + 1 = Len(w)
    <3>1. Len(w) > 0
      BY <1>2, PathFacts DEF IsRun
    <3>2. QED BY <1>4, <2>2, <3>1, Counts
  <2>4. w[Len(w)] = NextOf(bs[w[Len(w) - 1].block].code, run, w[Len(w) - 1])
    BY <1>2, <2>3 DEF IsRun, IsPath
  <2>5. w[Len(w)].from = w[Len(w) - 1].block
    <3> DEFINE here == w[Len(w) - 1]
    <3>1. \A code : NextOf(code, run, here).from = here.block
      BY DEF NextOf
    <3> HIDE DEF here
    <3>2. QED BY <2>4, <3>1 DEF here
  <2>6. QED BY <1>2, <1>4, <2>1, <2>3, <2>5 DEF Visits
<1>7. QED BY <1>5, <1>6

LEMMA CoveredStays ==
  ASSUME NEW bs, Covered(bs), NEW N, NEW new, Changes(bs, new, N),
         \A run \in Runs : \E w : IsRun(new, run, w),
         \A b \in N : \E run \in Runs : Visits(new, run, b)
  PROVE  Covered(new)
<1> SUFFICES ASSUME NEW b \in DOMAIN new, new[b].placed = TRUE
             PROVE  \E run \in Runs : Visits(new, run, b)
  BY DEF Covered
<1>1. CASE b \in N
  BY <1>1
<1>2. CASE b \notin N
  <2>1. b \in DOMAIN bs /\ bs[b].placed = TRUE
    BY <1>2 DEF Changes
  <2>2. PICK run \in Runs : Visits(bs, run, b)
    BY <2>1 DEF Covered
  <2>3. PICK w : IsRun(new, run, w)
    OBVIOUS
  <2>4. Visits(new, run, b)
    BY <2>2, <2>3, StillVisits DEF Changes
  <2>5. QED BY <2>4
<1>3. QED BY <1>1, <1>2

-----------------------------------------------------------------------------
(* Sets of runs *)

\* A set of runs that the first n operands tell.
Depends(R, n) ==
  /\ R \subseteq Runs
  /\ \A r \in R, s \in Runs : (\A i \in 1..n : r[i] = s[i]) => s \in R
BothWays(R, T) == R \cap T # {} /\ R \ T # {}

LEMMA DependsOn ==
  ASSUME NEW n \in Nat, NEW R, NEW T, Depends(R, n), Depends(T, n)
  PROVE  Depends(R \cap T, n) /\ Depends(R \cup T, n) /\ Depends(R \ T, n)
<1>1. R \subseteq Runs /\ T \subseteq Runs
  BY DEF Depends
<1>2. ASSUME NEW r \in Runs, NEW s \in Runs, \A i \in 1..n : r[i] = s[i]
      PROVE  (r \in R => s \in R) /\ (r \in T => s \in T) /\ (s \in T => r \in T)
  <2>1. \A i \in 1..n : s[i] = r[i]
    BY <1>2
  <2>2. QED BY <1>2, <2>1 DEF Depends
<1>3. QED BY <1>1, <1>2 DEF Depends

LEMMA DependsOnAll ==
  ASSUME NEW n \in Nat
  PROVE  Depends(Runs, n) /\ Depends({}, n)
BY DEF Depends

\* The next operand is true in some runs, and false in others.
LEMMA NextOperand ==
  ASSUME NEW n \in Nat, n < MaxOperands, NEW R, Depends(R, n), R # {},
         NEW T, T = {run \in Runs : run[n + 1]}
  PROVE  Depends(T, n + 1) /\ BothWays(R, T)
<1>1. n + 1 \in 1..MaxOperands /\ n + 1 \in 1..(n + 1) /\ n + 1 \notin 1..n
  BY BodyAssumption
<1>2. Depends(T, n + 1)
  BY <1>1 DEF Depends
<1>3. PICK r : r \in R
  OBVIOUS
<1>4. r \in [1..MaxOperands -> BOOLEAN]
  BY <1>3 DEF Depends, Runs
<1>5. ASSUME NEW v \in BOOLEAN
      PROVE  \E s \in R : s[n + 1] = v
  <2> DEFINE s == [r EXCEPT ![n + 1] = v]
  <2>1. s \in Runs /\ s[n + 1] = v
    BY <1>1, <1>4 DEF Runs
  <2>2. \A i \in 1..n : r[i] = s[i]
    <3>1. ASSUME NEW i \in 1..n PROVE r[i] = s[i]
      <4>1. i # n + 1
        BY <1>1
      <4>2. i \in 1..MaxOperands
        BY BodyAssumption
      <4>3. QED BY <1>4, <4>1, <4>2
    <3>2. QED BY <3>1
  <2> HIDE DEF s
  <2>3. s \in R
    BY <1>3, <2>1, <2>2 DEF Depends
  <2>4. QED BY <2>1, <2>3
<1>6. PICK s \in R : s[n + 1] = TRUE
  BY <1>5
<1>7. PICK u \in R : u[n + 1] = FALSE
  BY <1>5
<1>8. s \in T /\ u \notin T
  BY <1>6, <1>7 DEF Depends
<1>9. QED BY <1>2, <1>8 DEF BothWays

-----------------------------------------------------------------------------
(* The invariant: types, and runs wherever there is a block *)

\* The runs of a call that holds blocks are told by n operands, and there are some
\* wherever it comes back to.
FrameRuns(f, n) ==
  /\ Depends(Waits(f), n)
  /\ f.function = "LowerIf then" => Waits(f) # {}
  /\ f.function = "LowerIf else" /\ ~f.thenTerminated => Waits(f) # {}
  /\ f.function \in RhsFunctions =>
       Depends(f.path, n) /\ Depends(f.truth, n) /\ BothWays(f.path, f.truth)
FramesRun(cs, n) == \A h \in Holders(cs) : FrameRuns(cs[h], n)
\* Some run gets to an open block, and in some the value of an expression is true.
PathRuns(bs, at, cs, pth, res, n) ==
  /\ Depends(pth, n)
  /\ ~Ends(bs[at].code) /\ cs # <<>> => pth # {}
  /\ ~res.none => Depends(res.truth, n) /\ BothWays(pth, res.truth)
Occupied == PathRuns(blocks, insert, calls, path, result, operands) /\ FramesRun(calls, operands)

ResultTyped(res, n, D) ==
  /\ res.none => res.truth = {}
  /\ ~res.none => ValueIn(res.value, n, D)
EventsTyped(exp) == IsStack(exp) /\ \A e \in DOMAIN exp : exp[e] \subseteq Runs
CodeTypes == CodeTyped(blocks, DOMAIN expected, operands)
TypesInv ==
  /\ ResultTyped(result, operands, DOMAIN blocks) /\ EventsTyped(expected)
  /\ statements \in 0..MaxStatements /\ operands \in 0..MaxOperands /\ declared \in BOOLEAN

CoveredInv == Covered(blocks) /\ 1 \in DOMAIN blocks /\ blocks[1].placed = TRUE
CInv == SInv /\ Occupied /\ CodeTypes /\ TypesInv /\ CoveredInv

-----------------------------------------------------------------------------
(* What keeps its parts *)

LEMMA DependsOnMany ==
  ASSUME NEW n \in Nat, NEW m \in Nat, n <= m, NEW R, Depends(R, n)
  PROVE  Depends(R, m)
<1>1. 1..n \subseteq 1..m
  OBVIOUS
<1>2. QED BY <1>1 DEF Depends

LEMMA FrameStays ==
  ASSUME NEW f, NEW n \in Nat, NEW m \in Nat, n <= m, FrameRuns(f, n)
  PROVE  FrameRuns(f, m)
BY DependsOnMany DEF FrameRuns

\* Calls that hold nothing come and go.
LEMMA FramesStay ==
  ASSUME NEW cs, NEW n \in Nat, FramesRun(cs, n), NEW m \in Nat, n <= m,
         NEW ds, Holders(ds) = Holders(cs), \A k \in Holders(cs) : ds[k] = cs[k]
  PROVE  FramesRun(ds, m)
BY FrameStays DEF FramesRun

LEMMA FramesButTop ==
  ASSUME NEW cs, NEW n, FramesRun(cs, n), NEW ds, NEW h, OnlyTop(cs, ds, h),
         h \in Holders(ds) => FrameRuns(ds[h], n)
  PROVE  FramesRun(ds, n)
BY DEF FramesRun, OnlyTop

LEMMA NoResultTyped ==
  ASSUME NEW n, NEW D
  PROVE  NoResult.none /\ NoResult.truth = {} /\ ResultTyped(NoResult, n, D)
<1>1. NoResult.none /\ NoResult.truth = {}
  BY DEF NoResult
<1>2. QED BY <1>1 DEF ResultTyped

\* One event more.
LEMMA MoreEvents ==
  ASSUME NEW exp, EventsTyped(exp), NEW p, p \subseteq Runs
  PROVE  /\ EventsTyped(Append(exp, p)) /\ DOMAIN exp \subseteq DOMAIN Append(exp, p)
         /\ Len(exp) + 1 \in DOMAIN Append(exp, p)
<1>1. /\ IsStack(Append(exp, p)) /\ DOMAIN Append(exp, p) = 1..(Len(exp) + 1)
      /\ \A i \in DOMAIN exp : Append(exp, p)[i] = exp[i]
      /\ Append(exp, p)[Len(exp) + 1] = p
      /\ DOMAIN exp = 1..Len(exp) /\ Len(exp) \in Nat
  BY Pushed, StackFacts DEF EventsTyped
<1>2. /\ DOMAIN exp \subseteq DOMAIN Append(exp, p) /\ Len(exp) + 1 \in DOMAIN Append(exp, p)
      /\ \A i \in DOMAIN Append(exp, p) : i \in DOMAIN exp \/ i = Len(exp) + 1
  BY <1>1
<1>3. QED BY <1>1, <1>2 DEF EventsTyped

LEMMA SameChanges == ASSUME NEW bs PROVE Changes(bs, bs, {})
BY DEF Changes, Grows

\* An event is emitted.
LEMMA EventChanges ==
  ASSUME NEW bs, IsModule(bs), NEW at \in DOMAIN bs, ~Ends(bs[at].code),
         NEW exp, EventsTyped(exp), NEW p, p \subseteq Runs,
         NEW n \in Nat, NEW m \in Nat, n <= m, CodeTyped(bs, DOMAIN exp, n),
         NEW new, new = Emit(bs, at, Event(Len(exp) + 1)), NEW more, more = Append(exp, p)
  PROVE  /\ IsModule(new) /\ DOMAIN new = DOMAIN bs /\ Changes(bs, new, {})
         /\ CodeTyped(new, DOMAIN more, m)
<1> DEFINE E == DOMAIN more
<1>1. DOMAIN exp \subseteq E /\ Len(exp) + 1 \in E
  BY MoreEvents
<1> HIDE DEF E
<1>2. CodeTyped(bs, E, m) /\ Typed(Event(Len(exp) + 1), E, m, DOMAIN bs)
  BY <1>1, CodeWider, InstructionsTyped
<1>3. QED BY <1>2, EmitChanges DEF E

-----------------------------------------------------------------------------
(* What every step does *)

CodeStep(N) == Changes(blocks, blocks', N) /\ CodeTypes'

LEMMA CFacts ==
  ASSUME CInv
  PROVE  /\ ModuleInv(blocks, insert, calls, declared) /\ StackInv(blocks, insert, calls)
         /\ IsModule(blocks) /\ insert \in DOMAIN blocks /\ IsStack(calls)
         /\ PathRuns(blocks, insert, calls, path, result, operands)
         /\ FramesRun(calls, operands) /\ CodeTyped(blocks, DOMAIN expected, operands)
         /\ ResultTyped(result, operands, DOMAIN blocks) /\ EventsTyped(expected)
         /\ path \subseteq Runs /\ operands \in Nat /\ operands <= operands
         /\ operands \in 0..MaxOperands /\ statements \in 0..MaxStatements
         /\ declared \in BOOLEAN
         /\ calls # <<>> /\ Last(calls).function \in StatementFunctions => result.none
<1>1. /\ ModuleInv(blocks, insert, calls, declared) /\ StackInv(blocks, insert, calls)
      /\ IsStack(calls)
      /\ calls # <<>> /\ Last(calls).function \in StatementFunctions => result.none
  BY Facts DEF CInv
<1>2. IsModule(blocks) /\ insert \in DOMAIN blocks
  BY <1>1 DEF ModuleInv, CodeInv
<1>3. operands \in Nat /\ operands <= operands
  BY BodyAssumption DEF CInv, TypesInv
<1>4. path \subseteq Runs
  BY DEF CInv, Occupied, PathRuns, Depends
<1>5. QED BY <1>1, <1>2, <1>3, <1>4 DEF CInv, Occupied, TypesInv, CodeTypes

LEMMA TypesNext ==
  ASSUME CInv, expected' = expected \/ expected' = Append(expected, path),
         ResultTyped(result', operands', DOMAIN blocks'),
         statements' = statements \/ (statements < MaxStatements /\ statements' = statements + 1),
         operands' = operands \/ (operands < MaxOperands /\ operands' = operands + 1),
         declared' = declared
  PROVE  TypesInv'
<1>1. EventsTyped(expected')
  BY CFacts, MoreEvents
<1>2. statements' \in 0..MaxStatements /\ operands' \in 0..MaxOperands
  BY CFacts, BodyAssumption
<1>3. QED BY <1>1, <1>2, CFacts DEF TypesInv

LEMMA EventStep ==
  ASSUME CInv, ~Ends(blocks[insert].code), NEW n \in Nat, operands <= n,
         NEW new, new = Emit(blocks, insert, Event(Len(expected) + 1)),
         NEW exp, exp = Append(expected, path)
  PROVE  /\ IsModule(new) /\ DOMAIN new = DOMAIN blocks /\ Changes(blocks, new, {})
         /\ CodeTyped(new, DOMAIN exp, n)
<1>1. /\ IsModule(blocks) /\ insert \in DOMAIN blocks /\ EventsTyped(expected)
      /\ path \subseteq Runs /\ operands \in Nat
      /\ CodeTyped(blocks, DOMAIN expected, operands)
  BY CFacts
<1>2. QED BY <1>1, EventChanges

\* Nothing changes but the calls that hold nothing, or an event is emitted.
LEMMA Quiet ==
  ASSUME CInv, calls # <<>>,
         Holders(calls') = Holders(calls), \A k \in Holders(calls) : calls'[k] = calls[k],
         UNCHANGED <<insert, path, operands, declared>>, result' = result \/ result' = NoResult,
         statements' = statements \/ (statements < MaxStatements /\ statements' = statements + 1),
         \/ blocks' = blocks /\ (expected' = expected \/ expected' = Append(expected, path))
         \/ /\ ~Ends(blocks[insert].code) /\ expected' = Append(expected, path)
            /\ blocks' = Emit(blocks, insert, Event(Len(expected) + 1))
  PROVE  Occupied' /\ TypesInv' /\ CodeStep({})
<1>1. FramesRun(calls', operands')
  BY CFacts, FramesStay
<1>2. Depends(path', operands')
  BY CFacts DEF PathRuns
<1>3. ~Ends(blocks'[insert'].code) => path' # {}
  BY CFacts DEF PathRuns
<1>4. ~result'.none => Depends(result'.truth, operands') /\ BothWays(path', result'.truth)
  BY CFacts, NoResultTyped DEF PathRuns
<1>5. Occupied'
  BY <1>1, <1>2, <1>3, <1>4 DEF Occupied, PathRuns
<1>6. CodeStep({}) /\ DOMAIN blocks' = DOMAIN blocks
  <2>1. CASE blocks' = blocks
    <3>1. DOMAIN expected \subseteq DOMAIN expected'
      BY CFacts, MoreEvents, <2>1
    <3>2. CodeTyped(blocks', DOMAIN expected', operands')
      BY <2>1, <3>1, CFacts, CodeWider
    <3>3. QED BY <2>1, <3>2, SameChanges DEF CodeStep, CodeTypes
  <2>2. CASE blocks' # blocks
    <3>1. /\ ~Ends(blocks[insert].code) /\ expected' = Append(expected, path)
          /\ blocks' = Emit(blocks, insert, Event(Len(expected) + 1)) /\ operands' = operands
          /\ operands' \in Nat /\ operands <= operands'
      BY <2>2, CFacts
    <3>2. /\ DOMAIN blocks' = DOMAIN blocks /\ Changes(blocks, blocks', {})
          /\ CodeTyped(blocks', DOMAIN expected', operands')
      BY <3>1, EventStep
    <3>3. QED BY <3>2 DEF CodeStep, CodeTypes
  <2>3. QED BY <2>1, <2>2
<1>7. ResultTyped(result', operands', DOMAIN blocks')
  BY <1>6, CFacts, NoResultTyped
<1>8. TypesInv'
  BY <1>7, TypesNext
<1>9. QED BY <1>5, <1>6, <1>8

\* A call that holds nothing is made, or returns.
LEMMA SameCalls ==
  ASSUME CInv, calls # <<>>,
         \/ \E f : f \notin HoldingFunctions /\ Call(f)
         \/ Last(calls).function \notin HoldingFunctions /\ Return
         \/ UNCHANGED calls
  PROVE  Holders(calls') = Holders(calls) /\ \A k \in Holders(calls) : calls'[k] = calls[k]
<1>1. CASE \E f : f \notin HoldingFunctions /\ Call(f)
  <2>1. PICK f : f \notin HoldingFunctions /\ Call(f)
    BY <1>1
  <2> DEFINE frame == [function |-> f]
  <2>2. IsPushed(calls, frame, calls') /\ frame.function \notin HoldingFunctions
    BY <2>1 DEF Call, IsPushed
  <2> HIDE DEF frame
  <2>3. QED BY <2>2, CFacts, NonHolderPushed
<1>2. CASE Last(calls).function \notin HoldingFunctions /\ Return
  BY <1>2, CFacts, NonHolderPopped DEF Return
<1>3. CASE UNCHANGED calls
  BY <1>3
<1>4. QED BY <1>1, <1>2, <1>3

LEMMA SkipStep == CInv /\ SkipStatement => Occupied' /\ TypesInv' /\ CodeStep({})
<1> SUFFICES ASSUME CInv, SkipStatement PROVE Occupied' /\ TypesInv' /\ CodeStep({})
  OBVIOUS
<1>1. /\ calls # <<>> /\ UNCHANGED <<blocks, insert, calls, result, path, operands, declared>>
      /\ expected' = Append(expected, path)
      /\ statements < MaxStatements /\ statements' = statements + 1
  BY DEF SkipStatement, Statement, Lowering
<1>2. QED BY <1>1, SameCalls, Quiet

LEMMA SimpleStep == CInv /\ LowerSimple => Occupied' /\ TypesInv' /\ CodeStep({})
<1> SUFFICES ASSUME CInv, LowerSimple PROVE Occupied' /\ TypesInv' /\ CodeStep({})
  OBVIOUS
<1>1. /\ calls # <<>> /\ ~Ends(blocks[insert].code)
      /\ UNCHANGED <<insert, calls, result, path, operands, declared>>
      /\ blocks' = Emit(blocks, insert, Event(Len(expected) + 1))
      /\ expected' = Append(expected, path)
      /\ statements < MaxStatements /\ statements' = statements + 1
  BY CurrentBlock DEF LowerSimple, LoweredStatement, Statement, Skips, Lowering, NextEvent
<1>2. QED BY <1>1, SameCalls, Quiet

LEMMA CallStep ==
  CInv /\ (LowerBlock \/ LowerWithExpression \/ LowerLogical) =>
    Occupied' /\ TypesInv' /\ CodeStep({})
<1> SUFFICES ASSUME CInv, LowerBlock \/ LowerWithExpression \/ LowerLogical
             PROVE  Occupied' /\ TypesInv' /\ CodeStep({})
  OBVIOUS
<1>1. /\ calls # <<>>
      /\ UNCHANGED <<blocks, insert, result, expected, path, operands, declared>>
      /\ statements' = statements \/ (statements < MaxStatements /\ statements' = statements + 1)
  BY DEF LowerBlock, LowerWithExpression, LowerLogical, LoweredStatement, Statement, Lowering,
         Expecting
<1>2. \E f \in {"LowerStatements", "LowerIf", "LowerReturn", "StoreIntoPointer",
                "LowerLogicalAnd", "LowerLogicalOr"} : Call(f)
  BY DEF LowerBlock, LowerWithExpression, LowerLogical
<1>3. \E f : f \notin HoldingFunctions /\ Call(f)
  BY <1>2 DEF HoldingFunctions
<1>4. QED BY <1>1, <1>3, SameCalls, Quiet

LEMMA EndStatementsStep == CInv /\ EndStatements => Occupied' /\ TypesInv' /\ CodeStep({})
<1> SUFFICES ASSUME CInv, EndStatements PROVE Occupied' /\ TypesInv' /\ CodeStep({})
  OBVIOUS
<1>1. /\ calls # <<>> /\ Last(calls).function = "LowerStatements" /\ Return
      /\ UNCHANGED <<blocks, insert, result, statements, expected, path, operands, declared>>
  BY DEF EndStatements, Lowering
<1>2. Last(calls).function \notin HoldingFunctions
  BY <1>1 DEF HoldingFunctions
<1>3. QED BY <1>1, <1>2, SameCalls, Quiet

LEMMA StoreStep == CInv /\ Store => Occupied' /\ TypesInv' /\ CodeStep({})
<1> SUFFICES ASSUME CInv, Store PROVE Occupied' /\ TypesInv' /\ CodeStep({})
  OBVIOUS
<1>1. /\ calls # <<>> /\ Last(calls).function = "StoreIntoPointer" /\ Return
      /\ result' = NoResult /\ UNCHANGED <<insert, statements, path, operands, declared>>
      /\ blocks' = Emit(blocks, insert, Event(Len(expected) + 1))
      /\ expected' = Append(expected, path)
  BY DEF Store, Returned, Lowering, NextEvent
<1>2. Last(calls).function \notin HoldingFunctions /\ ~Ends(blocks[insert].code)
  BY <1>1, CFacts, OnTop DEF HoldingFunctions, StatementFunctions
<1>3. QED BY <1>1, <1>2, SameCalls, Quiet

\* A return is emitted.
LEMMA ReturnChanges ==
  ASSUME CInv, ~Ends(blocks[insert].code), expected' = Append(expected, path),
         operands' = operands, blocks' = ReturnStatement(insert)
  PROVE  /\ CodeStep({}) /\ DOMAIN blocks' = DOMAIN blocks /\ Ends(blocks'[insert].code)
<1> DEFINE done == Emit(blocks, insert, Event(Len(expected) + 1))
<1>1. /\ blocks' = Emit(done, insert, Ret(declared))
      /\ done = Emit(blocks, insert, Event(Len(expected) + 1))
  BY DEF ReturnStatement, NextEvent
<1> HIDE DEF done
<1>2. ModuleInv(done, insert, calls, declared) /\ ~Ends(done[insert].code)
  BY <1>1, CFacts, EventEmitted
<1>3. Ends(blocks'[insert].code)
  BY <1>1, <1>2, ReturnEmitted
<1>4. /\ IsModule(done) /\ DOMAIN done = DOMAIN blocks /\ Changes(blocks, done, {})
      /\ CodeTyped(done, DOMAIN expected', operands)
  BY <1>1, CFacts, EventStep
<1>5. Typed(Ret(declared), DOMAIN expected', operands, DOMAIN done)
  BY CFacts, InstructionsTyped
<1>6. /\ DOMAIN blocks' = DOMAIN done /\ Changes(done, blocks', {})
      /\ CodeTyped(blocks', DOMAIN expected', operands)
  BY <1>1, <1>2, <1>4, <1>5, CFacts, EmitChanges
<1>7. Changes(blocks, blocks', {})
  BY <1>4, <1>6, ChangesOn
<1>8. QED BY <1>3, <1>4, <1>6, <1>7 DEF CodeStep, CodeTypes

LEMMA ReturnStep ==
  CInv /\ (LowerReturn \/ LowerReturnValue) => Occupied' /\ TypesInv' /\ CodeStep({})
<1> SUFFICES ASSUME CInv, LowerReturn \/ LowerReturnValue
             PROVE  Occupied' /\ TypesInv' /\ CodeStep({})
  OBVIOUS
<1>1. /\ calls # <<>> /\ expected' = Append(expected, path) /\ path' = {}
      /\ blocks' = ReturnStatement(insert) /\ UNCHANGED <<insert, operands, declared>>
      /\ statements' = statements \/ (statements < MaxStatements /\ statements' = statements + 1)
  BY DEF LowerReturn, LowerReturnValue, LoweredStatement, Statement, Returned, Lowering
<1>2. /\ ~Ends(blocks[insert].code) /\ result'.none /\ ResultTyped(result', operands, DOMAIN blocks)
      /\ Holders(calls') = Holders(calls) /\ \A k \in Holders(calls) : calls'[k] = calls[k]
  <2>1. CASE LowerReturn
    <3>1. /\ ~Ends(blocks[insert].code) /\ Last(calls).function = "LowerStatements"
          /\ UNCHANGED <<calls, result>>
      BY <2>1, CurrentBlock DEF LowerReturn, LoweredStatement, Statement, Skips, Lowering
    <3>2. QED BY <1>1, <3>1, CFacts DEF StatementFunctions
  <2>2. CASE LowerReturnValue
    <3>1. Last(calls).function = "LowerReturn" /\ Return /\ result' = NoResult
      BY <2>2 DEF LowerReturnValue, Returned, Lowering
    <3>2. Last(calls).function \notin HoldingFunctions /\ ~Ends(blocks[insert].code)
      BY <1>1, <3>1, CFacts, OnTop DEF HoldingFunctions, StatementFunctions
    <3>3. QED BY <1>1, <3>1, <3>2, SameCalls, NoResultTyped
  <2>3. QED BY <2>1, <2>2
<1>3. CodeStep({}) /\ DOMAIN blocks' = DOMAIN blocks /\ Ends(blocks'[insert].code)
  BY <1>1, <1>2, ReturnChanges
<1>4. FramesRun(calls', operands')
  BY <1>1, <1>2, CFacts, FramesStay
<1>5. Depends(path', operands')
  BY <1>1, CFacts, DependsOnAll
<1>6. Occupied'
  BY <1>1, <1>2, <1>3, <1>4, <1>5 DEF Occupied, PathRuns
<1>7. TypesInv'
  BY <1>1, <1>2, <1>3, TypesNext
<1>8. QED BY <1>3, <1>6, <1>7

LEMMA DefaultReturnStep ==
  CInv /\ EmitDefaultReturnIfNeeded => Occupied' /\ TypesInv' /\ CodeStep({})
<1> SUFFICES ASSUME CInv, EmitDefaultReturnIfNeeded PROVE Occupied' /\ TypesInv' /\ CodeStep({})
  OBVIOUS
<1>1. /\ calls # <<>> /\ Last(calls).function = "LowerStatements" /\ Len(calls) = 1
      /\ blocks' = IF Ends(blocks[insert].code) THEN blocks
                   ELSE Emit(blocks, insert, Ret(declared))
      /\ calls' = Front(calls)
      /\ UNCHANGED <<insert, result, statements, expected, path, operands, declared>>
  BY CurrentBlock DEF EmitDefaultReturnIfNeeded, Lowering, Return, NeedsDefaultReturn
<1>2. calls' = <<>>
  <2>0. IsStack(Front(calls)) /\ Len(Front(calls)) = Len(calls) - 1
    BY <1>1, CFacts, Popped
  <2>1. IsStack(calls') /\ Len(calls') = 0
    BY <1>1, <2>0
  <2>2. QED BY <2>1, StackFacts
<1>3. Holders(calls') = Holders(calls) /\ \A k \in Holders(calls) : calls'[k] = calls[k]
  BY <1>1, CFacts, NonHolderPopped DEF HoldingFunctions
<1>4. FramesRun(calls', operands')
  BY <1>1, <1>3, CFacts, FramesStay
<1>5. result.none
  BY <1>1, CFacts DEF StatementFunctions
<1>6. Occupied'
  BY <1>1, <1>2, <1>4, <1>5, CFacts DEF Occupied, PathRuns
<1>7. CodeStep({}) /\ DOMAIN blocks' = DOMAIN blocks
  <2>1. CASE Ends(blocks[insert].code)
    BY <1>1, <2>1, CFacts, SameChanges DEF CodeStep, CodeTypes
  <2>2. CASE ~Ends(blocks[insert].code)
    <3>1. Typed(Ret(declared), DOMAIN expected', operands, DOMAIN blocks)
      BY CFacts, InstructionsTyped
    <3>2. /\ Changes(blocks, blocks', {}) /\ DOMAIN blocks' = DOMAIN blocks
          /\ CodeTyped(blocks', DOMAIN expected', operands)
      BY <1>1, <2>2, <3>1, CFacts, EmitChanges
    <3>3. QED BY <1>1, <3>2 DEF CodeStep, CodeTypes
  <2>3. QED BY <2>1, <2>2
<1>8. TypesInv'
  BY <1>1, <1>7, CFacts, TypesNext
<1>9. QED BY <1>6, <1>7, <1>8

LEMMA OperandStep == CInv /\ LowerOperand => Occupied' /\ TypesInv' /\ CodeStep({})
<1> SUFFICES ASSUME CInv, LowerOperand PROVE Occupied' /\ TypesInv' /\ CodeStep({})
  OBVIOUS
<1> DEFINE n == operands + 1
           T == {run \in Runs : run[n]}
<1>1. /\ calls # <<>> /\ Last(calls).function \notin StatementFunctions
      /\ operands < MaxOperands /\ operands' = n
      /\ blocks' = Emit(blocks, insert, Event(Len(expected) + 1))
      /\ expected' = Append(expected, path) /\ result' = Result(Operand(n), T)
      /\ UNCHANGED <<insert, calls, statements, path, declared>>
  BY DEF LowerOperand, Expecting, NextEvent, StatementFunctions
<1>2. operands \in Nat /\ n \in Nat /\ operands <= n /\ n \in 1..n
  BY CFacts
<1>3. ~Ends(blocks[insert].code) /\ path # {} /\ Depends(path, operands)
  BY <1>1, CFacts, OnTop DEF PathRuns
<1>4. Depends(T, n) /\ BothWays(path, T)
  BY <1>1, <1>2, <1>3, NextOperand
<1>5. Depends(path, n) /\ FramesRun(calls, n)
  BY <1>2, <1>3, CFacts, DependsOnMany, FramesStay
<1>6. /\ result'.value = Operand(n) /\ result'.truth = T /\ ~result'.none
  BY <1>1 DEF Result
<1> HIDE DEF T
<1>7. Occupied'
  BY <1>1, <1>3, <1>4, <1>5, <1>6 DEF Occupied, PathRuns
<1>8. CodeStep({}) /\ DOMAIN blocks' = DOMAIN blocks
  <2>1. /\ DOMAIN blocks' = DOMAIN blocks /\ Changes(blocks, blocks', {})
        /\ CodeTyped(blocks', DOMAIN expected', n)
    BY <1>1, <1>2, <1>3, EventStep
  <2>2. QED BY <1>1, <2>1 DEF CodeStep, CodeTypes
<1>9. ResultTyped(result', operands', DOMAIN blocks')
  <2>1. Operand(n).is = "operand" /\ Operand(n) \in [is : {"operand"}, of : 1..n]
    BY <1>2 DEF Operand
  <2>2. QED BY <1>1, <1>6, <2>1 DEF ResultTyped, ValueIn
<1>10. TypesInv'
  BY <1>1, <1>9, TypesNext
<1>11. QED BY <1>7, <1>8, <1>10

-----------------------------------------------------------------------------
(* Blocks that are made, and merged *)

LEMMA ListAppended ==
  ASSUME NEW code, IsStack(code), NEW E, NEW n, NEW D, ListTyped(code, E, n, D),
         NEW ins, Typed(ins, E, n, D)
  PROVE  ListTyped(Append(code, ins), E, n, D)
<1>1. /\ DOMAIN Append(code, ins) = 1..(Len(code) + 1)
      /\ DOMAIN code = 1..Len(code) /\ Len(code) \in Nat
      /\ \A i \in DOMAIN code : Append(code, ins)[i] = code[i]
      /\ Append(code, ins)[Len(code) + 1] = ins
  BY Pushed, StackFacts
<1>2. \A i \in DOMAIN Append(code, ins) : i \in DOMAIN code \/ i = Len(code) + 1
  BY <1>1
<1>3. QED BY <1>1, <1>2 DEF ListTyped

LEMMA ListWider ==
  ASSUME NEW code, NEW E, NEW n \in Nat, NEW D, NEW F, D \subseteq F, ListTyped(code, E, n, D)
  PROVE  ListTyped(code, E, n, F)
<1>1. n <= n
  OBVIOUS
<1>2. QED BY <1>1, TypedWider DEF ListTyped

\* A condition v is branched on.
Forks(bs, at, v, a, e, m, x, y, code, new) ==
  /\ IsModule(bs) /\ at \in DOMAIN bs /\ ~Ends(bs[at].code)
  /\ AreNext(bs, a, e, m) /\ x \in {a, e} /\ y \in {a, e}
  /\ code = <<>> \/ code = <<Br(m)>>
  /\ IsForked(bs, at, CondBr(v, x, y), code, new)

LEMMA ForkChanges ==
  ASSUME NEW bs, NEW at, NEW v, NEW a, NEW e, NEW m, NEW x, NEW y, NEW code, NEW new,
         Forks(bs, at, v, a, e, m, x, y, code, new),
         NEW E, NEW n \in Nat, CodeTyped(bs, E, n), ValueIn(v, n, DOMAIN bs)
  PROVE  /\ Changes(bs, new, {a, e}) /\ CodeTyped(new, E, n) /\ a \in DOMAIN new
         /\ new[a].code = <<>> /\ DOMAIN bs \subseteq DOMAIN new
<1>0. /\ IsModule(bs) /\ at \in DOMAIN bs /\ ~Ends(bs[at].code)
      /\ AreNext(bs, a, e, m) /\ x \in {a, e} /\ y \in {a, e}
      /\ code = <<>> \/ code = <<Br(m)>>
      /\ IsForked(bs, at, CondBr(v, x, y), code, new)
  BY DEF Forks
<1> DEFINE ins == CondBr(v, x, y)
           ended == Emit(bs, at, ins)
<1>1. IsCode(code)
  BY <1>0, EmptyCode, BranchCode
<1>2. new = ended \o <<NewBlock(TRUE), [code |-> code, placed |-> TRUE], NewBlock(FALSE)>>
  BY <1>0 DEF IsForked
<1>3. /\ IsModule(ended) /\ Changes(bs, ended, {}) /\ DOMAIN ended = DOMAIN bs
      /\ Len(ended) = Len(bs) /\ \A c \in DOMAIN bs : c # at => ended[c] = bs[c]
      /\ ended[at].code = Append(bs[at].code, ins)
  <2> HIDE DEF ins
  <2>1. ended = Emit(bs, at, ins)
    OBVIOUS
  <2> HIDE DEF ended
  <2>2. QED BY <1>0, <2>1, EmitChanges, Emitted
<1> HIDE DEF ended
<1>4. IsExtension(ended, code, a, e, m, new)
  BY <1>0, <1>1, <1>2, <1>3, Extended DEF AreNext
<1>5. Changes(ended, new, {a, e})
  BY <1>4, ExtensionChanges
<1>6. Changes(bs, new, {a, e})
  BY <1>3, <1>5, ChangesOn
<1> DEFINE D == DOMAIN new
<1>7. /\ D = DOMAIN bs \cup {a, e, m} /\ DOMAIN bs \subseteq D
      /\ \A b \in DOMAIN bs : new[b] = ended[b]
      /\ new[a].code = <<>> /\ new[e].code = code /\ new[m].code = <<>>
  BY <1>3, <1>4 DEF IsExtension
<1> HIDE DEF D
<1>8. ValueIn(v, n, D)
  <2>1. n <= n
    OBVIOUS
  <2>2. QED BY <1>7, <2>1, ValueWider
<1>9. Typed(ins, E, n, D)
  BY <1>0, <1>7, <1>8, InstructionsTyped
<1>10. Typed(Br(m), E, n, D)
  BY <1>7, InstructionsTyped
<1> HIDE DEF ins
<1>11. ListTyped(<<>>, E, n, D) /\ ListTyped(code, E, n, D)
  <2>1. ListTyped(<<>>, E, n, D)
    BY DEF ListTyped
  <2>2. <<Br(m)>>[1] = Br(m) /\ DOMAIN <<Br(m)>> = {1}
    OBVIOUS
  <2>3. ListTyped(<<Br(m)>>, E, n, D)
    BY <1>10, <2>2 DEF ListTyped
  <2>4. QED BY <1>0, <2>1, <2>3
<1>12. ASSUME NEW b \in DOMAIN bs
       PROVE  ListTyped(new[b].code, E, n, D)
  <2>1. ListTyped(bs[b].code, E, n, DOMAIN bs) /\ IsStack(bs[b].code)
    BY <1>0, ModuleFacts DEF CodeTyped, IsStack, IsCode
  <2>2. ListTyped(bs[b].code, E, n, D)
    BY <1>7, <2>1, ListWider
  <2>3. CASE b = at
    <3>1. ListTyped(Append(bs[at].code, ins), E, n, D)
      BY <1>9, <2>1, <2>2, <2>3, ListAppended
    <3>2. QED BY <1>3, <1>7, <2>3, <3>1
  <2>4. CASE b # at
    BY <1>3, <1>7, <2>2, <2>4
  <2>5. QED BY <2>3, <2>4
<1>13. \A b \in D : ListTyped(new[b].code, E, n, D)
  BY <1>7, <1>11, <1>12
<1>14. QED BY <1>6, <1>7, <1>13 DEF CodeTyped, D

LEMMA SideChanges ==
  ASSUME NEW bs, IsModule(bs), NEW at \in DOMAIN bs, NEW E, NEW n, CodeTyped(bs, E, n),
         NEW m \in DOMAIN bs, NEW new, SideEnds(bs, at, m, new)
  PROVE  /\ IsModule(new) /\ Changes(bs, new, {}) /\ CodeTyped(new, E, n)
         /\ DOMAIN new = DOMAIN bs /\ \A c \in DOMAIN bs : c # at => new[c] = bs[c]
<1>1. CASE Ends(bs[at].code)
  BY <1>1, SameChanges DEF SideEnds
<1>2. CASE ~Ends(bs[at].code)
  <2>1. Typed(Br(m), E, n, DOMAIN bs) /\ new = Emit(bs, at, Br(m))
    BY <1>2, InstructionsTyped DEF SideEnds
  <2>2. QED BY <1>2, <2>1, EmitChanges
<1>3. QED BY <1>1, <1>2

\* Instruction ins may be emitted in block b.
Emits(bs, b, ins, new) ==
  IsModule(bs) /\ b \in DOMAIN bs /\ ~Ends(bs[b].code) /\ new = Emit(bs, b, ins)

LEMMA EmitTyped ==
  ASSUME NEW bs, NEW b, NEW ins, NEW new, Emits(bs, b, ins, new),
         NEW E, NEW n, CodeTyped(bs, E, n), Typed(ins, E, n, DOMAIN bs)
  PROVE  /\ IsModule(new) /\ DOMAIN new = DOMAIN bs /\ CodeTyped(new, E, n)
         /\ \A c \in DOMAIN bs : c # b => new[c] = bs[c]
BY EmitChanges DEF Emits

LEMMA EmitAlso ==
  ASSUME NEW bs, NEW b, NEW ins, NEW new, Emits(bs, b, ins, new),
         NEW first, NEW N, Changes(first, bs, N)
  PROVE  Changes(first, new, N)
<1>1. Changes(bs, new, {})
  BY EmitChanges DEF Emits
<1>2. Changes(first, new, N \cup {})
  BY <1>1, ChangesOn
<1>3. N \cup {} = N
  OBVIOUS
<1>4. QED BY <1>2, <1>3

LEMMA EmitOthers ==
  ASSUME NEW bs, NEW b, NEW ins, NEW new, Emits(bs, b, ins, new), NEW c \in DOMAIN bs, c # b
  PROVE  new[c] = bs[c]
BY Emitted DEF Emits

\* Both sides branch to m, and a phi is emitted there.
Merging(bs, at, s, m, ended, both, put, ins, new) ==
  /\ Emits(bs, at, Br(m), ended) /\ (both = ended \/ Emits(ended, s, Br(m), both))
  /\ put = Place(both, m) /\ m \in DOMAIN bs /\ s \in DOMAIN bs
  /\ bs[m].code = <<>> /\ at # m /\ s # m
  /\ new = Emit(put, m, ins)

LEMMA MergingChanges ==
  ASSUME NEW bs, NEW at, NEW s, NEW m, NEW ended, NEW both, NEW put, NEW ins, NEW new,
         Merging(bs, at, s, m, ended, both, put, ins, new),
         NEW E, NEW n, CodeTyped(bs, E, n), Typed(ins, E, n, DOMAIN bs)
  PROVE  Changes(bs, new, {m}) /\ CodeTyped(new, E, n) /\ DOMAIN new = DOMAIN bs
<1>1. /\ Emits(bs, at, Br(m), ended) /\ (both = ended \/ Emits(ended, s, Br(m), both))
      /\ put = Place(both, m) /\ m \in DOMAIN bs /\ s \in DOMAIN bs
      /\ bs[m].code = <<>> /\ at # m /\ s # m
      /\ new = Emit(put, m, ins)
  BY DEF Merging
<1>2. Typed(Br(m), E, n, DOMAIN bs)
  BY <1>1, InstructionsTyped
<1>3. IsModule(ended) /\ DOMAIN ended = DOMAIN bs /\ CodeTyped(ended, E, n)
  BY <1>1, <1>2, EmitTyped
<1>4. ended[m] = bs[m]
  BY <1>1, EmitOthers
<1>5. Changes(bs, ended, {})
  BY <1>1, SameChanges, EmitAlso
<1>6. /\ IsModule(both) /\ DOMAIN both = DOMAIN bs /\ CodeTyped(both, E, n)
      /\ Changes(bs, both, {}) /\ both[m] = bs[m]
  <2>1. CASE both = ended
    BY <1>3, <1>4, <1>5, <2>1
  <2>2. CASE Emits(ended, s, Br(m), both)
    <3>1. Typed(Br(m), E, n, DOMAIN ended) /\ m \in DOMAIN ended /\ m # s
      BY <1>1, <1>2, <1>3
    <3>2. IsModule(both) /\ DOMAIN both = DOMAIN ended /\ CodeTyped(both, E, n)
      BY <1>3, <2>2, <3>1, EmitTyped
    <3>3. both[m] = ended[m]
      BY <2>2, <3>1, EmitOthers
    <3>4. Changes(bs, both, {})
      BY <1>5, <2>2, EmitAlso
    <3>5. QED BY <1>3, <1>4, <3>2, <3>3, <3>4
  <2>3. QED BY <1>1, <2>1, <2>2
<1>7. m \in DOMAIN both
  BY <1>1, <1>6
<1>8. IsModule(put) /\ DOMAIN put = DOMAIN both /\ put[m].code = both[m].code
  BY <1>1, <1>6, <1>7, PlaceChanges
<1>9. CodeTyped(put, E, n)
  BY <1>1, <1>6, <1>7, PlaceChanges
<1>10. Changes(bs, put, {m})
  <2>1. Changes(both, put, {m})
    BY <1>1, <1>6, <1>7, PlaceChanges
  <2>2. Changes(bs, put, {} \cup {m})
    BY <1>6, <2>1, ChangesOn
  <2>3. {} \cup {m} = {m}
    OBVIOUS
  <2>4. QED BY <2>2, <2>3
<1>11. ~Ends(put[m].code) /\ Typed(ins, E, n, DOMAIN put)
  BY <1>1, <1>6, <1>8, EmptyCode
<1>12. Emits(put, m, ins, new)
  BY <1>1, <1>7, <1>8, <1>11 DEF Emits
<1>13. DOMAIN new = DOMAIN put /\ CodeTyped(new, E, n)
  BY <1>9, <1>11, <1>12, EmitTyped
<1>14. Changes(bs, new, {m})
  BY <1>10, <1>12, EmitAlso
<1>15. QED BY <1>6, <1>8, <1>13, <1>14

\* Both sides may branch to f's merge block.
MayMerge(bs, at, f) ==
  /\ IsModule(bs) /\ at \in DOMAIN bs /\ ~Ends(bs[at].code)
  /\ f.merge \in DOMAIN bs /\ f.short \in DOMAIN bs
  /\ bs[f.merge].code = <<>> /\ (f.function # "LowerLogicalOr rhs" => bs[f.short].code = <<>>)
  /\ at # f.merge /\ at # f.short /\ f.merge # f.short

LEMMA MergedChanges ==
  ASSUME NEW bs, NEW at, NEW f, MayMerge(bs, at, f), NEW E, NEW n, CodeTyped(bs, E, n),
         NEW ins, Typed(ins, E, n, DOMAIN bs), NEW new, IsMerged(bs, at, f, ins, new)
  PROVE  Changes(bs, new, {f.merge}) /\ CodeTyped(new, E, n) /\ DOMAIN new = DOMAIN bs
<1>0. /\ IsModule(bs) /\ at \in DOMAIN bs /\ ~Ends(bs[at].code)
      /\ f.merge \in DOMAIN bs /\ f.short \in DOMAIN bs
      /\ bs[f.merge].code = <<>> /\ (f.function # "LowerLogicalOr rhs" => bs[f.short].code = <<>>)
      /\ at # f.merge /\ at # f.short /\ f.merge # f.short
  BY DEF MayMerge
<1> DEFINE m == f.merge
           s == f.short
           ended == Emit(bs, at, Br(m))
           both == IF f.function = "LowerLogicalOr rhs" THEN ended ELSE Emit(ended, s, Br(m))
           put == Place(both, m)
<1>1. /\ new = Emit(put, m, ins) /\ put = Place(both, m)
      /\ m \in DOMAIN bs /\ s \in DOMAIN bs /\ bs[m].code = <<>>
      /\ at # m /\ at # s /\ s # m
  BY <1>0 DEF IsMerged
<1>2. /\ f.function = "LowerLogicalOr rhs" => both = ended
      /\ f.function # "LowerLogicalOr rhs" =>
           both = Emit(ended, s, Br(m)) /\ bs[s].code = <<>>
  BY <1>0
<1>3. Emits(bs, at, Br(m), ended)
  BY <1>0 DEF Emits
<1> HIDE DEF ended, both, put, m, s
<1>4. ended[s] = bs[s] /\ IsModule(ended) /\ DOMAIN ended = DOMAIN bs
  <2>0. \A c \in DOMAIN bs : c # at => ended[c] = bs[c]
    BY <1>3, Emitted DEF Emits
  <2>1. ended[s] = bs[s]
    BY <1>1, <2>0
  <2>2. IsModule(ended) /\ DOMAIN ended = DOMAIN bs
    BY <1>3, Emitted DEF Emits
  <2>3. QED BY <2>1, <2>2
<1>5. both = ended \/ Emits(ended, s, Br(m), both)
  BY <1>1, <1>2, <1>4, EmptyCode DEF Emits
<1>6. Merging(bs, at, s, m, ended, both, put, ins, new)
  BY <1>1, <1>3, <1>5 DEF Merging
<1>7. Changes(bs, new, {m}) /\ CodeTyped(new, E, n) /\ DOMAIN new = DOMAIN bs
  BY <1>6, MergingChanges
<1>8. QED BY <1>7 DEF m

\* Some run gets to block b, which the step has put into the function.
GotTo(b) ==
  /\ calls # <<>>
  /\ \/ b = insert /\ path # {}
     \/ \E k \in Holders(calls) : /\ calls[k].function # "LowerIf else"
                                  /\ b = Side(calls[k]) /\ Waits(calls[k]) # {}

LEMMA BothDepend ==
  ASSUME NEW n \in Nat, NEW R, NEW T, Depends(R, n), Depends(T, n), BothWays(R, T)
  PROVE  /\ Depends(R \cap T, n) /\ Depends(R \ T, n) /\ R \cap T # {} /\ R \ T # {}
BY DependsOn DEF BothWays

\* A condition is lowered.
LEMMA ForkStep ==
  ASSUME CInv, calls # <<>>, ~result.none,
         Last(calls).function \in {"LowerIf", "LowerLogicalAnd", "LowerLogicalOr"},
         NEW a, NEW e, NEW m, NEW x, NEW y, NEW code,
         Forks(blocks, insert, result.value, a, e, m, x, y, code, blocks'),
         NEW h, OnlyTop(calls, calls', h), h \in Holders(calls'), calls' # <<>>,
         FrameRuns(calls'[h], operands), Side(calls'[h]) = e, Waits(calls'[h]) # {},
         calls'[h].function # "LowerIf else",
         path' = path \cap result.truth \/ path' = path \ result.truth,
         insert' = a, result' = NoResult, UNCHANGED <<statements, expected, operands, declared>>
  PROVE  Occupied' /\ TypesInv' /\ CodeStep({a, e}) /\ \A b \in {a, e} : GotTo(b)'
<1>2. Depends(path', operands) /\ path' # {}
  <2>1. /\ Depends(path, operands) /\ Depends(result.truth, operands)
        /\ BothWays(path, result.truth) /\ operands \in Nat
    BY CFacts DEF PathRuns
  <2>2. /\ Depends(path \cap result.truth, operands) /\ Depends(path \ result.truth, operands)
        /\ path \cap result.truth # {} /\ path \ result.truth # {}
    BY <2>1, BothDepend
  <2>3. QED BY <2>2
<1>3. FramesRun(calls', operands)
  BY CFacts, FramesButTop
<1>4. result'.none
  BY NoResultTyped
<1>5. Occupied'
  BY <1>2, <1>3, <1>4 DEF Occupied, PathRuns
<1>6. ValueIn(result.value, operands, DOMAIN blocks)
  BY CFacts DEF ResultTyped
<1>7. Changes(blocks, blocks', {a, e}) /\ CodeTyped(blocks', DOMAIN expected, operands)
  <2>1. /\ IsModule(blocks) /\ insert \in DOMAIN blocks /\ operands \in Nat
        /\ CodeTyped(blocks, DOMAIN expected, operands)
    BY CFacts
  <2>2. QED BY <1>6, <2>1, ForkChanges
<1>8. CodeStep({a, e})
  BY <1>7 DEF CodeStep, CodeTypes
<1>9. TypesInv'
  <2>1. ResultTyped(result', operands', DOMAIN blocks')
    BY NoResultTyped
  <2>2. QED BY <2>1, TypesNext
<1>10. GotTo(a)'
  BY <1>2 DEF GotTo
<1>11. GotTo(e)'
  BY DEF GotTo
<1>12. QED BY <1>5, <1>8, <1>9, <1>10, <1>11

LEMMA ThenStep ==
  CInv /\ LowerThen =>
    Occupied' /\ TypesInv' /\ \E N : CodeStep(N) /\ \A b \in N : GotTo(b)'
<1> SUFFICES ASSUME CInv, LowerThen
             PROVE  Occupied' /\ TypesInv' /\ \E N : CodeStep(N) /\ \A b \in N : GotTo(b)'
  OBVIOUS
<1> DEFINE a == Len(blocks) + 1
           e == Len(blocks) + 2
           m == Len(blocks) + 3
           h == Len(calls)
           f == [function |-> "LowerIf then", else |-> e, merge |-> m,
                 elsePath |-> path \ result.truth]
           g == [function |-> "LowerStatements"]
           mid == Append(Front(calls), f)
<1>1. /\ calls # <<>> /\ Last(calls).function = "LowerIf" /\ ~result.none
      /\ blocks' = Emit(blocks, insert, CondBr(result.value, a, e))
                     \o <<NewBlock(TRUE), NewBlock(TRUE), NewBlock(FALSE)>>
      /\ insert' = a /\ calls' = Front(calls) \o <<f, g>> /\ path' = path \cap result.truth
      /\ result' = NoResult /\ UNCHANGED <<statements, expected, operands, declared>>
  BY DEF LowerThen, Returned, Lowering
<1>2. AreNext(blocks, a, e, m)
  BY DEF AreNext
<1> HIDE DEF a, e, m
<1>3. IsForked(blocks, insert, CondBr(result.value, a, e), <<>>, blocks')
  BY <1>1 DEF IsForked, NewBlock
<1>4. IsReplaced(calls, f, mid)
  BY DEF IsReplaced
<1>5. IsPushed(mid, g, calls')
  <2>1. IsStack(Front(calls))
    BY <1>1, CFacts, Popped DEF StackInv
  <2> HIDE DEF f, g
  <2>2. QED BY <1>1, <2>1, Concatenated DEF IsPushed
<1>6. /\ f.function = "LowerIf then" /\ g.function = "LowerStatements"
      /\ Waits(f) = path \ result.truth /\ Side(f) = e
  BY DEF Side, Waits
<1> HIDE DEF f, g, mid
<1>7. /\ f.function \in HoldingFunctions /\ g.function \notin HoldingFunctions
      /\ f.function # "LowerIf else" /\ f.function \notin RhsFunctions
  BY <1>6 DEF HoldingFunctions, RhsFunctions
<1>8. OnlyTop(calls, mid, h) /\ h \in Holders(mid) /\ mid[h] = f /\ IsStack(mid)
  BY <1>1, <1>4, <1>7, CFacts, TopReplaced
<1>9. OnlyTop(calls, calls', h) /\ h \in Holders(calls') /\ calls'[h] = f
  <2> HIDE DEF h
  <2>1. OnlyTop(calls, calls', h) /\ h \in Holders(calls') /\ calls'[h] = mid[h]
    <3>1. /\ OnlyTop(calls, mid, h) /\ h \in Holders(mid) /\ IsStack(mid)
          /\ g.function \notin HoldingFunctions /\ IsPushed(mid, g, calls')
      BY <1>5, <1>7, <1>8
    <3>2. QED BY <3>1, TopPushed
  <2>2. QED BY <1>8, <2>1
<1>10. calls' # <<>>
  BY <1>9 DEF Holders
<1>11. Waits(f) # {} /\ FrameRuns(f, operands)
  <2>1. Depends(path \ result.truth, operands) /\ path \ result.truth # {}
    BY <1>1, CFacts, BothDepend DEF PathRuns
  <2>2. QED BY <1>6, <1>7, <2>1 DEF FrameRuns
<1> HIDE DEF h
<1>12. /\ Last(calls).function \in {"LowerIf", "LowerLogicalAnd", "LowerLogicalOr"}
       /\ FrameRuns(calls'[h], operands) /\ Side(calls'[h]) = e /\ Waits(calls'[h]) # {}
       /\ calls'[h].function # "LowerIf else"
  BY <1>1, <1>6, <1>7, <1>9, <1>11
<1> DEFINE code == <<>>
<1>15. Forks(blocks, insert, result.value, a, e, m, a, e, code, blocks')
  BY <1>1, <1>2, <1>3, <1>12, CFacts, OnTop DEF Forks, StatementFunctions
<1> HIDE DEF code
<1>13. Occupied' /\ TypesInv' /\ CodeStep({a, e}) /\ \A b \in {a, e} : GotTo(b)'
  BY <1>1, <1>9, <1>10, <1>12, <1>15, ForkStep
<1>14. QED BY <1>13

LEMMA RhsStep ==
  CInv /\ LowerRhs =>
    Occupied' /\ TypesInv' /\ \E N : CodeStep(N) /\ \A b \in N : GotTo(b)'
<1> SUFFICES ASSUME CInv, LowerRhs
             PROVE  Occupied' /\ TypesInv' /\ \E N : CodeStep(N) /\ \A b \in N : GotTo(b)'
  OBVIOUS
<1> DEFINE and == Last(calls).function = "LowerLogicalAnd"
           to == ShortCircuit(and)
           a == Rhs
           e == Short
           m == Merge
           h == Len(calls)
           f == [function |-> IF and THEN "LowerLogicalAnd rhs" ELSE "LowerLogicalOr rhs",
                 rhs |-> Rhs, short |-> Short, merge |-> Merge,
                 path |-> path, truth |-> result.truth]
           code == IF and THEN <<>> ELSE <<Br(Merge)>>
           x == to[1]
           y == to[2]
<1>1. /\ calls # <<>> /\ Last(calls).function \in {"LowerLogicalAnd", "LowerLogicalOr"}
      /\ ~result.none
      /\ blocks' = Emit(blocks, insert, CondBr(result.value, x, y)) \o
           <<NewBlock(TRUE),
             IF and THEN NewBlock(TRUE) ELSE [NewBlock(TRUE) EXCEPT !.code = <<Br(Merge)>>],
             NewBlock(FALSE)>>
      /\ insert' = a /\ calls' = Append(Front(calls), f) /\ result' = NoResult
      /\ path' = path \cap result.truth \/ path' = path \ result.truth
      /\ UNCHANGED <<statements, expected, operands, declared>>
  BY DEF LowerRhs, Returned, Lowering
<1>2. AreNext(blocks, a, e, m)
  BY DEF AreNext, Rhs, Short, Merge
<1>3. x \in {a, e} /\ y \in {a, e}
  BY DEF ShortCircuit
<1>4. IsForked(blocks, insert, CondBr(result.value, x, y), code, blocks')
  <2> DEFINE second == IF and THEN NewBlock(TRUE)
                       ELSE [NewBlock(TRUE) EXCEPT !.code = <<Br(Merge)>>]
             ended == Emit(blocks, insert, CondBr(result.value, x, y))
  <2>1. second = [code |-> code, placed |-> TRUE]
    BY DEF NewBlock
  <2>2. blocks' = ended \o <<NewBlock(TRUE), second, NewBlock(FALSE)>>
    BY <1>1
  <2> HIDE DEF second, and, code, x, y
  <2>3. QED BY <2>1, <2>2 DEF IsForked
<1>5. IsReplaced(calls, f, calls')
  BY <1>1 DEF IsReplaced
<1>6. /\ f.function = IF and THEN "LowerLogicalAnd rhs" ELSE "LowerLogicalOr rhs"
      /\ f.merge = m /\ f.short = e /\ f.path = path /\ f.truth = result.truth
  OBVIOUS
<1>7. code = <<>> \/ code = <<Br(m)>>
  OBVIOUS
<1> HIDE DEF f, to, a, e, m, x, y, code
<1>8. /\ f.function = "LowerLogicalAnd rhs" \/ f.function = "LowerLogicalOr rhs"
      /\ f.function \in HoldingFunctions /\ f.function \in RhsFunctions
      /\ f.function # "LowerIf then" /\ f.function # "LowerIf else"
  BY <1>6 DEF HoldingFunctions, RhsFunctions
<1> HIDE DEF and
<1>9. OnlyTop(calls, calls', h) /\ h \in Holders(calls') /\ calls'[h] = f
  <2>1. StackInv(blocks, insert, calls) /\ calls # <<>> /\ f.function \in HoldingFunctions
    BY <1>1, <1>8, CFacts
  <2>2. QED BY <1>5, <2>1, TopReplaced
<1>10. calls' # <<>>
  BY <1>9 DEF Holders
<1>11. Side(f) = e
  BY <1>6, <1>8 DEF Side
<1>12. /\ Depends(path, operands) /\ Depends(result.truth, operands)
       /\ BothWays(path, result.truth)
  BY <1>1, CFacts DEF PathRuns
<1>13. Depends(Waits(f), operands) /\ Waits(f) # {}
  <2>1. Waits(f) = path \ result.truth \/ Waits(f) = path \cap result.truth
    BY <1>6, <1>8 DEF Waits
  <2>2. operands \in Nat
    BY CFacts
  <2>3. /\ Depends(path \cap result.truth, operands) /\ Depends(path \ result.truth, operands)
        /\ path \cap result.truth # {} /\ path \ result.truth # {}
    BY <1>12, <2>2, BothDepend
  <2>4. QED BY <2>1, <2>3
<1>14. FrameRuns(f, operands)
  BY <1>6, <1>8, <1>12, <1>13 DEF FrameRuns
<1> HIDE DEF h
<1>15. /\ Last(calls).function \in {"LowerIf", "LowerLogicalAnd", "LowerLogicalOr"}
       /\ FrameRuns(calls'[h], operands) /\ Side(calls'[h]) = e /\ Waits(calls'[h]) # {}
       /\ calls'[h].function # "LowerIf else" /\ insert' = a
       /\ OnlyTop(calls, calls', h) /\ h \in Holders(calls')
  BY <1>1, <1>8, <1>9, <1>11, <1>13, <1>14
<1>18. Forks(blocks, insert, result.value, a, e, m, x, y, code, blocks')
  <2>1. ~Ends(blocks[insert].code) /\ IsModule(blocks) /\ insert \in DOMAIN blocks
    BY <1>1, CFacts, OnTop DEF StatementFunctions
  <2>2. QED BY <1>2, <1>3, <1>4, <1>7, <2>1 DEF Forks
<1>16. Occupied' /\ TypesInv' /\ CodeStep({a, e}) /\ \A b \in {a, e} : GotTo(b)'
  BY <1>1, <1>10, <1>15, <1>18, ForkStep
<1>17. QED BY <1>16

LEMMA HeldMerge ==
  ASSUME CInv, NEW k \in Holders(calls)
  PROVE  HolderInv(blocks, calls[k]) /\ calls[k].merge \in DOMAIN blocks
<1>1. ModuleInv(blocks, insert, calls, declared)
  BY CFacts
<1>2. HolderInv(blocks, calls[k])
  BY <1>1 DEF ModuleInv, HoldersInv
<1>3. QED BY <1>2 DEF HolderInv, Held

LEMMA StillCalls ==
  ASSUME CInv, calls # <<>>, Last(calls).function # "LowerStatements", calls' = Front(calls)
  PROVE  calls' # <<>>
<1>1. Len(calls) > 1 /\ Len(calls) \in Nat
  BY CFacts, OnTop
<1>2. Len(Front(calls)) = Len(calls) - 1
  BY CFacts, Popped
<1>3. Len(<<>>) = 0
  OBVIOUS
<1>4. QED BY <1>1, <1>2, <1>3

LEMMA ElseStep == CInv /\ LowerElse => Occupied' /\ TypesInv' /\ CodeStep({})
<1> SUFFICES ASSUME CInv, LowerElse PROVE Occupied' /\ TypesInv' /\ CodeStep({})
  OBVIOUS
<1> DEFINE h == Len(calls)
           frame == Last(calls)
           f == [function |-> "LowerIf else", merge |-> frame.merge,
                 thenTerminated |-> IsCurrentBlockTerminated, thenPath |-> path]
           g(function) == [function |-> function]
           mid == Append(Front(calls), f)
<1>1. /\ calls # <<>> /\ frame.function = "LowerIf then"
      /\ blocks' = BranchTo(frame.merge) /\ insert' = frame.else /\ path' = frame.elsePath
      /\ UNCHANGED <<result, expected, operands, declared>>
      /\ statements' = statements \/ (statements < MaxStatements /\ statements' = statements + 1)
      /\ \/ calls' = Front(calls) \o <<f>>
         \/ \E function \in {"LowerStatements", "LowerIf"} :
              calls' = Front(calls) \o <<f, g(function)>>
  BY DEF LowerElse, Lowering
<1>2. result.none
  BY <1>1, CFacts DEF StatementFunctions
<1>3. h \in Holders(calls) /\ calls[h] = frame
  BY <1>1, CFacts, OnTop DEF HoldingFunctions
<1>4. SideEnds(blocks, insert, frame.merge, blocks')
  BY <1>1, CurrentBlock DEF BranchTo, SideEnds
<1>5. IsReplaced(calls, f, mid)
  BY DEF IsReplaced
<1>6. /\ f.function = "LowerIf else" /\ f.thenTerminated = IsCurrentBlockTerminated
      /\ f.thenPath = path
  OBVIOUS
<1>7. calls' = mid \/ \E function \in {"LowerStatements", "LowerIf"} :
                        IsPushed(mid, g(function), calls')
  <2>1. IsStack(Front(calls))
    BY <1>1, CFacts, Popped
  <2> HIDE DEF f, g
  <2>2. QED BY ZenonT(60), <1>1, <2>1, Concatenated DEF IsPushed
<1> HIDE DEF f, mid
<1>8. /\ f.function \in HoldingFunctions
      /\ f.function # "LowerIf then" /\ f.function \notin RhsFunctions
  BY <1>6 DEF HoldingFunctions, RhsFunctions
<1>9. OnlyTop(calls, mid, h) /\ h \in Holders(mid) /\ mid[h] = f /\ IsStack(mid)
  <2>1. StackInv(blocks, insert, calls) /\ calls # <<>> /\ f.function \in HoldingFunctions
    BY <1>1, <1>8, CFacts
  <2>2. QED BY <1>5, <2>1, TopReplaced
<1>10. ASSUME NEW function \in {"LowerStatements", "LowerIf"}, IsPushed(mid, g(function), calls')
       PROVE  OnlyTop(calls, calls', h) /\ h \in Holders(calls') /\ calls'[h] = mid[h]
  <2>1. g(function).function \notin HoldingFunctions
    BY DEF HoldingFunctions
  <2> HIDE DEF g
  <2>2. QED BY <1>9, <1>10, <2>1, TopPushed
<1>11. OnlyTop(calls, calls', h) /\ calls'[h] = f
  BY <1>7, <1>9, <1>10
<1>12. FrameRuns(f, operands)
  <2>1. Waits(f) = path
    BY <1>6 DEF Waits
  <2>2. ~f.thenTerminated => path # {}
    BY <1>1, <1>6, CurrentBlock, CFacts DEF PathRuns
  <2>3. Depends(path, operands)
    BY CFacts DEF PathRuns
  <2>4. QED BY <1>8, <2>1, <2>2, <2>3 DEF FrameRuns
<1>13. FramesRun(calls', operands)
  <2>1. FramesRun(calls, operands)
    BY CFacts
  <2>2. FrameRuns(calls'[h], operands)
    BY <1>11, <1>12
  <2> HIDE DEF h
  <2>3. QED BY <1>11, <2>1, <2>2, FramesButTop
<1>14. Depends(path', operands) /\ path' # {}
  <2>1. FrameRuns(frame, operands)
    BY <1>3, CFacts DEF FramesRun
  <2>2. Waits(frame) = frame.elsePath
    BY <1>1 DEF Waits
  <2>3. QED BY <1>1, <2>1, <2>2 DEF FrameRuns
<1>15. Occupied'
  BY <1>1, <1>2, <1>13, <1>14 DEF Occupied, PathRuns
<1>16. frame.merge \in DOMAIN blocks
  BY <1>3, HeldMerge
<1>17. Changes(blocks, blocks', {}) /\ CodeTyped(blocks', DOMAIN expected, operands)
       /\ DOMAIN blocks' = DOMAIN blocks
  <2>1. /\ IsModule(blocks) /\ insert \in DOMAIN blocks
        /\ CodeTyped(blocks, DOMAIN expected, operands)
    BY CFacts
  <2> HIDE DEF frame
  <2>2. QED BY <1>4, <1>16, <2>1, SideChanges
<1>18. CodeStep({})
  BY <1>1, <1>17 DEF CodeStep, CodeTypes
<1>19. TypesInv'
  BY <1>1, <1>17, CFacts, TypesNext
<1>20. QED BY <1>15, <1>18, <1>19

LEMMA MergeStep ==
  CInv /\ LowerMerge =>
    Occupied' /\ TypesInv' /\ \E N : CodeStep(N) /\ \A b \in N : GotTo(b)'
<1> SUFFICES ASSUME CInv, LowerMerge
             PROVE  /\ Occupied' /\ TypesInv'
                    /\ \E N : CodeStep(N) /\ \A b \in N : GotTo(b)'
  OBVIOUS
<1> DEFINE h == Len(calls)
           frame == Last(calls)
           ended == BranchTo(frame.merge)
<1>1. /\ calls # <<>> /\ frame.function = "LowerIf else" /\ path' = frame.thenPath \cup path
      /\ calls' = Front(calls)
      /\ UNCHANGED <<result, statements, expected, operands, declared>>
  BY DEF LowerMerge, Lowering, Return
<1>2. result.none
  BY <1>1, CFacts DEF StatementFunctions
<1>3. h \in Holders(calls) /\ calls[h] = frame
  BY <1>1, CFacts, OnTop DEF HoldingFunctions
<1>4. SideEnds(blocks, insert, frame.merge, ended)
  BY <1>1, CurrentBlock DEF BranchTo, SideEnds
<1>5. OnlyTop(calls, calls', h) /\ h \notin Holders(calls')
  BY <1>1, CFacts, TopPopped
<1>6. FramesRun(calls', operands)
  <2>1. FramesRun(calls, operands)
    BY CFacts
  <2> HIDE DEF h
  <2>2. QED BY <1>5, <2>1, FramesButTop
<1>7. Depends(frame.thenPath, operands) /\ (~frame.thenTerminated => frame.thenPath # {})
  <2>1. FrameRuns(frame, operands)
    BY <1>3, CFacts DEF FramesRun
  <2>2. Waits(frame) = frame.thenPath
    BY <1>1 DEF Waits
  <2>3. QED BY <1>1, <2>1, <2>2 DEF FrameRuns
<1>8. Depends(path', operands)
  <2>1. Depends(path, operands) /\ operands \in Nat
    BY CFacts DEF PathRuns
  <2>2. QED BY <1>1, <1>7, <2>1, DependsOn
<1>9. frame.merge \in DOMAIN blocks
  BY <1>3, HeldMerge
<1>10. /\ IsModule(ended) /\ Changes(blocks, ended, {}) /\ DOMAIN ended = DOMAIN blocks
       /\ CodeTyped(ended, DOMAIN expected, operands)
  <2>1. /\ IsModule(blocks) /\ insert \in DOMAIN blocks
        /\ CodeTyped(blocks, DOMAIN expected, operands)
    BY CFacts
  <2> HIDE DEF frame, ended
  <2>2. QED BY <1>4, <1>9, <2>1, SideChanges
<1>11. CASE Merges(frame.thenTerminated)
  <2>1. blocks' = Place(ended, frame.merge) /\ insert' = frame.merge
    BY <1>11 DEF LowerMerge
  <2>0. PICK m : m = frame.merge
    OBVIOUS
  <2>2. path' # {}
    <3>1. CASE frame.thenTerminated
      <4>1. ~Ends(blocks[insert].code)
        BY <1>11, <3>1, CurrentBlock DEF Merges
      <4>2. path # {}
        BY <1>1, <4>1, CFacts DEF PathRuns
      <4>3. QED BY <1>1, <4>2
    <3>2. CASE ~frame.thenTerminated
      BY <1>1, <1>7, <3>2
    <3>3. QED BY <3>1, <3>2
  <2>3. blocks' = Place(ended, m) /\ m \in DOMAIN ended /\ insert' = m
    BY <1>9, <1>10, <2>0, <2>1
  <2> HIDE DEF ended
  <2>4. /\ Changes(ended, blocks', {m}) /\ DOMAIN blocks' = DOMAIN ended
        /\ CodeTyped(blocks', DOMAIN expected, operands)
    BY <1>10, <2>3, PlaceChanges
  <2>5. Changes(blocks, blocks', {} \cup {m})
    BY <1>10, <2>4, ChangesOn
  <2>6. {} \cup {m} = {m}
    OBVIOUS
  <2>7. CodeStep({m})
    BY <1>1, <2>4, <2>5, <2>6 DEF CodeStep, CodeTypes
  <2>8. GotTo(m)'
    BY <1>1, <2>2, <2>3, StillCalls DEF GotTo
  <2>9. Occupied'
    BY <1>1, <1>2, <1>6, <1>8, <2>2 DEF Occupied, PathRuns
  <2>10. TypesInv'
    BY <1>1, <1>10, <2>4, CFacts, TypesNext
  <2>11. CodeStep({m}) /\ \A b \in {m} : GotTo(b)'
    BY <2>7, <2>8
  <2>12. QED BY <2>9, <2>10, <2>11
<1>12. CASE ~Merges(frame.thenTerminated)
  <2>1. blocks' = ended /\ insert' = insert
    BY <1>12 DEF LowerMerge
  <2>2. Ends(blocks[insert].code)
    BY <1>12, CurrentBlock DEF Merges
  <2>3. blocks' = blocks
    BY <1>4, <2>1, <2>2 DEF SideEnds
  <2> HIDE DEF ended, h, frame
  <2>4. Occupied'
    BY <1>1, <1>2, <1>6, <1>8, <2>1, <2>2, <2>3 DEF Occupied, PathRuns
  <2>5. TypesInv'
    BY <1>1, <2>3, CFacts, TypesNext
  <2>6. CodeStep({}) /\ \A b \in {} : GotTo(b)'
    BY <1>1, <1>10, <2>1 DEF CodeStep, CodeTypes
  <2>7. QED BY <2>4, <2>5, <2>6
<1>13. QED BY <1>11, <1>12

\* The runs that evaluate the right operand are those that are at its end.
LEMMA GoesIsPath ==
  ASSUME CInv, calls # <<>>, Last(calls).function \in RhsFunctions
  PROVE  path = Goes(Last(calls)) /\ FrameRuns(Last(calls), operands)
<1> DEFINE f == Last(calls)
           h == Len(calls)
<1>1. h \in Holders(calls) /\ calls[h] = f
  BY CFacts, OnTop DEF HoldingFunctions, RhsFunctions
<1>2. FrameRuns(f, operands)
  BY <1>1, CFacts DEF FramesRun
<1>3. Goes(f) \subseteq Runs /\ path \subseteq Runs
  <2>1. f.path \subseteq Runs
    BY <1>2 DEF FrameRuns, Depends
  <2>2. QED BY <2>1, CFacts DEF Goes
<1>4. \A k \in Holders(calls) : ~(k > h)
  <2>1. StackInv(blocks, insert, calls)
    BY CFacts
  <2>2. QED BY <2>1, Top
<1>5. ASSUME NEW run \in Runs
      PROVE  run \in Goes(f) <=> run \in path
  <2>1. PICK w : Situated(blocks, insert, calls, path, run, Last(w))
    BY Facts DEF CInv, Reaches
  <2> HIDE DEF h
  <2>2. run \in Goes(calls[h]) <=> run \in path
    BY <1>1, <1>4, <2>1 DEF Situated
  <2>3. QED BY <1>1, <2>2
<1>6. QED BY <1>2, <1>3, <1>5

\* What the phi of an operator is.
LEMMA PhiTyped ==
  ASSUME NEW f, NEW at, NEW value, NEW E, NEW n, NEW D, f.short \in D, at \in D,
         ValueIn(value, n, D)
  PROVE  Typed(PhiFor(f, at, value), E, n, D)
<1> DEFINE ins == PhiFor(f, at, value)
           short == Constant(ShortValue(f))
<1>1. /\ ins.op = "phi" /\ DOMAIN ins.incoming = {f.short, at}
      /\ \A b \in {f.short, at} : ins.incoming[b] = short \/ ins.incoming[b] = value
  BY DEF PhiFor, Phi
<1>2. ValueIn(short, n, D)
  <2>1. ShortValue(f) \in BOOLEAN
    BY DEF ShortValue
  <2>2. \A v \in BOOLEAN :
          Constant(v).is = "constant" /\ Constant(v) \in [is : {"constant"}, of : BOOLEAN]
    BY DEF Constant
  <2>3. QED BY <2>1, <2>2 DEF ValueIn
<1> HIDE DEF ins, short
<1>3. \A b \in DOMAIN ins.incoming : b \in D /\ ValueIn(ins.incoming[b], n, D)
  BY <1>1, <1>2
<1>4. Typed(ins, E, n, D)
  BY <1>1, <1>3 DEF Typed
<1>5. QED BY <1>4 DEF ins

LEMMA MergeLogicalStep ==
  ASSUME CInv, calls # <<>>, Last(calls).function \in RhsFunctions, ~result.none,
         NEW short, short = Constant(ShortValue(Last(calls))),
         MergeLogical(Last(calls), short),
         result' = Result(PhiOf(Last(calls).merge), TruthOf(Last(calls), result.truth))
  PROVE  Occupied' /\ TypesInv' /\ \E N : CodeStep(N) /\ \A b \in N : GotTo(b)'
<1>0. PICK f : f = Last(calls)
  OBVIOUS
<1>1. PICK m : m = f.merge
  OBVIOUS
<1>2. PICK ins : ins = PhiFor(f, insert, result.value)
  OBVIOUS
<1>3. PICK h : h = Len(calls)
  OBVIOUS
<1>4. f.function = "LowerLogicalAnd rhs" \/ f.function = "LowerLogicalOr rhs"
  BY <1>0 DEF RhsFunctions
<1>5. short = Constant(TRUE) <=> f.function = "LowerLogicalOr rhs"
  <2>1. Constant(TRUE) # Constant(FALSE)
    BY DEF Constant
  <2>2. CASE f.function = "LowerLogicalAnd rhs"
    <3>1. ShortValue(f) = FALSE
      BY <2>2 DEF ShortValue
    <3>2. QED BY <1>0, <2>1, <2>2, <3>1
  <2>3. CASE f.function = "LowerLogicalOr rhs"
    <3>1. ShortValue(f) = TRUE
      BY <2>3 DEF ShortValue
    <3>2. QED BY <1>0, <2>3, <3>1
  <2>4. QED BY <1>4, <2>2, <2>3
<1>6. /\ IsMerged(blocks, insert, f, ins, blocks')
      /\ insert' = m /\ calls' = Front(calls) /\ path' = f.path
      /\ UNCHANGED <<statements, expected, operands, declared>>
  <2>1. ins = Phi([b \in {f.short, RhsExit(f)} |-> IF b = f.short THEN short ELSE result.value])
    BY <1>0, <1>2 DEF PhiFor, RhsExit
  <2>2. QED BY <1>0, <1>1, <1>5, <2>1 DEF MergeLogical, IsMerged, Return
<1>7. h \in Holders(calls) /\ calls[h] = f /\ ~Ends(blocks[insert].code)
  <2>1. f.function \in HoldingFunctions /\ f.function \notin StatementFunctions
    BY <1>4 DEF HoldingFunctions, StatementFunctions
  <2>2. QED BY <1>0, <1>3, <2>1, CFacts, OnTop
<1>8. OnlyTop(calls, calls', h) /\ h \notin Holders(calls')
  <2>1. StackInv(blocks, insert, calls)
    BY CFacts
  <2>2. QED BY <1>3, <1>6, <2>1, TopPopped
<1>9. FramesRun(calls', operands)
  <2>1. FramesRun(calls, operands)
    BY CFacts
  <2>2. QED BY <1>8, <2>1, FramesButTop
<1>10. /\ path = Goes(f) /\ Depends(f.path, operands) /\ Depends(f.truth, operands)
       /\ BothWays(f.path, f.truth)
  BY <1>0, GoesIsPath DEF FrameRuns
<1>11. Depends(result.truth, operands) /\ BothWays(path, result.truth)
  BY CFacts DEF PathRuns
<1>12. result'.value = PhiOf(m) /\ result'.truth = TruthOf(f, result.truth) /\ ~result'.none
  BY <1>0, <1>1 DEF Result
<1>13. Depends(result'.truth, operands) /\ BothWays(f.path, result'.truth)
  <2>1. Depends(TruthOf(f, result.truth), operands)
    <3>1. operands \in Nat
      BY CFacts
    <3>2. /\ Depends(f.truth \cap result.truth, operands)
          /\ Depends(f.truth \cup result.truth, operands)
      BY <1>10, <1>11, <3>1, DependsOn
    <3>3. QED BY <3>2 DEF TruthOf
  <2>2. CASE f.function = "LowerLogicalAnd rhs"
    <3>1. path = f.path \cap f.truth /\ result'.truth = f.truth \cap result.truth
      BY <1>10, <1>12, <2>2 DEF Goes, TruthOf
    <3>2. BothWays(f.path, result'.truth)
      BY <1>10, <1>11, <3>1 DEF BothWays
    <3>3. QED BY <1>12, <2>1, <3>2
  <2>3. CASE f.function # "LowerLogicalAnd rhs"
    <3>1. path = f.path \ f.truth /\ result'.truth = f.truth \cup result.truth
      BY <1>10, <1>12, <2>3 DEF Goes, TruthOf
    <3>2. BothWays(f.path, result'.truth)
      BY <1>10, <1>11, <3>1 DEF BothWays
    <3>3. QED BY <1>12, <2>1, <3>2
  <2>4. QED BY <2>2, <2>3
<1>14. path' # {}
  BY <1>6, <1>10 DEF BothWays
<1>15. Occupied'
  BY <1>6, <1>9, <1>10, <1>13, <1>14 DEF Occupied, PathRuns
<1>16. /\ m \in DOMAIN blocks /\ f.short \in DOMAIN blocks /\ blocks[m].code = <<>>
       /\ f.function # "LowerLogicalOr rhs" => blocks[f.short].code = <<>>
       /\ insert # m /\ insert # f.short /\ m # f.short
  <2>1. /\ HolderInv(blocks, f) /\ insert \notin Held(f)
    <3>1. ModuleInv(blocks, insert, calls, declared)
      BY CFacts
    <3>2. QED BY <1>7, <3>1 DEF ModuleInv, HoldersInv
  <2>2. Held(f) = {m, f.short} /\ Side(f) = f.short
    BY <1>0, <1>1, RhsFacts
  <2>3. QED BY <1>1, <1>4, <2>1, <2>2 DEF HolderInv
<1>17. /\ IsModule(blocks) /\ insert \in DOMAIN blocks
       /\ CodeTyped(blocks, DOMAIN expected, operands)
       /\ ValueIn(result.value, operands, DOMAIN blocks)
  BY CFacts DEF ResultTyped
<1>18. Typed(ins, DOMAIN expected, operands, DOMAIN blocks)
  BY <1>2, <1>16, <1>17, PhiTyped
<1>19. /\ Changes(blocks, blocks', {m}) /\ CodeTyped(blocks', DOMAIN expected, operands)
       /\ DOMAIN blocks' = DOMAIN blocks
  <2>1. /\ Changes(blocks, blocks', {f.merge}) /\ CodeTyped(blocks', DOMAIN expected, operands)
        /\ DOMAIN blocks' = DOMAIN blocks
    <3>1. MayMerge(blocks, insert, f)
      BY <1>1, <1>7, <1>16, <1>17 DEF MayMerge
    <3>2. QED BY <1>6, <1>17, <1>18, <3>1, MergedChanges
  <2>2. QED BY <1>1, <2>1
<1>20. CodeStep({m})
  BY <1>6, <1>19 DEF CodeStep, CodeTypes
<1>21. \A b \in {m} : GotTo(b)'
  <2>1. calls' # <<>>
    BY <1>0, <1>4, <1>6, StillCalls
  <2>2. QED BY <1>6, <1>14, <2>1 DEF GotTo
<1>22. TypesInv'
  <2>1. PhiOf(m).is = "phi" /\ PhiOf(m) \in [is : {"phi"}, of : DOMAIN blocks']
    BY <1>16, <1>19 DEF PhiOf
  <2>2. ResultTyped(result', operands', DOMAIN blocks')
    BY <1>12, <2>1 DEF ResultTyped, ValueIn
  <2>3. QED BY <1>6, <2>2, TypesNext
<1>23. QED BY <1>15, <1>20, <1>21, <1>22

LEMMA LogicalStep ==
  CInv /\ (LowerLogicalAnd \/ LowerLogicalOr) =>
    Occupied' /\ TypesInv' /\ \E N : CodeStep(N) /\ \A b \in N : GotTo(b)'
<1>1. ASSUME CInv, LowerLogicalAnd
      PROVE  /\ Occupied' /\ TypesInv'
             /\ \E N : CodeStep(N) /\ \A b \in N : GotTo(b)'
  <2>1. /\ calls # <<>> /\ Last(calls).function = "LowerLogicalAnd rhs" /\ ~result.none
        /\ MergeLogical(Last(calls), Constant(FALSE))
        /\ result' = Result(PhiOf(Last(calls).merge), Last(calls).truth \cap result.truth)
    BY <1>1 DEF LowerLogicalAnd, Returned, Lowering
  <2>2. Last(calls).function \in RhsFunctions /\ ShortValue(Last(calls)) = FALSE
    BY <2>1 DEF RhsFunctions, ShortValue
  <2>3. TruthOf(Last(calls), result.truth) = Last(calls).truth \cap result.truth
    BY <2>1 DEF TruthOf
  <2>4. Constant(FALSE) = Constant(ShortValue(Last(calls)))
    BY <2>2
  <2>5. QED BY <1>1, <2>1, <2>2, <2>3, <2>4, MergeLogicalStep
<1>2. ASSUME CInv, LowerLogicalOr
      PROVE  /\ Occupied' /\ TypesInv'
             /\ \E N : CodeStep(N) /\ \A b \in N : GotTo(b)'
  <2>1. /\ calls # <<>> /\ Last(calls).function = "LowerLogicalOr rhs" /\ ~result.none
        /\ MergeLogical(Last(calls), Constant(TRUE))
        /\ result' = Result(PhiOf(Last(calls).merge), Last(calls).truth \cup result.truth)
    BY <1>2 DEF LowerLogicalOr, Returned, Lowering
  <2>2. Last(calls).function \in RhsFunctions /\ ShortValue(Last(calls)) = TRUE
    BY <2>1 DEF RhsFunctions, ShortValue
  <2>3. TruthOf(Last(calls), result.truth) = Last(calls).truth \cup result.truth
    BY <2>1 DEF TruthOf
  <2>4. Constant(TRUE) = Constant(ShortValue(Last(calls)))
    BY <2>2
  <2>5. QED BY <1>2, <2>1, <2>2, <2>3, <2>4, MergeLogicalStep
<1>3. QED BY <1>1, <1>2

LEMMA CoveredNext ==
  ASSUME CInv, SInv', Occupied', NEW N, CodeStep(N), \A b \in N : GotTo(b)'
  PROVE  CoveredInv'
<1>1. /\ IsModule(blocks') /\ ModuleInv(blocks', insert', calls', declared')
      /\ \A run \in Runs : \E t : HasRun(blocks', insert', calls', path', result', run, t)
  BY DEF SInv, RunInv, IInv, ModuleInv, CodeInv
<1>2. path' \subseteq Runs
  BY DEF Occupied, PathRuns, Depends
<1>3. ASSUME NEW run \in Runs
      PROVE  \E w : IsRun(blocks', run, w)
  BY <1>1 DEF HasRun, Follows
<1>4. ASSUME NEW b \in N
      PROVE  \E run \in Runs : Visits(blocks', run, b)
  <2>1. /\ calls' # <<>>
        /\ \/ b = insert' /\ path' # {}
           \/ \E k \in Holders(calls') : /\ calls'[k].function # "LowerIf else"
                                         /\ b = Side(calls'[k]) /\ Waits(calls'[k]) # {}
    BY DEF GotTo
  <2>2. CASE b = insert' /\ path' # {}
    <3>1. PICK run \in Runs : run \in path'
      BY <1>2, <2>2
    <3>2. PICK t : HasRun(blocks', insert', calls', path', result', run, t)
      BY <1>1
    <3>3. Visits(blocks', run, insert')
      BY <2>1, <3>1, <3>2, InsertVisited
    <3>4. QED BY <2>2, <3>3
  <2>3. CASE \E k \in Holders(calls') : /\ calls'[k].function # "LowerIf else"
                                        /\ b = Side(calls'[k]) /\ Waits(calls'[k]) # {}
    <3>1. PICK k \in Holders(calls') : /\ calls'[k].function # "LowerIf else"
                                       /\ b = Side(calls'[k]) /\ Waits(calls'[k]) # {}
      BY <2>3
    <3>2. Waits(calls'[k]) \subseteq Runs
      BY DEF Occupied, FramesRun, FrameRuns, Depends
    <3>3. PICK run \in Runs : run \in Waits(calls'[k])
      BY <3>1, <3>2
    <3>4. Side(calls'[k]) \in DOMAIN blocks'
      <4>1. HolderInv(blocks', calls'[k])
        BY <1>1 DEF ModuleInv, HoldersInv
      <4>2. QED BY <3>1, <4>1 DEF HolderInv, Held
    <3>5. PICK t : HasRun(blocks', insert', calls', path', result', run, t)
      BY <1>1
    <3>6. Visits(blocks', run, Side(calls'[k]))
      BY <1>1, <2>1, <3>1, <3>3, <3>4, <3>5, SideVisited
    <3>7. QED BY <3>1, <3>6
  <2>4. QED BY <2>1, <2>2, <2>3
<1>5. Covered(blocks')
  <2>1. Covered(blocks) /\ Changes(blocks, blocks', N)
    BY DEF CInv, CoveredInv, CodeStep
  <2>2. QED BY <1>3, <1>4, <2>1, CoveredStays
<1>6. 1 \in DOMAIN blocks' /\ blocks'[1].placed = TRUE
  BY DEF CInv, CoveredInv, CodeStep, Changes, Grows
<1>7. QED BY <1>5, <1>6 DEF CoveredInv

LEMMA InitCInv == Init => CInv
<1> SUFFICES ASSUME Init PROVE CInv
  OBVIOUS
<1>1. SInv
  BY InitIInv, InitRuns DEF SInv
<1>2. /\ blocks = <<NewBlock(TRUE)>> /\ insert = 1 /\ result = NoResult
      /\ calls = <<[function |-> "LowerStatements"]>>
      /\ statements = 0 /\ expected = <<>> /\ path = Runs /\ operands = 0 /\ declared \in BOOLEAN
  BY DEF Init
<1>3. Runs # {}
  <2>1. [i \in 1..MaxOperands |-> TRUE] \in Runs
    BY DEF Runs
  <2>2. QED BY <2>1
<1>4. Occupied
  <2>1. Holders(calls) = {}
    <3>1. PICK f : calls = <<f>> /\ f.function = "LowerStatements"
      BY <1>2
    <3>2. DOMAIN calls = {1} /\ calls[1] = f
      BY <3>1
    <3>3. QED BY <3>1, <3>2 DEF Holders, HoldingFunctions
  <2>2. FramesRun(calls, operands)
    BY <2>1 DEF FramesRun
  <2>3. Depends(path, operands)
    BY <1>2, DependsOnAll
  <2>4. QED BY <1>2, <1>3, <2>2, <2>3, NoResultTyped DEF Occupied, PathRuns
<1>5. DOMAIN blocks = {1} /\ blocks[1].code = <<>> /\ blocks[1].placed = TRUE
  BY <1>2 DEF NewBlock
<1>6. CodeTypes
  BY <1>5 DEF CodeTypes, CodeTyped, ListTyped
<1>7. TypesInv
  <2>1. IsStack(expected)
    BY <1>1 DEF SInv, RunInv
  <2>2. EventsTyped(expected)
    BY <1>2, <2>1 DEF EventsTyped
  <2>3. statements \in 0..MaxStatements /\ operands \in 0..MaxOperands
    BY <1>2, BodyAssumption
  <2>4. ResultTyped(result, operands, DOMAIN blocks)
    BY <1>2, NoResultTyped
  <2>5. QED BY <1>2, <2>2, <2>3, <2>4 DEF TypesInv
<1>8. CoveredInv
  <2>1. PICK run : run \in Runs
    BY <1>3
  <2>2. PICK w : IsRun(blocks, run, w)
    BY <1>1, <2>1 DEF SInv, RunInv, HasRun, Follows
  <2>3. 1 \in DOMAIN w /\ w[1].block = 1
    <3>1. IsPath(blocks, run, w)
      BY <2>2 DEF IsRun
    <3>2. DOMAIN w = 1..Len(w) /\ Len(w) \in Nat /\ Len(w) > 0
      BY <3>1, PathFacts
    <3>3. 1 \in DOMAIN w
      BY <3>2
    <3>4. w[1].block = 1
      BY <3>1 DEF IsPath, Beginning
    <3>5. QED BY <3>3, <3>4
  <2>4. Visits(blocks, run, 1)
    BY <2>2, <2>3 DEF Visits
  <2>5. QED BY <1>5, <2>1, <2>4 DEF CoveredInv, Covered
<1>9. QED BY <1>1, <1>4, <1>6, <1>7, <1>8 DEF CInv

LEMMA NextCovers == CInv /\ [Next]_vars => CInv'
<1> SUFFICES ASSUME CInv, [Next]_vars PROVE CInv'
  OBVIOUS
<1>1. SInv'
  BY NextRuns DEF CInv
<1>2. CASE UNCHANGED vars
  BY <1>1, <1>2 DEF CInv, Occupied, CodeTypes, TypesInv, CoveredInv, vars
<1>3. CASE Next /\ ~UNCHANGED vars
  <2>1. /\ Occupied' /\ TypesInv'
        /\ CodeStep({}) \/ \E N : CodeStep(N) /\ \A b \in N : GotTo(b)'
    BY <1>3, SkipStep, SimpleStep, CallStep, EndStatementsStep, StoreStep, ReturnStep,
       ThenStep, ElseStep, MergeStep, OperandStep, RhsStep, LogicalStep, DefaultReturnStep
    DEF Next, Ended
  <2>2. PICK N : CodeStep(N) /\ \A b \in N : GotTo(b)'
    <3>1. \A b \in {} : GotTo(b)'
      OBVIOUS
    <3>2. QED BY <2>1, <3>1
  <2>3. CoveredInv'
    BY <1>1, <2>1, <2>2, CoveredNext
  <2>4. QED BY <1>1, <2>1, <2>2, <2>3 DEF CInv, CodeStep
<1>4. QED BY <1>2, <1>3

-----------------------------------------------------------------------------
(* What the invariant says of types, and of the blocks that are executed *)

LEMMA ValueTyped == ASSUME NEW v, ValueIn(v, operands, DOMAIN blocks) PROVE v \in Value
BY DEF ValueIn, Value

LEMMA InstructionTyped ==
  ASSUME NEW i, Typed(i, DOMAIN expected, operands, DOMAIN blocks)
  PROVE  TypeOfInstruction(i)
<1>1. CASE i.op = "event"
  BY <1>1 DEF Typed, TypeOfInstruction
<1>2. CASE i.op = "br"
  BY <1>2 DEF Typed, TypeOfInstruction
<1>3. CASE i.op = "condbr"
  BY <1>3, ValueTyped DEF Typed, TypeOfInstruction
<1>4. CASE i.op = "ret"
  BY <1>4 DEF Typed, TypeOfInstruction
<1>5. CASE i.op = "phi"
  BY <1>5, ValueTyped DEF Typed, TypeOfInstruction
<1>6. QED BY <1>1, <1>2, <1>3, <1>4, <1>5 DEF Typed

LEMMA CInvTypes == CInv => TypeOK
<1> SUFFICES ASSUME CInv PROVE TypeOK
  OBVIOUS
<1>1. ASSUME NEW b \in DOMAIN blocks
      PROVE  /\ blocks[b].placed \in BOOLEAN
             /\ \A i \in ToSet(blocks[b].code) : TypeOfInstruction(i)
  <2>1. blocks[b].placed \in BOOLEAN
    BY CFacts, ModuleFacts
  <2>2. ListTyped(blocks[b].code, DOMAIN expected, operands, DOMAIN blocks)
    BY CFacts DEF CodeTyped
  <2>3. ASSUME NEW i \in ToSet(blocks[b].code) PROVE TypeOfInstruction(i)
    BY <2>2, InstructionTyped DEF ListTyped, ToSet
  <2>4. QED BY <2>1, <2>3
<1>2. result.none \/ result.value \in Value
  BY CFacts, ValueTyped DEF ResultTyped
<1>3. result.truth \subseteq Runs
  BY CFacts DEF ResultTyped, PathRuns, Depends
<1>4. \A e \in DOMAIN expected : expected[e] \subseteq Runs
  BY CFacts DEF EventsTyped
<1>5. QED BY <1>1, <1>2, <1>3, <1>4, CFacts DEF TypeOK

\* A block that a run goes on to is one its code branches to.
LEMMA NextIsTarget ==
  ASSUME NEW code, ~EndsRun(code), NEW E, NEW n, NEW D, Typed(Last(code), E, n, D),
         NEW run, NEW at
  PROVE  NextOf(code, run, at).block \in To(code)
<1>1. /\ Ends(code) /\ Last(code).op \in {"br", "condbr"}
      /\ To(code) = Targets(Last(code))
  BY DEF EndsRun, Ends, IsTerminator, To
<1>2. CASE Last(code).op = "br"
  <2>1. DOMAIN Last(code).to = {1}
    BY <1>2 DEF Typed
  <2>2. NextOf(code, run, at).block = Last(code).to[1]
    BY <1>2 DEF NextOf, GoesSecond
  <2>3. QED BY <1>1, <2>1, <2>2 DEF Targets
<1>3. CASE Last(code).op = "condbr"
  <2>1. DOMAIN Last(code).to = {1, 2}
    BY <1>3 DEF Typed
  <2>2. NextOf(code, run, at).block \in {Last(code).to[1], Last(code).to[2]}
    BY DEF NextOf
  <2>3. QED BY <1>1, <2>1, <2>2 DEF Targets
<1>4. QED BY <1>1, <1>2, <1>3

LEMMA RunIsPlaced ==
  ASSUME CInv, calls = <<>>, NEW run, NEW w, IsRun(blocks, run, w), NEW i \in DOMAIN w
  PROVE  w[i].block \in DOMAIN blocks /\ blocks[w[i].block].placed = TRUE
<1>1. /\ IsPath(blocks, run, w) /\ Len(w) \in Nat /\ DOMAIN w = 1..Len(w)
  BY PathFacts DEF IsRun
<1>2. CASE i = 1
  BY <1>1, <1>2 DEF IsPath, Beginning, CInv, CoveredInv
<1>3. CASE i # 1
  <2> DEFINE j == i - 1
  <2>1. j \in DOMAIN w /\ j # Len(w) /\ j + 1 = i
    BY <1>1, <1>3
  <2> HIDE DEF j
  <2>2. PICK code : code = blocks[w[j].block].code
    OBVIOUS
  <2>3. /\ w[j].block \in DOMAIN blocks /\ ~EndsRun(code) /\ w[i] = NextOf(code, run, w[j])
    BY <1>1, <2>1, <2>2 DEF IsPath
  <2>4. Typed(Last(code), DOMAIN expected, operands, DOMAIN blocks)
    <3>1. ListTyped(code, DOMAIN expected, operands, DOMAIN blocks) /\ IsStack(code)
      BY <2>2, <2>3, CFacts, ModuleFacts DEF CodeTyped, IsCode, IsStack
    <3>2. code # <<>>
      BY <2>3 DEF EndsRun, Ends
    <3>3. Last(code) = code[Len(code)] /\ Len(code) \in DOMAIN code
      BY <3>1, <3>2, StackFacts
    <3>4. QED BY <3>1, <3>3 DEF ListTyped
  <2>5. w[i].block \in To(code)
    BY <2>3, <2>4, NextIsTarget
  <2>6. BranchInv(blocks, calls) /\ Holders(calls) = {}
    BY CFacts DEF ModuleInv, Holders
  <2>7. QED BY <2>2, <2>3, <2>5, <2>6 DEF BranchInv
<1>4. QED BY <1>2, <1>3

LEMMA CInvCovers == CInv => EveryBlockExecuted
<1> SUFFICES ASSUME CInv, Lowered
             PROVE  Placed = UNION {{at.block : at \in ToSet(Execution(run))} : run \in Runs}
  BY DEF EveryBlockExecuted
<1>1. calls = <<>> /\ IsModule(blocks)
  BY CFacts DEF Lowered
<1>2. ASSUME NEW b, b \in Placed
      PROVE  \E run \in Runs : \E at \in ToSet(Execution(run)) : at.block = b
  <2>1. b \in DOMAIN blocks /\ blocks[b].placed = TRUE
    BY <1>1, <1>2, ModuleFacts DEF Placed
  <2>2. PICK run \in Runs : Visits(blocks, run, b)
    BY <2>1 DEF CInv, CoveredInv, Covered
  <2>3. PICK w : IsRun(blocks, run, w) /\ \E i \in DOMAIN w : w[i].block = b
    BY <2>2 DEF Visits
  <2>4. Execution(run) = w
    BY <1>1, <2>3, RunIsExecuted
  <2>5. QED BY <2>3, <2>4 DEF ToSet
<1>3. ASSUME NEW run \in Runs, NEW at \in ToSet(Execution(run))
      PROVE  at.block \in Placed
  <2>1. PICK w : IsRun(blocks, run, w)
    BY DEF CInv, SInv, RunInv, HasRun, Follows
  <2>2. Execution(run) = w
    BY <1>1, <2>1, RunIsExecuted
  <2>3. PICK i \in DOMAIN w : at = w[i]
    BY <2>2 DEF ToSet
  <2>4. QED BY <1>1, <2>1, <2>3, RunIsPlaced DEF Placed
<1>4. QED BY <1>2, <1>3

-----------------------------------------------------------------------------
(* Theorems *)

\* While a body is lowered, calls in progress hold blocks of their own, and only the
\* block the builder is at and those they come back to have yet to be ended.
THEOREM BlocksAreHeld == Spec => []IInv
<1>1. Init => IInv
  BY InitIInv
<1>2. IInv /\ [Next]_vars => IInv'
  BY NextKeeps
<1>3. QED BY <1>1, <1>2, PTL DEF Spec

\* The function that is made of any body, of any length and depth, is one that
\* VerifyModule accepts: LowerStatements, LowerIf and the logical operators end every
\* block once, branch only to blocks of the function, and give each phi a value for
\* each predecessor.
THEOREM FunctionIsWellFormed == Spec => []VerifyModule
<1>1. Spec => []IInv
  BY BlocksAreHeld
<1>2. IInv => VerifyModule
  BY IInvVerifies
<1>3. QED BY <1>1, <1>2, PTL

\* At every moment of the lowering, each run that is executed on the blocks so far has
\* done the events that the body has for it so far, and has come to the open block where
\* its next statement is going to be emitted: that of the builder, or one that
\* LowerIf or a logical operator comes back to; and the value that the last expression
\* returned is, in each run, the one the operators of the language give.
THEOREM RunsAreFollowed == Spec => []SInv
<1>1. Init => SInv
  BY InitIInv, InitRuns DEF SInv
<1>2. SInv /\ [Next]_vars => SInv'
  BY NextRuns
<1>3. QED BY <1>1, <1>2, PTL DEF Spec

\* What is emitted next is executed in exactly the runs whose next statement it is: the
\* insert point of LowerStatements, LowerIf, LowerLogicalAnd and LowerLogicalOr is where
\* they are.
THEOREM BuilderIsWhereRunsAre == Spec => []BuilderFollowsBody
<1>1. SInv => BuilderFollowsBody
  BY RunsAreTold
<1>2. QED BY <1>1, RunsAreFollowed, PTL

\* The function that is made of a body of any length and depth does, for any values of
\* its operands, the events of the body, each as often and in the order of the body:
\* the right operand of && and || only when it is asked for, one side of an if, nothing
\* after a return.
THEOREM FunctionDoesWhatBodyDoes == Spec => []SameEvents
<1>1. SInv => SameEvents
  BY RunsAreTold
<1>2. QED BY <1>1, RunsAreFollowed, PTL

\* Whatever LowerStatements has lowered, some run gets to every block it has put into the
\* function, to the insert point while that is open, and to each block that LowerIf or a
\* logical operator comes back to; what the last expression returned is true in some of the
\* runs that get there and false in others; and what is in the blocks has its type.
THEOREM BlocksAreCovered == Spec => []CInv
<1>1. Init => CInv
  BY InitCInv
<1>2. CInv /\ [Next]_vars => CInv'
  BY NextCovers
<1>3. QED BY <1>1, <1>2, PTL DEF Spec

\* The builder is always in a block that exists, instructions name blocks, events and
\* values that exist, and FunctionLoweringContext stays within the bounds of the body.
THEOREM TypeCorrect == Spec => []TypeOK
<1>1. CInv => TypeOK
  BY CInvTypes
<1>2. QED BY <1>1, BlocksAreCovered, PTL

\* The function that is made of a body of any length and depth has no block that no run
\* gets to: LowerIf makes no if.merge when both sides have ended, LowerStatements makes
\* nothing of what comes after a return, and each side of an &&, an || and an if is
\* there for some run.
THEOREM NoBlockInVain == Spec => []EveryBlockExecuted
<1>1. CInv => EveryBlockExecuted
  BY CInvCovers
<1>2. QED BY <1>1, BlocksAreCovered, PTL
=============================================================================
