------------------------- MODULE SemanticChecksProofs -------------------------
(***************************************************************************)
(* What CheckTypes and CheckAccessAllowance report of programs of any      *)
(* size is what is wrong with them.                                        *)
(***************************************************************************)
EXTENDS SemanticChecks, CommonLemmas, FiniteSetTheorems

-----------------------------------------------------------------------------
(* Checks of the type checker *)

Check == [type : Types \cup {NoType}, recovering : BOOLEAN, errors : Nat]

\* d is what a check that has reported nothing becomes if it finds wrong, or does not.
Reports(c, wrong, d) ==
  /\ d \in Check
  /\ d.recovering <=> wrong
  /\ d.errors = IF wrong THEN c.errors + 1 ELSE c.errors
Clean == {c \in Check : ~c.recovering}

LEMMA ErrorIsReported ==
  ASSUME NEW c \in Clean, NEW wrong \in BOOLEAN
  PROVE  /\ Reports(c, wrong, ReportIf(wrong, c))
         /\ ~wrong => ReportIf(wrong, c) = c
         /\ Reports(c, TRUE, ReportCodeError(c))
  BY DEF Clean, Check, Reports, ReportIf, ReportCodeError, NoType

LEMMA AtomIsChecked ==
  ASSUME NEW c \in Clean, NEW a \in Atoms
  PROVE  LET d == RequireValue(EvaluateAtom(c, a))
             v == EvaluateAtom(c, a)
         IN  /\ Reports(c, a = "wrong", v)
             /\ a # "wrong" => v.type = a
             /\ Reports(c, a \notin Types, d)
             /\ a \in Types => d.type = a
<1>1. a = "wrong" \/ a \in Types \cup {NoType}
  BY DEF Atoms
<1>2. NoType \notin Types /\ "wrong" \notin Types \cup {NoType}
  BY DEF NoType, Types
<1>3. CASE a = "wrong"
  BY <1>2, <1>3, ErrorIsReported
     DEF EvaluateAtom, Clean, Check, Reports, RequireValue, ReportIf, ReportCodeError
<1>4. CASE a \in Types \cup {NoType}
  <2> DEFINE v == [c EXCEPT !.type = a]
  <2>1. EvaluateAtom(c, a) = v /\ v \in Clean /\ v.type = a /\ v.errors = c.errors
    BY <1>2, <1>4 DEF EvaluateAtom, Clean, Check
  <2>2. Reports(v, a = NoType, RequireValue(v)) /\ (a # NoType => RequireValue(v) = v)
    BY <2>1, ErrorIsReported DEF RequireValue, Clean
  <2>3. QED BY <1>2, <1>4, <2>1, <2>2 DEF Reports, Clean
<1>5. QED BY <1>1, <1>3, <1>4

LEMMA UnaryIsChecked ==
  ASSUME NEW c \in Clean, NEW e \in [op : UnaryOperators, left : Atoms]
  PROVE  LET d == EvaluateUnary(c, e)
         IN  /\ Reports(c, TypeOf(e) = "wrong", d)
             /\ TypeOf(e) \in Types \cup {"wrong"}
             /\ TypeOf(e) # "wrong" => d.type = TypeOf(e)
<1> DEFINE operand == RequireValue(EvaluateAtom(c, e.left))
           typed == [operand EXCEPT !.type = TypeOfOperation(e.op, @)]
<1>0. e.left \in Atoms /\ e.op \in UnaryOperators
  OBVIOUS
<1>1. Reports(c, e.left \notin Types, operand) /\ (e.left \in Types => operand.type = e.left)
  BY <1>0, AtomIsChecked
<1>2. e.op # "atom" /\ e.op \notin BinaryOperators
  BY <1>0 DEF UnaryOperators, BinaryOperators
<1>3. CASE e.left \notin Types
  <2>1. TypeOf(e) = "wrong"
    BY <1>2, <1>3 DEF TypeOf, Operand, IsSupportedExprOp
  <2>2. EvaluateUnary(c, e) = operand
    BY <1>1, <1>3 DEF EvaluateUnary, Failed, Reports
  <2>3. QED BY <1>1, <1>3, <2>1, <2>2
<1>4. CASE e.left \in Types
  <2>1. ~Failed(operand) /\ operand.type = e.left /\ operand \in Clean
    BY <1>1, <1>4 DEF Failed, Reports, Clean, Types, NoType
  <2>2. TypeOfOperation(e.op, e.left) \in Types
    BY <1>4 DEF TypeOfOperation, Types
  <2>3. /\ typed \in Clean /\ typed.errors = operand.errors
        /\ typed.type = TypeOfOperation(e.op, e.left)
    BY <2>1, <2>2 DEF Clean, Check
  <2>4. EvaluateUnary(c, e) = ReportIf(~IsSupportedExprOp(e.op, e.left), typed)
    BY <2>1 DEF EvaluateUnary
  <2>5. TypeOf(e) = IF IsSupportedExprOp(e.op, e.left)
                      THEN TypeOfOperation(e.op, e.left) ELSE "wrong"
    BY <1>2, <1>4 DEF TypeOf, Operand
  <2>6. "wrong" \notin Types
    BY DEF Types
  <2>7. Reports(typed, ~IsSupportedExprOp(e.op, e.left), EvaluateUnary(c, e))
    BY <2>3, <2>4, ErrorIsReported
  <2>8. IsSupportedExprOp(e.op, e.left) => EvaluateUnary(c, e) = typed
    BY <2>4 DEF ReportIf
  <2>9. operand.errors = c.errors
    BY <1>1, <1>4 DEF Reports
  <2>10. QED BY <2>2, <2>3, <2>5, <2>6, <2>7, <2>8, <2>9 DEF Reports
<1>5. QED BY <1>3, <1>4

LEMMA BinaryIsChecked ==
  ASSUME NEW c \in Clean, NEW e \in [op : BinaryOperators, left : Atoms, right : Atoms]
  PROVE  LET d == EvaluateBinary(c, e)
         IN  /\ Reports(c, TypeOf(e) = "wrong", d)
             /\ TypeOf(e) \in Types \cup {"wrong"}
             /\ TypeOf(e) # "wrong" => d.type = TypeOf(e)
<1> DEFINE left == RequireValue(EvaluateAtom(c, e.left))
           right == RequireValue(EvaluateAtom(left, e.right))
           typed == [right EXCEPT !.type = TypeOfOperation(e.op, @)]
           fits == e.left = e.right /\ IsSupportedExprOp(e.op, e.left)
<1>0. e.left \in Atoms /\ e.right \in Atoms /\ e.op \in BinaryOperators
  OBVIOUS
<1>1. Reports(c, e.left \notin Types, left) /\ (e.left \in Types => left.type = e.left)
  BY <1>0, AtomIsChecked
<1>2. e.op # "atom" /\ "wrong" \notin Types /\ NoType \notin Types
  BY <1>0 DEF BinaryOperators, Types, NoType
<1>3. CASE e.left \notin Types
  <2>1. TypeOf(e) = "wrong"
    BY <1>2, <1>3 DEF TypeOf, Operand, IsSupportedExprOp
  <2>2. EvaluateBinary(c, e) = left
    BY <1>1, <1>3 DEF EvaluateBinary, Failed, Reports
  <2>3. QED BY <1>1, <1>3, <2>1, <2>2
<1>4. CASE e.left \in Types
  <2>1. ~Failed(left) /\ left.type = e.left /\ left \in Clean /\ left.errors = c.errors
    BY <1>1, <1>2, <1>4 DEF Failed, Reports, Clean
  <2>2. /\ Reports(left, e.right \notin Types, right)
        /\ e.right \in Types => right.type = e.right
    BY <1>0, <2>1, AtomIsChecked
  <2>3. TypeOf(e) = IF fits THEN TypeOfOperation(e.op, e.left) ELSE "wrong"
    BY <1>0, <1>2, <1>4 DEF TypeOf, Operand
  <2>4. CASE e.right \notin Types
    <3>1. EvaluateBinary(c, e) = right
      BY <2>1, <2>2, <2>4 DEF EvaluateBinary, Failed, Reports
    <3>2. ~fits
      BY <1>4, <2>4
    <3>3. QED BY <2>1, <2>2, <2>3, <2>4, <3>1, <3>2 DEF Reports
  <2>5. CASE e.right \in Types
    <3>1. ~Failed(right) /\ right.type = e.right /\ right \in Clean /\ right.errors = c.errors
      BY <1>2, <2>1, <2>2, <2>5 DEF Failed, Reports, Clean
    <3>2. TypeOfOperation(e.op, e.right) \in Types
      BY <2>5 DEF TypeOfOperation, Types
    <3>3. /\ typed \in Clean /\ typed.errors = c.errors
          /\ typed.type = TypeOfOperation(e.op, e.right)
      BY <3>1, <3>2 DEF Clean, Check
    <3>4. EvaluateBinary(c, e) = ReportIf(~fits, typed)
      BY <2>1, <3>1 DEF EvaluateBinary
    <3>5. Reports(typed, ~fits, EvaluateBinary(c, e)) /\ (fits => EvaluateBinary(c, e) = typed)
      BY <3>3, <3>4, ErrorIsReported
    <3>6. fits => TypeOfOperation(e.op, e.left) = TypeOfOperation(e.op, e.right)
      OBVIOUS
    <3>7. QED BY <1>2, <2>3, <3>2, <3>3, <3>5, <3>6 DEF Reports
  <2>6. QED BY <2>4, <2>5
<1>5. QED BY <1>3, <1>4

\* Every expression has one error if it is wrong, and none and its type if it is not.
LEMMA ExpressionIsChecked ==
  ASSUME NEW c \in Clean, NEW e \in Expressions
  PROVE  LET d == EvaluateExpressionType(c, e)
         IN  /\ Reports(c, TypeOf(e) = "wrong", d)
             /\ TypeOf(e) \in Types \cup {NoType, "wrong"}
             /\ TypeOf(e) # "wrong" => d.type = TypeOf(e)
<1>1. CASE e \in [op : {"atom"}, left : Atoms]
  <2>1. e.op = "atom" /\ e.left \in Atoms
    BY <1>1
  <2>2. EvaluateExpressionType(c, e) = EvaluateAtom(c, e.left)
    BY <2>1 DEF EvaluateExpressionType, UnaryOperators, BinaryOperators
  <2>3. TypeOf(e) = e.left
    BY <2>1 DEF TypeOf
  <2>4. QED BY <2>1, <2>2, <2>3, AtomIsChecked DEF Atoms
<1>2. CASE e \in [op : UnaryOperators, left : Atoms]
  <2>1. EvaluateExpressionType(c, e) = EvaluateUnary(c, e)
    BY <1>2 DEF EvaluateExpressionType, UnaryOperators, BinaryOperators
  <2>2. QED BY <1>2, <2>1, UnaryIsChecked
<1>3. CASE e \in [op : BinaryOperators, left : Atoms, right : Atoms]
  <2>1. EvaluateExpressionType(c, e) = EvaluateBinary(c, e)
    BY <1>3 DEF EvaluateExpressionType, UnaryOperators, BinaryOperators
  <2>2. QED BY <1>3, <2>1, BinaryIsChecked
<1>4. QED BY <1>1, <1>2, <1>3 DEF Expressions

LEMMA ValueIsChecked ==
  ASSUME NEW c \in Clean, NEW e \in Expressions
  PROVE  LET d == RequireValueType(c, e)
         IN  /\ Reports(c, TypeOf(e) \notin Types, d)
             /\ TypeOf(e) \in Types => d.type = TypeOf(e)
<1> DEFINE v == EvaluateExpressionType(c, e)
<1>1. /\ Reports(c, TypeOf(e) = "wrong", v)
      /\ TypeOf(e) \in Types \cup {NoType, "wrong"}
      /\ TypeOf(e) # "wrong" => v.type = TypeOf(e)
  BY ExpressionIsChecked
<1>2. NoType \notin Types /\ "wrong" \notin Types \cup {NoType}
  BY DEF NoType, Types
<1>3. CASE TypeOf(e) = "wrong"
  BY <1>1, <1>2, <1>3 DEF RequireValueType, RequireValue, ReportIf, Reports
<1>4. CASE TypeOf(e) # "wrong"
  <2>1. v \in Clean /\ v.type = TypeOf(e) /\ v.errors = c.errors
    BY <1>1, <1>4 DEF Reports, Clean
  <2>2. RequireValueType(c, e) = ReportIf(v.type = NoType, v)
    BY <2>1 DEF RequireValueType, RequireValue, Clean
  <2>3. Reports(v, v.type = NoType, RequireValueType(c, e))
        /\ (v.type # NoType => RequireValueType(c, e) = v)
    BY <2>1, <2>2, ErrorIsReported
  <2>4. QED BY <1>1, <1>2, <1>4, <2>1, <2>3 DEF Reports
<1>5. QED BY <1>3, <1>4

\* A value that is required to be of a type.
LEMMA AssignableIsChecked ==
  ASSUME NEW c \in Clean, NEW type, NEW e \in Expressions
  PROVE  Reports(c, ~Fits(type, e), RequireAssignable(c, type, e))
<1> DEFINE v == RequireValueType(c, e)
<1>1. Reports(c, TypeOf(e) \notin Types, v) /\ (TypeOf(e) \in Types => v.type = TypeOf(e))
  BY ValueIsChecked
<1>2. CASE TypeOf(e) \notin Types
  BY <1>1, <1>2 DEF RequireAssignable, ReportIf, Failed, Reports, Fits
<1>3. CASE TypeOf(e) \in Types
  <2>1. v \in Clean /\ ~Failed(v) /\ v.type = TypeOf(e) /\ v.errors = c.errors
    BY <1>1, <1>3 DEF Reports, Clean, Failed, Types, NoType
  <2>2. RequireAssignable(c, type, e) = ReportIf(~Fits(type, e), v)
    BY <1>3, <2>1 DEF RequireAssignable, Fits
  <2>3. Fits(type, e) \in BOOLEAN
    BY DEF Fits
  <2>4. QED BY <2>1, <2>2, <2>3, ErrorIsReported DEF Reports
<1>4. QED BY <1>2, <1>3

\* A condition.
LEMMA ConditionIsChecked ==
  ASSUME NEW c \in Clean, NEW e \in Expressions
  PROVE  Reports(c, TypeOf(e) # "bool", VisitCondition(c, e))
<1> DEFINE v == RequireValueType(c, e)
<1>1. Reports(c, TypeOf(e) \notin Types, v) /\ (TypeOf(e) \in Types => v.type = TypeOf(e))
  BY ValueIsChecked
<1>2. CASE TypeOf(e) \notin Types
  BY <1>1, <1>2 DEF VisitCondition, ReportIf, Failed, Reports, Types
<1>3. CASE TypeOf(e) \in Types
  <2>1. v \in Clean /\ ~Failed(v) /\ v.type = TypeOf(e) /\ v.errors = c.errors
    BY <1>1, <1>3 DEF Reports, Clean, Failed, Types, NoType
  <2>2. VisitCondition(c, e) = ReportIf(TypeOf(e) # "bool", v)
    BY <1>3, <2>1 DEF VisitCondition
  <2>3. QED BY <2>1, <2>2, ErrorIsReported DEF Reports
<1>4. QED BY <1>2, <1>3

-----------------------------------------------------------------------------
(***************************************************************************)
(* The inductive invariant.                                                *)
(***************************************************************************)

Kinds == {"block", "then", "else", "function", "method", "class", "call"}
Arguments == [name : Nat, value : [op : {"atom"}, left : Atoms]]
LoopStates == [named : BOOLEAN, positional : BOOLEAN, used : SUBSET Nat, index : Nat]
FrameSet(n) ==
  [kind : Kinds, visited : BOOLEAN, errors : Nat, wrong : BOOLEAN, reported : BOOLEAN,
   returns : Types \cup {NoType}, class : 0..n, previous : 0..n,
   parameters : Seq(Types), count : Nat, given : Seq(Arguments), state : LoopStates]
LastSet == [visited : BOOLEAN, wrong : BOOLEAN, errors : Nat]

TypeInv ==
  /\ statements \in 0..MaxStatements /\ classes \in 0..statements
  /\ open \in Seq(FrameSet(classes)) /\ last \in LastSet
  /\ recovering \in BOOLEAN /\ returnTypes \in Seq(Types \cup {NoType})
  /\ owner \in 0..classes /\ denied \in BOOLEAN /\ forbidden \in BOOLEAN

\* Of what is visited, wrong is what was reported; what is left out of it is left out
\* because of an error.
Sound(frame, within) ==
  /\ frame.visited => within
  /\ within => (frame.wrong <=> frame.reported) /\ (~frame.visited => frame.wrong)
  /\ frame.errors <= 1
  /\ frame.kind = "then" /\ frame.visited => frame.errors = 0
Within(frames, i) == i = 1 \/ frames[i - 1].visited
FramesInv(frames) ==
  \A i \in 1..Len(frames) :
    /\ Sound(frames[i], Within(frames, i))
    /\ frames[i].visited => \A j \in 1..i : frames[j].visited
    /\ frames[i].kind = "call" => i = Len(frames)

\* The loop over the arguments of a call that are right so far.
LoopInv(given, state) ==
  /\ state.named <=> \E i \in 1..Len(given) : given[i].name # 0
  /\ state.positional <=> \E i \in 1..Len(given) : given[i].name = 0
  /\ \A n \in Nat : n \in state.used <=> n # 0 /\ \E i \in 1..Len(given) : given[i].name = n
  /\ ~state.named => state.index = Len(given)
CallInv(call, silent) ==
  /\ call.visited
  /\ call.errors \in {0, 1} /\ (call.errors = 1 <=> silent)
  /\ call.wrong <=> call.errors = 1
  /\ call.reported <=> call.errors = 1
  /\ call.errors = 0 =>
       /\ call.count = Len(call.parameters) /\ Len(call.given) <= call.count
       /\ LegalArguments(call.parameters, call.given)
       /\ LoopInv(call.given, call.state)

\* The type checker is silent only after a report of what it visits.
ErrorsInv ==
  /\ last.errors <= 1 /\ (last.visited => (last.wrong <=> last.errors > 0))
  /\ open # <<>> /\ Last(open).visited /\ recovering => Last(open).reported
  /\ open # <<>> /\ Last(open).kind = "call" => CallInv(Last(open), recovering)

\* The innermost body gives the owner, and keeps that of the body around it.
IsBody(frame) == frame.kind \in {"function", "method"}
HasOwner(frames, n, class) ==
  \/ class = 0 /\ \A i \in 1..n : ~IsBody(frames[i])
  \/ \E i \in 1..n : /\ IsBody(frames[i]) /\ class = frames[i].class
                     /\ \A j \in (i + 1)..n : ~IsBody(frames[j])
OwnerInv(frames, class) ==
  /\ HasOwner(frames, Len(frames), class)
  /\ \A i \in 1..Len(frames) : IsBody(frames[i]) => HasOwner(frames, i - 1, frames[i].previous)

\* Every body that is visited has its return type on the stack.
VisitedBodies(frames, n) == {i \in 1..n : IsBody(frames[i]) /\ frames[i].visited}
ReturnsInv(frames, types) ==
  /\ Len(types) = Cardinality(VisitedBodies(frames, Len(frames)))
  /\ \A i \in VisitedBodies(frames, Len(frames)) :
       types[Cardinality(VisitedBodies(frames, i))] = frames[i].returns

IInv ==
  /\ TypeInv
  /\ FramesInv(open) /\ ErrorsInv
  /\ OwnerInv(open, owner) /\ ReturnsInv(open, returnTypes)
  /\ AccessInOwnMethods

-----------------------------------------------------------------------------
(* What is opened and closed *)

LEMMA PushedFrame ==
  ASSUME NEW S, NEW frames \in Seq(S), NEW frame \in S,
         FramesInv(frames), frames # <<>> => Last(frames).kind # "call",
         Sound(frame, frames # <<>> => Last(frames).visited)
  PROVE  FramesInv(Append(frames, frame))
<1> DEFINE n == Len(frames)
           new == Append(frames, frame)
<1>1. /\ n \in Nat /\ Len(new) = n + 1 /\ new[n + 1] = frame
      /\ \A i \in 1..n : new[i] = frames[i]
  BY AppendType, LenProperties
<1>2. frames # <<>> => n # 0 /\ Last(frames) = frames[n]
  BY LastProperties
<1>3. frames = <<>> => n = 0
  BY <1>1
<1> SUFFICES ASSUME NEW i \in 1..(n + 1)
             PROVE  /\ Sound(new[i], Within(new, i))
                    /\ new[i].visited => \A j \in 1..i : new[j].visited
                    /\ new[i].kind = "call" => i = n + 1
  BY <1>1 DEF FramesInv
<1>4. CASE i = n + 1
  <2>1. Within(new, i) <=> (frames # <<>> => Last(frames).visited)
    BY <1>1, <1>2, <1>3, <1>4 DEF Within
  <2>2. Sound(new[i], Within(new, i))
    BY <1>1, <1>4, <2>1 DEF Sound
  <2>3. ASSUME new[i].visited, NEW j \in 1..i PROVE new[j].visited
    <3>1. frames # <<>> => Last(frames).visited
      BY <2>1, <2>2, <2>3 DEF Sound
    <3>2. CASE j = n + 1
      BY <1>4, <2>3, <3>2
    <3>3. CASE j \in 1..n
      BY <1>1, <1>2, <1>3, <3>1, <3>3 DEF FramesInv
    <3>4. QED BY <1>4, <1>1, <3>2, <3>3
  <2>4. QED BY <1>4, <2>2, <2>3
<1>5. CASE i \in 1..n
  <2>1. Within(new, i) <=> Within(frames, i)
    BY <1>1, <1>5 DEF Within
  <2>2. /\ Sound(frames[i], Within(frames, i))
        /\ frames[i].visited => \A j \in 1..i : frames[j].visited
        /\ frames[i].kind = "call" => i = n
    BY <1>5 DEF FramesInv
  <2>3. frames[i].kind # "call"
    BY <1>2, <1>3, <1>1, <1>5, <2>2
  <2>4. QED BY <1>1, <1>5, <2>1, <2>2, <2>3 DEF Sound
<1>6. QED BY <1>1, <1>4, <1>5

LEMMA PoppedFrame ==
  ASSUME NEW S, NEW frames \in Seq(S), frames # <<>>, FramesInv(frames)
  PROVE  LET rest == Front(frames)
         IN  /\ FramesInv(rest)
             /\ rest # <<>> => Last(rest).kind # "call"
             /\ Sound(Last(frames), rest # <<>> => Last(rest).visited)
<1> DEFINE n == Len(frames)
           rest == Front(frames)
<1>1. /\ rest \in Seq(S) /\ n \in Nat \ {0} /\ Len(rest) = n - 1
      /\ \A i \in 1..(n - 1) : rest[i] = frames[i]
      /\ Last(frames) = frames[n]
  BY FrontProperties, LastProperties
<1>2. rest # <<>> => n # 1 /\ Last(rest) = frames[n - 1]
  <2>1. rest # <<>> => Len(rest) \in Nat \ {0} /\ Last(rest) = rest[Len(rest)]
    BY <1>1, LastProperties
  <2>2. QED BY <1>1, <2>1
<1>3. rest = <<>> => n = 1
  BY <1>1
<1>4. \A i \in 1..(n - 1) : frames[i].kind # "call"
  BY <1>1 DEF FramesInv
<1>5. FramesInv(rest)
  <2> SUFFICES ASSUME NEW i \in 1..(n - 1)
               PROVE  /\ Sound(rest[i], Within(rest, i))
                      /\ rest[i].visited => \A j \in 1..i : rest[j].visited
                      /\ rest[i].kind # "call"
    BY <1>1 DEF FramesInv
  <2>1. Within(rest, i) <=> Within(frames, i)
    BY <1>1 DEF Within
  <2>2. /\ Sound(frames[i], Within(frames, i))
        /\ frames[i].visited => \A j \in 1..i : frames[j].visited
    BY <1>1 DEF FramesInv
  <2>3. QED BY SMTT(60), <1>1, <1>4, <2>1, <2>2 DEF Sound
<1>6. Sound(Last(frames), rest # <<>> => Last(rest).visited)
  <2>1. Sound(frames[n], Within(frames, n))
    BY <1>1 DEF FramesInv
  <2>2. Within(frames, n) <=> (rest # <<>> => Last(rest).visited)
    BY <1>1, <1>2, <1>3 DEF Within
  <2>3. QED BY <1>1, <2>1, <2>2 DEF Sound
<1>7. QED BY <1>1, <1>2, <1>4, <1>5, <1>6

-----------------------------------------------------------------------------
(* Owners and return types *)

\* Both speak of the first frames only.
LEMMA SameFrames ==
  ASSUME NEW n \in Nat, NEW frames, NEW new,
         \A i \in 1..n : new[i] = frames[i]
  PROVE  /\ \A class : HasOwner(new, n, class) <=> HasOwner(frames, n, class)
         /\ VisitedBodies(new, n) = VisitedBodies(frames, n)
<1>1. ASSUME NEW class PROVE HasOwner(new, n, class) <=> HasOwner(frames, n, class)
  <2>1. \A i \in 1..n : \A j \in (i + 1)..n : j \in 1..n
    OBVIOUS
  <2>2. QED BY <2>1 DEF HasOwner, IsBody
<1>2. QED BY <1>1 DEF VisitedBodies, IsBody

LEMMA BodiesAreFinite ==
  ASSUME NEW n \in Nat, NEW frames
  PROVE  /\ IsFiniteSet(VisitedBodies(frames, n))
         /\ Cardinality(VisitedBodies(frames, n)) \in Nat
<1>1. IsFiniteSet(1..n)
  BY FS_Interval
<1>2. VisitedBodies(frames, n) \in SUBSET (1..n)
  BY DEF VisitedBodies
<1>3. QED BY <1>1, <1>2, FS_Subset, FS_CardinalityType

LEMMA OneMoreBody ==
  ASSUME NEW n \in Nat, NEW frames
  PROVE  Cardinality(VisitedBodies(frames, n + 1)) =
           IF IsBody(frames[n + 1]) /\ frames[n + 1].visited
             THEN Cardinality(VisitedBodies(frames, n)) + 1
             ELSE Cardinality(VisitedBodies(frames, n))
<1>1. CASE IsBody(frames[n + 1]) /\ frames[n + 1].visited
  <2>1. VisitedBodies(frames, n + 1) = VisitedBodies(frames, n) \cup {n + 1}
    BY <1>1 DEF VisitedBodies
  <2>2. n + 1 \notin VisitedBodies(frames, n)
    BY DEF VisitedBodies
  <2>3. QED BY <1>1, <2>1, <2>2, BodiesAreFinite, FS_AddElement
<1>2. CASE ~(IsBody(frames[n + 1]) /\ frames[n + 1].visited)
  <2>1. VisitedBodies(frames, n + 1) = VisitedBodies(frames, n)
    BY <1>2 DEF VisitedBodies
  <2>2. QED BY <1>2, <2>1
<1>3. QED BY <1>1, <1>2

LEMMA PushedBodies ==
  ASSUME NEW S, NEW frames \in Seq(S), NEW frame \in S,
         NEW T, NEW types \in Seq(T), frame.returns \in T, NEW class,
         OwnerInv(frames, class), ReturnsInv(frames, types)
  PROVE  LET new == Append(frames, frame)
         IN  /\ ~IsBody(frame) => OwnerInv(new, class) /\ ReturnsInv(new, types)
             /\ IsBody(frame) /\ frame.previous = class =>
                  /\ OwnerInv(new, frame.class)
                  /\ ReturnsInv(new, IF frame.visited THEN Append(types, frame.returns)
                                                      ELSE types)
<1> DEFINE n == Len(frames)
           new == Append(frames, frame)
           newTypes == IF IsBody(frame) /\ frame.visited THEN Append(types, frame.returns)
                                                         ELSE types
<1>1. /\ n \in Nat /\ Len(frames) = n /\ Len(new) = n + 1 /\ new[n + 1] = frame
      /\ \A i \in 1..n : new[i] = frames[i]
  BY AppendType, LenProperties
<1> HIDE DEF n, new
<1>2. /\ \A i \in 0..n : \A c : HasOwner(new, i, c) <=> HasOwner(frames, i, c)
      /\ \A i \in 0..n : VisitedBodies(new, i) = VisitedBodies(frames, i)
  <2> SUFFICES ASSUME NEW i \in 0..n
               PROVE  /\ \A c : HasOwner(new, i, c) <=> HasOwner(frames, i, c)
                      /\ VisitedBodies(new, i) = VisitedBodies(frames, i)
    OBVIOUS
  <2>1. i \in Nat /\ \A j \in 1..i : new[j] = frames[j]
    BY <1>1
  <2>2. QED BY <2>1, SameFrames
<1>3. ASSUME NEW c,
             IF IsBody(frame) THEN c = frame.class /\ frame.previous = class ELSE c = class
      PROVE  OwnerInv(new, c)
  <2>1. HasOwner(new, n, class)
    BY <1>1, <1>2 DEF OwnerInv
  <2>2. HasOwner(new, n + 1, c)
    <3>1. CASE IsBody(frame)
      BY <1>1, <1>3, <3>1 DEF HasOwner
    <3>2. CASE ~IsBody(frame)
      <4>1. CASE class = 0 /\ \A i \in 1..n : ~IsBody(new[i])
        BY <1>1, <1>3, <3>2, <4>1 DEF HasOwner
      <4>2. CASE \E i \in 1..n : /\ IsBody(new[i]) /\ class = new[i].class
                                 /\ \A j \in (i + 1)..n : ~IsBody(new[j])
        <5>1. PICK i \in 1..n : /\ IsBody(new[i]) /\ class = new[i].class
                                /\ \A j \in (i + 1)..n : ~IsBody(new[j])
          BY <4>2
        <5>2. \A j \in (i + 1)..(n + 1) : j = n + 1 \/ j \in (i + 1)..n
          BY <1>1
        <5>3. i \in 1..(n + 1) /\ \A j \in (i + 1)..(n + 1) : ~IsBody(new[j])
          BY <1>1, <3>2, <5>1, <5>2
        <5>4. QED BY <1>3, <3>2, <5>1, <5>3 DEF HasOwner
      <4>3. QED BY <2>1, <4>1, <4>2 DEF HasOwner
    <3>3. QED BY <3>1, <3>2
  <2>3. ASSUME NEW i \in 1..(n + 1), IsBody(new[i])
        PROVE  HasOwner(new, i - 1, new[i].previous)
    <3>1. CASE i = n + 1
      BY <1>1, <1>3, <2>1, <2>3, <3>1
    <3>2. CASE i \in 1..n
      <4>1. HasOwner(frames, i - 1, frames[i].previous)
        BY <1>1, <2>3, <3>2 DEF OwnerInv
      <4>2. i - 1 \in 0..n
        BY <1>1, <3>2
      <4>3. QED BY <1>1, <1>2, <3>2, <4>1, <4>2
    <3>3. QED BY <1>1, <3>1, <3>2
  <2>4. QED BY <1>1, <2>2, <2>3 DEF OwnerInv
<1>4. ReturnsInv(new, newTypes)
  <2>1. /\ Len(types) = Cardinality(VisitedBodies(frames, n)) /\ Len(types) \in Nat
        /\ \A i \in VisitedBodies(frames, n) :
             types[Cardinality(VisitedBodies(frames, i))] = frames[i].returns
    BY <1>1, LenProperties DEF ReturnsInv
  <2>2. /\ Len(newTypes) = IF IsBody(frame) /\ frame.visited THEN Len(types) + 1
                                                            ELSE Len(types)
        /\ \A i \in 1..Len(types) : newTypes[i] = types[i]
        /\ IsBody(frame) /\ frame.visited => newTypes[Len(types) + 1] = frame.returns
    BY AppendType
  <2> HIDE DEF newTypes
  <2>3. Len(newTypes) = Cardinality(VisitedBodies(new, n + 1))
    <3>1. VisitedBodies(new, n) = VisitedBodies(frames, n)
      BY <1>1, <1>2
    <3>2. QED BY SMTT(60), <1>1, <2>1, <2>2, <3>1, OneMoreBody
  <2>4. ASSUME NEW i \in VisitedBodies(new, n + 1)
        PROVE  newTypes[Cardinality(VisitedBodies(new, i))] = new[i].returns
    <3>1. i \in 1..(n + 1) /\ IsBody(new[i]) /\ new[i].visited
      BY DEF VisitedBodies
    <3>2. CASE i = n + 1
      BY <1>1, <2>2, <2>3, <3>1, <3>2
    <3>3. CASE i \in 1..n
      <4>1. i \in VisitedBodies(frames, n) /\ i \in 0..n
        BY <1>1, <3>1, <3>3 DEF VisitedBodies
      <4>2. types[Cardinality(VisitedBodies(frames, i))] = frames[i].returns
        BY <2>1, <4>1
      <4>3. Cardinality(VisitedBodies(frames, i)) \in 1..Len(types)
        <5>1. VisitedBodies(frames, i) \subseteq VisitedBodies(frames, n)
          BY <1>1, <3>3 DEF VisitedBodies
        <5>2. i \in VisitedBodies(frames, i)
          BY <4>1, <3>3 DEF VisitedBodies
        <5>3. /\ IsFiniteSet(VisitedBodies(frames, i))
              /\ Cardinality(VisitedBodies(frames, i)) \in Nat
              /\ IsFiniteSet(VisitedBodies(frames, n))
          BY <1>1, <3>3, BodiesAreFinite
        <5>4. Cardinality(VisitedBodies(frames, i)) # 0
          BY <5>2, <5>3, FS_EmptySet
        <5>5. Cardinality(VisitedBodies(frames, i)) <= Len(types)
          BY <2>1, <5>1, <5>3, FS_Subset
        <5>6. QED BY <2>1, <5>3, <5>4, <5>5
      <4>4. QED BY <1>1, <1>2, <2>2, <3>3, <4>1, <4>2, <4>3
    <3>4. QED BY <1>1, <3>1, <3>2, <3>3
  <2>5. QED BY <1>1, <2>3, <2>4 DEF ReturnsInv
<1>5. QED BY <1>3, <1>4 DEF new, newTypes

LEMMA PoppedBodies ==
  ASSUME NEW S, NEW frames \in Seq(S), frames # <<>>,
         NEW T, NEW types \in Seq(T), NEW class,
         OwnerInv(frames, class), ReturnsInv(frames, types)
  PROVE  LET frame == Last(frames)
             rest == Front(frames)
         IN  /\ ~IsBody(frame) => OwnerInv(rest, class) /\ ReturnsInv(rest, types)
             /\ IsBody(frame) =>
                  /\ class = frame.class
                  /\ OwnerInv(rest, frame.previous)
                  /\ frame.visited =>
                       /\ types # <<>> /\ Last(types) = frame.returns
                       /\ ReturnsInv(rest, Front(types))
                  /\ ~frame.visited => ReturnsInv(rest, types)
<1> DEFINE n == Len(frames) - 1
           frame == Last(frames)
           rest == Front(frames)
<1>1. /\ n \in Nat /\ n + 1 \in Nat /\ Len(frames) = n + 1 /\ Len(rest) = n /\ rest \in Seq(S)
      /\ frames[n + 1] = frame
      /\ \A i \in 1..n : rest[i] = frames[i]
  BY FrontProperties, LastProperties
<1> HIDE DEF n, frame, rest
<1>2. /\ \A i \in 0..n : \A c : HasOwner(rest, i, c) <=> HasOwner(frames, i, c)
      /\ \A i \in 0..n : VisitedBodies(rest, i) = VisitedBodies(frames, i)
  <2> SUFFICES ASSUME NEW i \in 0..n
               PROVE  /\ \A c : HasOwner(rest, i, c) <=> HasOwner(frames, i, c)
                      /\ VisitedBodies(rest, i) = VisitedBodies(frames, i)
    OBVIOUS
  <2>1. i \in Nat /\ \A j \in 1..i : rest[j] = frames[j]
    BY <1>1
  <2>2. QED BY <2>1, SameFrames
<1>3. \A i \in 1..n : IsBody(rest[i]) => HasOwner(rest, i - 1, rest[i].previous)
  <2> SUFFICES ASSUME NEW i \in 1..n, IsBody(rest[i])
               PROVE  HasOwner(rest, i - 1, rest[i].previous)
    OBVIOUS
  <2>1. HasOwner(frames, i - 1, frames[i].previous) /\ i - 1 \in 0..n
    BY <1>1 DEF OwnerInv
  <2>2. QED BY <1>1, <1>2, <2>1
<1>4. HasOwner(frames, n + 1, class)
  BY <1>1 DEF OwnerInv
<1>5. ASSUME IsBody(frame) PROVE class = frame.class /\ OwnerInv(rest, frame.previous)
  <2>1. class = frame.class
    <3>1. PICK i \in 1..(n + 1) : /\ IsBody(frames[i]) /\ class = frames[i].class
                                  /\ \A j \in (i + 1)..(n + 1) : ~IsBody(frames[j])
      <4>1. n + 1 \in 1..(n + 1)
        BY <1>1
      <4>2. QED BY <1>1, <1>4, <1>5, <4>1 DEF HasOwner
    <3>2. i = n + 1
      BY <1>1, <1>5, <3>1
    <3>3. QED BY <1>1, <3>1, <3>2
  <2>2. HasOwner(frames, n, frame.previous)
    BY <1>1, <1>5 DEF OwnerInv
  <2>3. HasOwner(rest, n, frame.previous) /\ n \in 0..n
    BY <1>1, <1>2, <2>2
  <2>4. QED BY <1>1, <1>3, <1>5, <2>1, <2>3 DEF OwnerInv
<1>6. ASSUME ~IsBody(frame) PROVE OwnerInv(rest, class)
  <2>1. HasOwner(frames, n, class)
    <3>1. CASE class = 0 /\ \A i \in 1..(n + 1) : ~IsBody(frames[i])
      BY <1>1, <3>1 DEF HasOwner
    <3>2. CASE \E i \in 1..(n + 1) : /\ IsBody(frames[i]) /\ class = frames[i].class
                                     /\ \A j \in (i + 1)..(n + 1) : ~IsBody(frames[j])
      <4>1. PICK i \in 1..(n + 1) : /\ IsBody(frames[i]) /\ class = frames[i].class
                                    /\ \A j \in (i + 1)..(n + 1) : ~IsBody(frames[j])
        BY <3>2
      <4>2. i \in 1..n /\ \A j \in (i + 1)..n : j \in (i + 1)..(n + 1)
        BY <1>1, <1>6, <4>1
      <4>3. QED BY <4>1, <4>2 DEF HasOwner
    <3>3. QED BY <1>4, <3>1, <3>2 DEF HasOwner
  <2>2. HasOwner(rest, n, class)
    BY <1>1, <1>2, <2>1
  <2>3. QED BY <1>1, <1>3, <1>6, <2>2 DEF OwnerInv
<1>7. /\ Len(types) = Cardinality(VisitedBodies(frames, n + 1)) /\ Len(types) \in Nat
      /\ \A i \in VisitedBodies(frames, n + 1) :
           types[Cardinality(VisitedBodies(frames, i))] = frames[i].returns
  BY <1>1, LenProperties DEF ReturnsInv
<1>8. \A i \in VisitedBodies(frames, n) :
        /\ i \in VisitedBodies(frames, n + 1) /\ i \in 0..n
        /\ Cardinality(VisitedBodies(frames, i)) \in 1..Cardinality(VisitedBodies(frames, n))
        /\ rest[i] = frames[i]
  <2> SUFFICES ASSUME NEW i \in VisitedBodies(frames, n)
               PROVE  /\ i \in VisitedBodies(frames, n + 1) /\ i \in 0..n
                      /\ Cardinality(VisitedBodies(frames, i))
                           \in 1..Cardinality(VisitedBodies(frames, n))
                      /\ rest[i] = frames[i]
    OBVIOUS
  <2>1. i \in 1..n /\ i \in VisitedBodies(frames, n + 1)
    BY <1>1 DEF VisitedBodies
  <2>2. /\ VisitedBodies(frames, i) \subseteq VisitedBodies(frames, n)
        /\ i \in VisitedBodies(frames, i)
    BY <1>1, <2>1 DEF VisitedBodies
  <2>3. /\ IsFiniteSet(VisitedBodies(frames, i))
        /\ Cardinality(VisitedBodies(frames, i)) \in Nat
        /\ IsFiniteSet(VisitedBodies(frames, n))
        /\ Cardinality(VisitedBodies(frames, n)) \in Nat
    BY <1>1, <2>1, BodiesAreFinite
  <2>4. Cardinality(VisitedBodies(frames, i)) # 0
    BY <2>2, <2>3, FS_EmptySet
  <2>5. Cardinality(VisitedBodies(frames, i)) <= Cardinality(VisitedBodies(frames, n))
    BY <2>2, <2>3, FS_Subset
  <2>6. QED BY <1>1, <2>1, <2>3, <2>4, <2>5
<1>9. CASE ~(IsBody(frame) /\ frame.visited)
  <2>1. Cardinality(VisitedBodies(frames, n + 1)) = Cardinality(VisitedBodies(frames, n))
    BY <1>1, <1>9, OneMoreBody
  <2>2. ReturnsInv(rest, types)
    BY <1>1, <1>2, <1>7, <1>8, <2>1 DEF ReturnsInv
  <2>3. QED BY <1>5, <1>6, <1>9, <2>2 DEF frame, rest
<1>10. CASE IsBody(frame) /\ frame.visited
  <2>1. Cardinality(VisitedBodies(frames, n + 1)) = Cardinality(VisitedBodies(frames, n)) + 1
    BY <1>1, <1>10, OneMoreBody
  <2>2. Cardinality(VisitedBodies(frames, n)) \in Nat
    BY <1>1, BodiesAreFinite
  <2>3. types # <<>>
    BY <1>7, <2>1, <2>2
  <2>4. /\ Len(Front(types)) = Len(types) - 1 /\ Last(types) = types[Len(types)]
        /\ \A i \in 1..(Len(types) - 1) : Front(types)[i] = types[i]
    BY <2>3, FrontProperties, LastProperties
  <2>5. Last(types) = frame.returns
    <3>1. n + 1 \in VisitedBodies(frames, n + 1)
      BY <1>1, <1>10 DEF VisitedBodies
    <3>2. QED BY <1>1, <1>7, <2>4, <3>1
  <2>6. ReturnsInv(rest, Front(types))
    <3>1. Len(Front(types)) = Cardinality(VisitedBodies(rest, n))
      BY <1>1, <1>2, <1>7, <2>1, <2>2, <2>4
    <3>2. ASSUME NEW i \in VisitedBodies(rest, n)
          PROVE  Front(types)[Cardinality(VisitedBodies(rest, i))] = rest[i].returns
      <4>1. i \in VisitedBodies(frames, n)
        BY <1>1, <1>2
      <4>2. /\ types[Cardinality(VisitedBodies(frames, i))] = rest[i].returns
            /\ VisitedBodies(rest, i) = VisitedBodies(frames, i)
        BY <1>2, <1>7, <1>8, <4>1
      <4>3. Cardinality(VisitedBodies(frames, i)) \in 1..(Len(types) - 1)
        BY <1>7, <1>8, <2>1, <2>2, <4>1
      <4>4. QED BY <2>4, <4>2, <4>3
    <3>3. QED BY <1>1, <3>1, <3>2 DEF ReturnsInv
  <2>7. QED BY <1>5, <1>10, <2>3, <2>5, <2>6 DEF frame, rest
<1>11. QED BY <1>9, <1>10 DEF frame, rest

\* The frame on top is changed, but not the body it may be of.
SameBody(frame, before) ==
  /\ IsBody(frame) <=> IsBody(before)
  /\ frame.class = before.class /\ frame.previous = before.previous
  /\ IsBody(frame) => frame.visited = before.visited /\ frame.returns = before.returns
WithinLast(frames) == Front(frames) # <<>> => Last(Front(frames)).visited

LEMMA ReplacedFrame ==
  ASSUME NEW S, NEW frames \in Seq(S), frames # <<>>, NEW frame \in S,
         NEW T, NEW types \in Seq(T), Last(frames).returns \in T, frame.returns \in T, NEW class,
         FramesInv(frames), OwnerInv(frames, class), ReturnsInv(frames, types),
         SameBody(frame, Last(frames)), Sound(frame, WithinLast(frames))
  PROVE  LET new == Append(Front(frames), frame)
         IN  /\ new \in Seq(S) /\ new # <<>> /\ Last(new) = frame /\ Front(new) = Front(frames)
             /\ FramesInv(new) /\ OwnerInv(new, class) /\ ReturnsInv(new, types)
<1> DEFINE rest == Front(frames)
           new == Append(rest, frame)
<1>1. rest \in Seq(S) /\ Last(frames) \in S
  BY FrontProperties, LastProperties
<1>2. FramesInv(rest) /\ (rest # <<>> => Last(rest).kind # "call")
  BY PoppedFrame
<1>3. FramesInv(new)
  BY <1>1, <1>2, PushedFrame DEF WithinLast
<1>4. /\ new \in Seq(S) /\ Len(new) = Len(rest) + 1 /\ Len(rest) \in Nat
      /\ new[Len(rest) + 1] = frame
  BY <1>1, AppendType, LenProperties
<1>5. new # <<>> /\ Last(new) = frame
  <2> HIDE DEF new, rest
  <2>1. Len(new) # 0 /\ Len(new) = Len(rest) + 1
    BY <1>4
  <2>2. QED BY <1>4, <2>1 DEF Last
<1>6. Front(new) = rest
  BY <1>1 DEF Front
<1>7. OwnerInv(new, class) /\ ReturnsInv(new, types)
  <2>1. CASE ~IsBody(frame)
    <3>1. OwnerInv(rest, class) /\ ReturnsInv(rest, types)
      BY <2>1, PoppedBodies DEF SameBody
    <3>2. QED BY <1>1, <2>1, <3>1, PushedBodies
  <2>2. CASE IsBody(frame) /\ ~frame.visited
    <3>1. /\ class = frame.class /\ OwnerInv(rest, frame.previous)
          /\ ReturnsInv(rest, types)
      BY <2>2, PoppedBodies DEF SameBody
    <3>2. QED BY <1>1, <2>2, <3>1, PushedBodies
  <2>3. CASE IsBody(frame) /\ frame.visited
    <3>1. /\ class = frame.class /\ OwnerInv(rest, frame.previous)
          /\ types # <<>> /\ Last(types) = frame.returns /\ ReturnsInv(rest, Front(types))
      BY <2>3, PoppedBodies DEF SameBody
    <3>2. Front(types) \in Seq(T)
      BY <3>1, FrontProperties
    <3>3. OwnerInv(new, frame.class) /\ ReturnsInv(new, Append(Front(types), frame.returns))
      BY <1>1, <2>3, <3>1, <3>2, PushedBodies
    <3>4. Append(Front(types), Last(types)) = types
      BY <3>1 DEF Front, Last
    <3>5. QED BY <3>1, <3>3, <3>4
  <2>4. QED BY <2>1, <2>2, <2>3
<1>8. QED BY <1>3, <1>4, <1>5, <1>6, <1>7

\* What is open, and the owner and the return types that go with it.
WalkInv(n, frames, class, types) ==
  /\ frames \in Seq(FrameSet(n)) /\ types \in Seq(Types \cup {NoType})
  /\ FramesInv(frames) /\ OwnerInv(frames, class) /\ ReturnsInv(frames, types)

\* What Mark makes of the statement that is gone on with.
IsMarked(new, frames, reported) ==
  /\ new = <<>> <=> frames = <<>>
  /\ frames # <<>> =>
       /\ Last(new).kind = Last(frames).kind
       /\ Last(new).visited = Last(frames).visited
       /\ Last(new).reported <=> Last(frames).reported \/ reported
LEMMA MarkedFrames ==
  ASSUME NEW n \in Nat, NEW frames, NEW class, NEW types,
         WalkInv(n, frames, class, types),
         NEW wrong \in BOOLEAN, NEW reported \in BOOLEAN,
         frames # <<>> /\ Last(frames).visited => (wrong <=> reported)
  PROVE  LET new == Mark(frames, wrong, reported)
         IN  /\ WalkInv(n, new, class, types)
             /\ IsMarked(new, frames, reported)
<1> USE DEF WalkInv, IsMarked
<1>1. CASE frames = <<>>
  BY <1>1 DEF Mark
<1>2. CASE frames # <<>>
  <2> DEFINE before == Last(frames)
             frame == [before EXCEPT !.wrong = @ \/ wrong, !.reported = @ \/ reported]
             new == Append(Front(frames), frame)
  <2>1. before \in FrameSet(n)
    BY <1>2, LastProperties
  <2>2. /\ frame \in FrameSet(n)
        /\ frame.kind = before.kind /\ frame.visited = before.visited
        /\ frame.errors = before.errors /\ frame.returns = before.returns
        /\ frame.class = before.class /\ frame.previous = before.previous
        /\ frame.wrong <=> before.wrong \/ wrong
        /\ frame.reported <=> before.reported \/ reported
    BY <2>1 DEF FrameSet
  <2>3. frame.returns \in Types \cup {NoType} /\ before.returns \in Types \cup {NoType}
    BY <2>1, <2>2 DEF FrameSet
  <2> HIDE DEF before, frame
  <2>4. Mark(frames, wrong, reported) = new
    BY <1>2 DEF Mark, before, frame
  <2>5. SameBody(frame, before)
    BY <2>2 DEF SameBody, IsBody
  <2>6. Sound(before, WithinLast(frames))
    BY <1>2, PoppedFrame DEF WithinLast, before
  <2>7. Sound(frame, WithinLast(frames))
    BY <1>2, <2>1, <2>2, <2>6 DEF Sound, before
  <2>8. /\ new \in Seq(FrameSet(n)) /\ new # <<>> /\ Last(new) = frame
        /\ FramesInv(new) /\ OwnerInv(new, class) /\ ReturnsInv(new, types)
    BY <1>2, <2>2, <2>3, <2>5, <2>7, ReplacedFrame DEF before
  <2>9. QED BY <1>2, <2>2, <2>4, <2>8 DEF before
<1>3. QED BY <1>1, <1>2

\* The innermost body is the last one, and its class the owner.
LEMMA InnermostBody ==
  ASSUME NEW S, open \in Seq(S), NEW class, OwnerInv(open, class)
  PROVE  /\ class = LexicalOwner
         /\ Bodies(open) = {i \in 1..Len(open) : IsBody(open[i])}
         /\ Bodies(open) # {} =>
              /\ Innermost(Bodies(open)) \in Bodies(open)
              /\ \A j \in Bodies(open) : j <= Innermost(Bodies(open))
<1>1. DOMAIN open = 1..Len(open) /\ Len(open) \in Nat
  BY LenProperties
<1>2. Bodies(open) = {i \in 1..Len(open) : IsBody(open[i])}
  BY <1>1 DEF Bodies, IsBody
<1>3. HasOwner(open, Len(open), class)
  BY DEF OwnerInv
<1>4. CASE class = 0 /\ \A i \in 1..Len(open) : ~IsBody(open[i])
  BY <1>2, <1>4 DEF LexicalOwner
<1>5. CASE \E i \in 1..Len(open) : /\ IsBody(open[i]) /\ class = open[i].class
                                   /\ \A j \in (i + 1)..Len(open) : ~IsBody(open[j])
  <2>1. PICK i \in 1..Len(open) : /\ IsBody(open[i]) /\ class = open[i].class
                                  /\ \A j \in (i + 1)..Len(open) : ~IsBody(open[j])
    BY <1>5
  <2>2. i \in Bodies(open) /\ \A j \in Bodies(open) : j <= i
    BY <1>1, <1>2, <2>1
  <2>3. Innermost(Bodies(open)) = i
    <3>1. \A k \in Bodies(open) : (\A j \in Bodies(open) : j <= k) => k = i
      BY <1>1, <1>2, <2>2
    <3>2. QED BY <2>2, <3>1 DEF Innermost
  <2>4. QED BY <1>2, <2>1, <2>2, <2>3 DEF LexicalOwner
<1>6. QED BY <1>3, <1>4, <1>5 DEF HasOwner

-----------------------------------------------------------------------------
(* Statements without statements of their own *)

LEMMA VisitIsClean == Visit \in Clean /\ Visit.errors = 0
  BY DEF Visit, Clean, Check, NoType

LEMMA InnermostVisited ==
  ASSUME IInv, Visited
  PROVE  Bodies(open) = VisitedBodies(open, Len(open))
<1>1. Len(open) \in Nat /\ (open # <<>> => Last(open) = open[Len(open)] /\ Len(open) # 0)
  BY LenProperties, LastProperties DEF IInv, TypeInv
<1>2. \A i \in 1..Len(open) : open[i].visited
  <2> SUFFICES ASSUME NEW i \in 1..Len(open) PROVE open[i].visited
    OBVIOUS
  <2>1. open # <<>>
    BY <1>1
  <2>2. Len(open) \in 1..Len(open) /\ open[Len(open)].visited
    BY <1>1, <2>1 DEF Visited
  <2>3. QED BY <1>1, <2>2 DEF IInv, FramesInv
<1>3. Bodies(open) = {i \in 1..Len(open) : IsBody(open[i])}
  BY InnermostBody DEF IInv, TypeInv
<1>4. QED BY <1>2, <1>3 DEF VisitedBodies

\* A return statement is compared with the top of function_return_type_stack_, which is the
\* return type of the body it is in.
LEMMA ReturnIsChecked ==
  ASSUME IInv, Visited, NEW e \in Expressions \cup {None}
  PROVE  Reports(Visit, WrongReturn(e), VisitReturn(Visit, e))
<1> DEFINE at == Innermost(Bodies(open))
<1>1. Bodies(open) = VisitedBodies(open, Len(open))
  BY InnermostVisited
<1>2. /\ Len(returnTypes) = Cardinality(Bodies(open))
      /\ \A i \in Bodies(open) :
           returnTypes[Cardinality(VisitedBodies(open, i))] = open[i].returns
      /\ Len(open) \in Nat
  BY <1>1, LenProperties DEF IInv, TypeInv, ReturnsInv
<1>3. IsFiniteSet(Bodies(open)) /\ Cardinality(Bodies(open)) \in Nat
  BY <1>1, <1>2, BodiesAreFinite
<1>4. CASE Bodies(open) = {}
  <2>1. returnTypes = <<>>
    BY <1>2, <1>3, <1>4, FS_EmptySet DEF IInv, TypeInv
  <2>2. QED BY <1>4, <2>1, VisitIsClean, ErrorIsReported DEF WrongReturn, VisitReturn
<1>5. CASE Bodies(open) # {}
  <2>1. at \in Bodies(open) /\ \A j \in Bodies(open) : j <= at
    BY <1>5, InnermostBody DEF IInv, TypeInv
  <2>2. VisitedBodies(open, at) = Bodies(open)
    <3> HIDE DEF at
    <3>1. at \in 1..Len(open)
      BY <1>1, <2>1 DEF VisitedBodies
    <3>2. \A i \in 1..Len(open) : IsBody(open[i]) /\ open[i].visited => i <= at
      BY <1>1, <2>1 DEF VisitedBodies
    <3>3. VisitedBodies(open, at) = VisitedBodies(open, Len(open))
      BY <1>2, <3>1, <3>2 DEF VisitedBodies
    <3>4. QED BY <1>1, <3>3
  <2>3. returnTypes[Len(returnTypes)] = open[at].returns
    BY <1>2, <2>1, <2>2
  <2>4. returnTypes # <<>> /\ Last(returnTypes) = open[at].returns
    <3>1. Len(returnTypes) # 0
      BY <1>2, <1>3, <1>5, FS_EmptySet
    <3>2. QED BY <2>3, <3>1 DEF Last
  <2> DEFINE type == Last(returnTypes)
             wrong == IF type = NoType THEN e # None ELSE e = None \/ ~Fits(type, e)
  <2>5. WrongReturn(e) <=> wrong
    BY <1>5, <2>4 DEF WrongReturn
  <2>6. CASE type = NoType
    <3>1. VisitReturn(Visit, e) = ReportIf(e # None, Visit)
      BY <2>4, <2>6 DEF VisitReturn
    <3>2. QED BY <2>5, <2>6, <3>1, VisitIsClean, ErrorIsReported DEF Reports
  <2>7. CASE type # NoType /\ e = None
    <3>1. VisitReturn(Visit, e) = ReportCodeError(Visit)
      BY <2>4, <2>7 DEF VisitReturn
    <3>2. QED BY <2>5, <2>7, <3>1, VisitIsClean, ErrorIsReported DEF Reports
  <2>8. CASE type # NoType /\ e # None
    <3>1. VisitReturn(Visit, e) = RequireAssignable(Visit, type, e)
      BY <2>4, <2>8 DEF VisitReturn
    <3>2. e \in Expressions
      BY <2>8
    <3>3. Reports(Visit, ~Fits(type, e), VisitReturn(Visit, e))
      BY <3>1, <3>2, VisitIsClean, AssignableIsChecked
    <3>4. QED BY <2>5, <2>8, <3>3 DEF Reports
  <2>9. QED BY <2>6, <2>7, <2>8
<1>6. QED BY <1>4, <1>5

LEMMA DeclarationIsChecked ==
  ASSUME NEW visible \in BOOLEAN, NEW type \in Types, NEW e \in Expressions \cup {None}
  PROVE  Reports(Visit, ~visible \/ (e # None /\ ~Fits(type, e)),
                 VisitDeclaration(Visit, visible, type, e))
<1> DEFINE valid == ValidateTypeReferences(Visit, visible)
<1>1. Reports(Visit, ~visible, valid) /\ (visible => valid = Visit)
  BY VisitIsClean, ErrorIsReported DEF ValidateTypeReferences
<1>2. CASE ~visible
  BY <1>1, <1>2 DEF VisitDeclaration, Reports
<1>3. CASE visible /\ e = None
  BY <1>1, <1>3 DEF VisitDeclaration, Reports
<1>4. CASE visible /\ e # None
  <2>1. VisitDeclaration(Visit, visible, type, e) = RequireAssignable(Visit, type, e)
    BY <1>1, <1>4, VisitIsClean DEF VisitDeclaration, Clean
  <2>2. e \in Expressions
    BY <1>4
  <2>3. Reports(Visit, ~Fits(type, e), RequireAssignable(Visit, type, e))
    BY <2>2, VisitIsClean, AssignableIsChecked
  <2>4. QED BY <1>4, <2>1, <2>3 DEF Reports
<1>5. QED BY <1>2, <1>3, <1>4

\* What no action changes but the one it is about.
Elsewhere ==
  /\ statements' \in 0..MaxStatements /\ statements' \in {statements, statements + 1}
  /\ denied' \in BOOLEAN /\ forbidden' \in BOOLEAN /\ (denied' <=> forbidden')

\* A statement of which the type checker reports what is wrong, if it visits it.
LEMMA DoneKeeps ==
  ASSUME IInv, open # <<>> => Last(open).kind # "call",
         NEW wrong \in BOOLEAN, NEW c, Visited => Reports(Visit, wrong, c), Done(wrong, c),
         Elsewhere, UNCHANGED <<classes, returnTypes, owner>>
  PROVE  IInv'
<1> DEFINE reported == Errors(c) > 0
<1>1. /\ classes \in Nat /\ Visited \in BOOLEAN /\ recovering \in BOOLEAN
      /\ WalkInv(classes, open, owner, returnTypes)
  BY DEF IInv, TypeInv, Visited, FramesInv, LastSet, FrameSet, WalkInv
<1>2. /\ Errors(c) \in {0, 1} /\ (Visited => (wrong <=> reported))
      /\ recovering' \in BOOLEAN /\ (Visited => (recovering' <=> wrong))
  BY <1>1, VisitIsClean DEF Errors, Reports, Check, Done, Checked
<1>3. /\ WalkInv(classes, open', owner, returnTypes)
      /\ IsMarked(open', open, reported)
  <2>1. CASE reported
    <3>1. open' = Mark(open, wrong, TRUE)
      BY <2>1 DEF Done
    <3>2. open # <<>> /\ Last(open).visited => wrong
      BY <1>2, <2>1 DEF Visited
    <3>3. reported = TRUE
      BY <2>1
    <3>4. WalkInv(classes, open', owner, returnTypes) /\ IsMarked(open', open, TRUE)
      BY <1>1, <3>1, <3>2, MarkedFrames
    <3>5. QED BY <3>3, <3>4, Zenon
  <2>2. CASE ~reported
    <3>1. open' = Mark(open, wrong, FALSE)
      <4>1. open' = Mark(open, wrong, reported)
        BY DEF Done
      <4>2. reported = FALSE
        BY <2>2
      <4>3. QED BY <4>1, <4>2, Zenon
    <3>2. open # <<>> /\ Last(open).visited => ~wrong
      BY <1>2, <2>2 DEF Visited
    <3>3. reported = FALSE
      BY <2>2
    <3>4. WalkInv(classes, open', owner, returnTypes) /\ IsMarked(open', open, FALSE)
      BY <1>1, <3>1, <3>2, MarkedFrames
    <3>5. QED BY <3>3, <3>4, Zenon
  <2>3. QED BY <2>1, <2>2
<1>4. /\ last' \in LastSet /\ last'.errors <= 1
      /\ last'.visited => (last'.wrong <=> last'.errors > 0)
  BY <1>1, <1>2 DEF Done, LastSet
<1>5. TypeInv'
  BY <1>1, <1>2, <1>3, <1>4 DEF TypeInv, IInv, Elsewhere, WalkInv
<1>6. ErrorsInv'
  BY <1>2, <1>3, <1>4 DEF ErrorsInv, Visited, IsMarked
<1>7. QED BY <1>3, <1>5, <1>6 DEF IInv, Elsewhere, AccessInOwnMethods, WalkInv

LEMMA StatementsAreCounted ==
  ASSUME IInv, Count, UNCHANGED <<denied, forbidden>>
  PROVE  Elsewhere
  BY ChecksAssumption DEF IInv, TypeInv, Count, Elsewhere, AccessInOwnMethods

LEMMA NotInCall ==
  ASSUME InStatements \/ InClass
  PROVE  open # <<>> => Last(open).kind # "call"
  BY DEF InStatements, InClass

LEMMA SimpleStatements ==
  ASSUME IInv,
         \/ DeclarationStatement \/ AssignmentStatement \/ PrintStatement \/ DeleteStatement
         \/ ReturnStatement \/ ExpressionStatement
  PROVE  IInv'
<1>1. Simple
  BY DEF DeclarationStatement, AssignmentStatement, PrintStatement, DeleteStatement,
         ReturnStatement, ExpressionStatement
<1>2. /\ Elsewhere /\ UNCHANGED <<classes, returnTypes, owner>>
      /\ open # <<>> => Last(open).kind # "call"
  BY <1>1, StatementsAreCounted, NotInCall DEF Simple, Statement, accessVars
<1>3. CASE DeclarationStatement
  <2>1. PICK visible \in BOOLEAN, type \in Types, e \in Expressions \cup {None} :
          Done(~visible \/ (e # None /\ ~Fits(type, e)),
               VisitDeclaration(Visit, visible, type, e))
    BY <1>3 DEF DeclarationStatement
  <2>2. QED BY <1>2, <2>1, DeclarationIsChecked, DoneKeeps
<1>4. CASE AssignmentStatement
  <2>1. PICK type \in Types, e \in Expressions :
          Done(~Fits(type, e), VisitAssignment(Visit, type, e))
    BY <1>4 DEF AssignmentStatement
  <2>2. Reports(Visit, ~Fits(type, e), VisitAssignment(Visit, type, e))
    BY VisitIsClean, AssignableIsChecked DEF VisitAssignment
  <2>3. QED BY <1>2, <2>1, <2>2, DoneKeeps
<1>5. CASE PrintStatement
  <2>1. PICK e \in Expressions : Done(TypeOf(e) \notin Types, RequireValueType(Visit, e))
    BY <1>5 DEF PrintStatement
  <2>2. Reports(Visit, TypeOf(e) \notin Types, RequireValueType(Visit, e))
    BY VisitIsClean, ValueIsChecked
  <2>3. QED BY <1>2, <2>1, <2>2, DoneKeeps
<1>6. CASE DeleteStatement
  <2>1. PICK target : Done(target \notin ClassesOf, VisitDelete(Visit, target))
    BY <1>6 DEF DeleteStatement
  <2>2. Reports(Visit, target \notin ClassesOf, VisitDelete(Visit, target))
    BY VisitIsClean, ErrorIsReported DEF VisitDelete
  <2>3. QED BY <1>2, <2>1, <2>2, DoneKeeps
<1>7. CASE ReturnStatement
  <2>1. PICK e \in Expressions \cup {None} : Done(WrongReturn(e), VisitReturn(Visit, e))
    BY <1>7 DEF ReturnStatement
  <2>2. WrongReturn(e) \in BOOLEAN
    BY DEF WrongReturn
  <2>3. QED BY <1>2, <2>1, <2>2, ReturnIsChecked, DoneKeeps
<1>8. CASE ExpressionStatement
  <2>1. PICK e \in Expressions : Done(TypeOf(e) = "wrong", EvaluateExpressionType(Visit, e))
    BY <1>8 DEF ExpressionStatement
  <2>2. Reports(Visit, TypeOf(e) = "wrong", EvaluateExpressionType(Visit, e))
    BY VisitIsClean, ExpressionIsChecked
  <2>3. QED BY <1>2, <2>1, <2>2, DoneKeeps
<1>9. QED BY <1>3, <1>4, <1>5, <1>6, <1>7, <1>8

LEMMA FieldKeeps ==
  ASSUME IInv, Field
  PROVE  IInv'
<1>1. /\ Elsewhere /\ UNCHANGED <<classes, returnTypes, owner>>
      /\ open # <<>> => Last(open).kind # "call"
  BY StatementsAreCounted, NotInCall DEF Field, accessVars
<1>2. PICK visible \in BOOLEAN, type \in Types, e \in Expressions \cup {None} :
        Done(~visible \/ (e # None /\ ~Fits(type, e)),
             VisitDeclaration(Visit, visible, type, e))
  BY DEF Field
<1>3. QED BY <1>1, <1>2, DeclarationIsChecked, DoneKeeps

\* An access is denied outside the methods of the class, wherever it is.
LEMMA AccessKeeps ==
  ASSUME IInv, FieldAccess \/ FieldAccessInField
  PROVE  IInv'
<1>1. /\ Count /\ Done(FALSE, Visit) /\ UNCHANGED <<returnTypes, classes>>
      /\ open # <<>> => Last(open).kind # "call"
  BY NotInCall DEF FieldAccess, FieldAccessInField, Statement
<1>2. PICK class \in 1..classes : /\ CheckFieldAccess(class)
                                  /\ forbidden' = (forbidden \/ LexicalOwner # class)
  BY DEF FieldAccess, FieldAccessInField
<1>3. owner = LexicalOwner /\ class # 0
  BY InnermostBody DEF IInv, TypeInv
<1>4. /\ denied' = (denied \/ owner # class) /\ UNCHANGED owner
      /\ forbidden' = (forbidden \/ owner # class)
  BY <1>2, <1>3 DEF CheckFieldAccess
<1>5. Elsewhere
  BY <1>1, <1>4, ChecksAssumption
     DEF IInv, TypeInv, Count, Elsewhere, AccessInOwnMethods
<1>6. Reports(Visit, FALSE, Visit)
  BY VisitIsClean DEF Reports, Clean
<1>7. QED BY <1>1, <1>4, <1>5, <1>6, DoneKeeps

-----------------------------------------------------------------------------
(* Frames that are opened, changed and closed *)

LEMMA MoreClasses ==
  ASSUME NEW n \in Nat, NEW m \in Nat, n <= m, NEW frames \in Seq(FrameSet(n))
  PROVE  frames \in Seq(FrameSet(m))
<1>1. 0..n \subseteq 0..m
  OBVIOUS
<1>2. FrameSet(n) \subseteq FrameSet(m)
  BY <1>1 DEF FrameSet
<1>3. QED BY <1>2

\* What a frame on top says of the last report.
TopInv(frame, silent) ==
  /\ frame.visited /\ silent => frame.reported
  /\ frame.kind = "call" => CallInv(frame, silent)

LEMMA OpenKeeps ==
  ASSUME IInv, open # <<>> => Last(open).kind # "call",
         Elsewhere, classes' \in {classes, classes + 1}, classes' <= statements',
         NEW frame \in FrameSet(classes'), Open(frame),
         Sound(frame, Visited), recovering' \in BOOLEAN, TopInv(frame, recovering'),
         UNCHANGED last,
         ~IsBody(frame) => UNCHANGED <<owner, returnTypes>>,
         IsBody(frame) =>
           /\ frame.previous = owner /\ owner' = frame.class
           /\ returnTypes' = IF frame.visited THEN Append(returnTypes, frame.returns)
                                              ELSE returnTypes
  PROVE  IInv'
<1>1. /\ open \in Seq(FrameSet(classes)) /\ classes \in Nat /\ statements \in Nat
      /\ returnTypes \in Seq(Types \cup {NoType})
      /\ FramesInv(open) /\ OwnerInv(open, owner) /\ ReturnsInv(open, returnTypes)
  BY DEF IInv, TypeInv
<1>2. classes' \in Nat /\ open \in Seq(FrameSet(classes'))
  BY <1>1, MoreClasses
<1>3. /\ frame.returns \in Types \cup {NoType} /\ frame.class \in 0..classes'
      /\ frame.visited \in BOOLEAN
  BY DEF FrameSet
<1>4. /\ open' = Append(open, frame) /\ open' \in Seq(FrameSet(classes'))
      /\ open' # <<>> /\ Last(open') = frame
  BY <1>2, AppendType, LenProperties DEF Open, Last
<1>5. FramesInv(open')
  BY <1>1, <1>2, <1>4, PushedFrame DEF Visited
<1>6. OwnerInv(open', owner') /\ ReturnsInv(open', returnTypes')
  BY <1>1, <1>2, <1>3, <1>4, PushedBodies
<1>7. owner' \in 0..classes' /\ returnTypes' \in Seq(Types \cup {NoType})
  <2>1. owner \in 0..classes'
    BY <1>1, <1>2 DEF IInv, TypeInv
  <2>2. Append(returnTypes, frame.returns) \in Seq(Types \cup {NoType})
    BY <1>1, <1>3, AppendType
  <2>3. QED BY <1>1, <1>3, <2>1, <2>2
<1>8. TypeInv'
  BY <1>2, <1>4, <1>7 DEF IInv, TypeInv, Elsewhere
<1>9. ErrorsInv'
  BY <1>4 DEF IInv, ErrorsInv, TopInv
<1>10. QED BY <1>5, <1>6, <1>8, <1>9 DEF IInv, Elsewhere, AccessInOwnMethods

LEMMA ChangeKeeps ==
  ASSUME IInv, open # <<>>, Elsewhere,
         NEW frame \in FrameSet(classes), open' = Append(Front(open), frame),
         SameBody(frame, Last(open)), Sound(frame, WithinLast(open)),
         recovering' \in BOOLEAN, TopInv(frame, recovering'),
         UNCHANGED <<last, classes, owner, returnTypes>>
  PROVE  IInv'
<1>1. /\ open \in Seq(FrameSet(classes)) /\ Last(open) \in FrameSet(classes)
      /\ returnTypes \in Seq(Types \cup {NoType})
      /\ FramesInv(open) /\ OwnerInv(open, owner) /\ ReturnsInv(open, returnTypes)
  BY LastProperties DEF IInv, TypeInv
<1>2. frame.returns \in Types \cup {NoType} /\ Last(open).returns \in Types \cup {NoType}
  BY <1>1 DEF FrameSet
<1>3. /\ open' \in Seq(FrameSet(classes)) /\ open' # <<>> /\ Last(open') = frame
      /\ FramesInv(open') /\ OwnerInv(open', owner) /\ ReturnsInv(open', returnTypes)
  BY <1>1, <1>2, ReplacedFrame
<1>4. TypeInv'
  BY <1>3 DEF IInv, TypeInv, Elsewhere
<1>5. ErrorsInv'
  BY <1>3 DEF IInv, ErrorsInv, TopInv
<1>6. QED BY <1>3, <1>4, <1>5 DEF IInv, Elsewhere, AccessInOwnMethods

\* The end of whatever is open, a call or not.
CloseBody(frame) ==
  /\ ~IsBody(frame) => UNCHANGED <<owner, returnTypes>>
  /\ IsBody(frame) =>
       /\ owner' = frame.previous
       /\ returnTypes' = IF frame.visited THEN Front(returnTypes) ELSE returnTypes

LEMMA CloseKeeps ==
  ASSUME IInv, open # <<>>, Elsewhere,
         open' = Mark(Front(open), Last(open).wrong, Last(open).reported),
         CloseBody(Last(open)),
         last' \in LastSet, last'.errors <= 1,
         last'.visited => (last'.wrong <=> last'.errors > 0),
         UNCHANGED <<recovering, classes>>
  PROVE  IInv'
<1> DEFINE frame == Last(open)
           rest == Front(open)
<1>1. /\ open \in Seq(FrameSet(classes)) /\ frame \in FrameSet(classes)
      /\ rest \in Seq(FrameSet(classes)) /\ classes \in Nat
      /\ returnTypes \in Seq(Types \cup {NoType})
      /\ FramesInv(open) /\ OwnerInv(open, owner) /\ ReturnsInv(open, returnTypes)
  BY LastProperties, FrontProperties DEF IInv, TypeInv
<1>2. /\ frame.wrong \in BOOLEAN /\ frame.reported \in BOOLEAN
      /\ frame.previous \in 0..classes
  BY <1>1 DEF FrameSet
<1>3. /\ FramesInv(rest) /\ Sound(frame, WithinLast(open))
      /\ rest # <<>> => Last(rest).kind # "call"
  BY <1>1, PoppedFrame DEF WithinLast
<1>4. OwnerInv(rest, owner') /\ ReturnsInv(rest, returnTypes')
  BY <1>1, PoppedBodies DEF CloseBody
<1>5. owner' \in 0..classes /\ returnTypes' \in Seq(Types \cup {NoType})
  <2>1. CASE ~IsBody(frame)
    BY <1>1, <2>1 DEF CloseBody, IInv, TypeInv
  <2>2. CASE IsBody(frame) /\ ~frame.visited
    BY <1>1, <1>2, <2>2 DEF CloseBody
  <2>3. CASE IsBody(frame) /\ frame.visited
    <3>1. returnTypes # <<>>
      BY <1>1, <2>3, PoppedBodies
    <3>2. QED BY <1>1, <1>2, <2>3, <3>1, FrontProperties DEF CloseBody
  <2>4. QED BY <2>1, <2>2, <2>3
<1>6. WalkInv(classes, rest, owner', returnTypes')
  BY <1>1, <1>3, <1>4, <1>5 DEF WalkInv
<1>7. rest # <<>> /\ Last(rest).visited => (frame.wrong <=> frame.reported)
  BY <1>3 DEF Sound, WithinLast
<1>8. /\ WalkInv(classes, open', owner', returnTypes')
      /\ IsMarked(open', rest, frame.reported)
  <2>1. CASE frame.reported = TRUE
    BY <1>1, <1>2, <1>6, <1>7, MarkedFrames
  <2>2. CASE frame.reported = FALSE
    BY <1>1, <1>2, <1>6, <1>7, MarkedFrames
  <2>3. QED BY <1>2, <2>1, <2>2
<1>9. TypeInv'
  BY <1>5, <1>8 DEF IInv, TypeInv, Elsewhere, WalkInv
<1>10. open' # <<>> /\ Last(open').visited /\ recovering => Last(open').reported
  <2> SUFFICES ASSUME open' # <<>>, Last(open').visited, recovering PROVE Last(open').reported
    OBVIOUS
  <2>1. rest # <<>> /\ Last(rest).visited
    BY <1>8 DEF IsMarked
  <2>2. frame.reported
    <3>1. CASE frame.visited
      BY <3>1 DEF IInv, ErrorsInv
    <3>2. CASE ~frame.visited
      BY <1>3, <2>1, <3>2 DEF Sound, WithinLast
    <3>3. QED BY <3>1, <3>2
  <2>3. QED BY <1>8, <2>1, <2>2 DEF IsMarked
<1>11. open' # <<>> => Last(open').kind # "call"
  BY <1>3, <1>8 DEF IsMarked
<1>12. ErrorsInv'
  BY <1>10, <1>11 DEF ErrorsInv
<1>13. QED BY <1>8, <1>9, <1>12 DEF IInv, Elsewhere, AccessInOwnMethods, WalkInv

-----------------------------------------------------------------------------
(* Blocks, ifs, functions and classes *)

LEMMA NewFrame ==
  ASSUME NEW n \in Nat, NEW kind \in Kinds, NEW visited \in BOOLEAN, NEW wrong \in BOOLEAN,
         NEW errors \in Nat
  PROVE  Frame(kind, visited, wrong, errors) \in FrameSet(n)
  BY DEF Frame, FrameSet, NoType, CallArgumentsCheckState, LoopStates

LEMMA NewReported ==
  ASSUME NEW kind, NEW visited, NEW wrong, NEW errors
  PROVE  Frame(kind, visited, wrong, errors).reported <=> errors > 0
  BY DEF Frame

LEMMA VisitedIsBoolean == IInv => Visited \in BOOLEAN
  BY DEF Visited

LEMMA BlockKeeps ==
  ASSUME IInv, Block
  PROVE  IInv'
<1> DEFINE frame == Frame("block", Visited, FALSE, 0)
<1>1. /\ Elsewhere /\ UNCHANGED <<classes, returnTypes, owner, last>> /\ Open(frame)
      /\ open # <<>> => Last(open).kind # "call"
      /\ Checked(Visit) /\ classes <= statements' /\ classes \in Nat
  <2>1. Elsewhere
    BY StatementsAreCounted DEF Block, Statement, accessVars
  <2>2. open # <<>> => Last(open).kind # "call"
    BY NotInCall DEF Block, Statement
  <2>3. classes <= statements' /\ classes \in Nat
    BY DEF Block, Statement, Count, IInv, TypeInv
  <2>4. QED BY <2>1, <2>2, <2>3 DEF Block, accessVars
<1>2. Visited \in BOOLEAN
  BY VisitedIsBoolean
<1>3. /\ frame \in FrameSet(classes) /\ frame.kind = "block" /\ (frame.visited <=> Visited)
      /\ frame.errors = 0 /\ ~frame.wrong /\ ~frame.reported
  <2>1. frame \in FrameSet(classes)
    BY <1>1, <1>2, NewFrame DEF Kinds
  <2>2. frame.kind = "block" /\ frame.errors = 0 /\ (frame.visited <=> Visited)
    BY DEF Frame
  <2>3. ~frame.wrong
    BY DEF Frame
  <2>4. ~frame.reported
    <3>1. frame.reported <=> 0 > 0
      BY NewReported, Zenon
    <3> HIDE DEF frame
    <3>2. QED BY <3>1
  <2>5. QED BY <2>1, <2>2, <2>3, <2>4
<1>4. recovering' \in BOOLEAN /\ (Visited => ~recovering')
  BY <1>1, <1>2 DEF Checked, Visit, IInv, TypeInv
<1> HIDE DEF frame
<1>5. Sound(frame, Visited) /\ TopInv(frame, recovering') /\ ~IsBody(frame)
  BY <1>3, <1>4 DEF Sound, TopInv, IsBody
<1>6. QED BY <1>1, <1>3, <1>4, <1>5, OpenKeeps

LEMMA IfKeeps ==
  ASSUME IInv, If
  PROVE  IInv'
<1>1. /\ Elsewhere /\ UNCHANGED <<classes, returnTypes, owner, last>>
      /\ open # <<>> => Last(open).kind # "call"
      /\ classes <= statements' /\ classes \in Nat
  <2>1. Elsewhere
    BY StatementsAreCounted DEF If, Statement, accessVars
  <2>2. open # <<>> => Last(open).kind # "call"
    BY NotInCall DEF If, Statement
  <2>3. classes <= statements' /\ classes \in Nat
    BY DEF If, Statement, Count, IInv, TypeInv
  <2>4. QED BY <2>1, <2>2, <2>3 DEF If, accessVars
<1>2. PICK e \in Expressions :
        LET c == VisitCondition(Visit, e)
        IN  /\ Open(Frame("then", Visited /\ c.errors = 0, TypeOf(e) # "bool", Errors(c)))
            /\ Checked(c)
  BY DEF If
<1> DEFINE c == VisitCondition(Visit, e)
           frame == Frame("then", Visited /\ c.errors = 0, TypeOf(e) # "bool", Errors(c))
<1>3. Reports(Visit, TypeOf(e) # "bool", c)
  BY VisitIsClean, ConditionIsChecked
<1>4. /\ Visited \in BOOLEAN /\ Errors(c) \in {0, 1} /\ (Visited => Errors(c) = c.errors)
      /\ (Visited => (recovering' <=> c.errors = 1)) /\ recovering' \in BOOLEAN
      /\ c.errors = IF TypeOf(e) # "bool" THEN 1 ELSE 0
  BY <1>2, <1>3, VisitIsClean, VisitedIsBoolean
     DEF Errors, Checked, Reports, Check, IInv, TypeInv
<1>5. /\ frame \in FrameSet(classes) /\ frame.kind = "then"
      /\ frame.visited <=> Visited /\ c.errors = 0
      /\ frame.errors = Errors(c)
      /\ frame.wrong <=> TypeOf(e) # "bool"
      /\ frame.reported <=> Errors(c) > 0
  <2> HIDE DEF c
  <2>1. frame \in FrameSet(classes)
    BY <1>1, <1>4, NewFrame DEF Kinds
  <2>2. QED BY <2>1 DEF Frame
<1>6. Open(frame)
  BY <1>2
<1> HIDE DEF frame, c
<1>7. Sound(frame, Visited) /\ TopInv(frame, recovering') /\ ~IsBody(frame)
  BY <1>4, <1>5 DEF Sound, TopInv, IsBody
<1>8. QED BY <1>1, <1>4, <1>5, <1>6, <1>7, OpenKeeps

LEMMA ElseBlockKeeps ==
  ASSUME IInv, ElseBlock
  PROVE  IInv'
<1> DEFINE before == Last(open)
           frame == [before EXCEPT !.kind = "else", !.visited = VisitsElse(before)]
<1>1. /\ open # <<>> /\ before.kind = "then" /\ open' = Append(Front(open), frame)
      /\ UNCHANGED <<last, classes, owner, returnTypes, recovering>> /\ Elsewhere
  BY DEF ElseBlock, checkerVars, accessVars, Elsewhere, IInv, TypeInv, AccessInOwnMethods
<1>2. /\ before \in FrameSet(classes) /\ recovering \in BOOLEAN
      /\ Sound(before, WithinLast(open))
      /\ before.visited /\ recovering => before.reported
  BY <1>1, LastProperties, PoppedFrame DEF IInv, TypeInv, ErrorsInv, WithinLast
<1>3. VisitsElse(before) \in BOOLEAN /\ (VisitsElse(before) <=> before.visited /\ ~recovering)
  BY DEF VisitsElse
<1> HIDE DEF before
<1>4. /\ frame \in FrameSet(classes) /\ frame.kind = "else"
      /\ frame.visited <=> before.visited /\ ~recovering
      /\ frame.wrong = before.wrong /\ frame.reported = before.reported
      /\ frame.errors = before.errors
      /\ frame.class = before.class /\ frame.previous = before.previous
  BY <1>2, <1>3 DEF FrameSet, Kinds
<1> HIDE DEF frame
<1>5. SameBody(frame, before)
  BY <1>1, <1>4 DEF SameBody, IsBody
<1>6. Sound(frame, WithinLast(open)) /\ TopInv(frame, recovering')
  <2>1. before.wrong \in BOOLEAN /\ before.reported \in BOOLEAN
    BY <1>2 DEF FrameSet
  <2>2. QED BY <1>1, <1>2, <1>4, <2>1 DEF Sound, TopInv
<1>7. QED BY <1>1, <1>2, <1>4, <1>5, <1>6, ChangeKeeps DEF before

LEMMA ElseIfKeeps ==
  ASSUME IInv, ElseIf
  PROVE  IInv'
<1> DEFINE before == Last(open)
           visits == VisitsElse(before)
<1>1. /\ open # <<>> /\ before.kind = "then"
      /\ UNCHANGED <<last, classes, owner, returnTypes>> /\ Elsewhere
  BY StatementsAreCounted DEF ElseIf, accessVars
<1>2. PICK e \in Expressions :
        LET after == VisitCondition(Resume, e)
            reports == IF visits THEN after.errors ELSE 0
        IN  /\ open' = Append(Front(open),
                 [before EXCEPT !.visited = visits /\ reports = 0,
                                !.errors = @ + reports,
                                !.wrong = @ \/ TypeOf(e) # "bool",
                                !.reported = @ \/ reports > 0])
            /\ recovering' = IF visits THEN after.recovering ELSE recovering
  BY DEF ElseIf
<1> DEFINE after == VisitCondition(Resume, e)
           reports == IF visits THEN after.errors ELSE 0
           frame == [before EXCEPT !.visited = visits /\ reports = 0,
                                   !.errors = @ + reports,
                                   !.wrong = @ \/ TypeOf(e) # "bool",
                                   !.reported = @ \/ reports > 0]
<1>3. /\ before \in FrameSet(classes) /\ recovering \in BOOLEAN
      /\ Sound(before, WithinLast(open))
      /\ before.visited /\ recovering => before.reported
  BY <1>1, LastProperties, PoppedFrame DEF IInv, TypeInv, ErrorsInv, WithinLast
<1>4. /\ visits <=> before.visited /\ ~recovering
      /\ visits => Resume \in Clean /\ Resume.errors = 0
  BY <1>3 DEF VisitsElse, Resume, Clean, Check, NoType
<1>5. /\ reports \in {0, 1} /\ recovering' \in BOOLEAN
      /\ visits => (reports = 1 <=> TypeOf(e) # "bool") /\ (recovering' <=> reports = 1)
      /\ ~visits => reports = 0 /\ recovering' = recovering
  <2>1. CASE visits
    <3>1. Reports(Resume, TypeOf(e) # "bool", after)
      BY <1>4, <2>1, ConditionIsChecked
    <3>2. QED BY <1>2, <1>4, <2>1, <3>1 DEF Reports, Check
  <2>2. CASE ~visits
    BY <1>2, <1>3, <2>2
  <2>3. QED BY <2>1, <2>2
<1>6. open' = Append(Front(open), frame)
  BY <1>2
<1> HIDE DEF before, reports, visits
<1>7. /\ frame \in FrameSet(classes) /\ frame.kind = before.kind
      /\ frame.visited <=> visits /\ reports = 0
      /\ frame.wrong <=> before.wrong \/ TypeOf(e) # "bool"
      /\ frame.reported <=> before.reported \/ reports > 0
      /\ frame.errors = before.errors + reports
      /\ frame.class = before.class /\ frame.previous = before.previous
  <2> DEFINE visited == visits /\ reports = 0
             reported == before.reported \/ reports > 0
             wrong == before.wrong \/ TypeOf(e) # "bool"
  <2>1. /\ frame = [before EXCEPT !.visited = visited, !.errors = before.errors + reports,
                                  !.wrong = wrong, !.reported = reported]
        /\ visited \in BOOLEAN /\ reported \in BOOLEAN /\ wrong \in BOOLEAN
        /\ before.errors + reports \in Nat
    BY <1>3, <1>5 DEF FrameSet
  <2>2. /\ visited <=> visits /\ reports = 0
        /\ wrong <=> before.wrong \/ TypeOf(e) # "bool"
        /\ reported <=> before.reported \/ reports > 0
    OBVIOUS
  <2> HIDE DEF visited, reported, wrong, frame
  <2>3. QED BY <1>3, <2>1, <2>2 DEF FrameSet
<1> HIDE DEF frame
<1>8. SameBody(frame, before)
  BY <1>1, <1>7 DEF SameBody, IsBody, before
<1>9. Sound(frame, WithinLast(open)) /\ TopInv(frame, recovering')
  <2>1. before.wrong \in BOOLEAN /\ before.reported \in BOOLEAN /\ before.errors \in Nat
    BY <1>3 DEF FrameSet
  <2>2. before.kind = "then"
    BY <1>1 DEF before
  <2>3. QED BY <1>3, <1>4, <1>5, <1>7, <2>1, <2>2 DEF Sound, TopInv
<1>10. QED BY <1>1, <1>3, <1>5, <1>6, <1>7, <1>8, <1>9, ChangeKeeps DEF before

LEMMA BodyKeeps ==
  ASSUME IInv, NEW kind \in {"function", "method"}, NEW class \in 0..classes,
         Body(kind, class), owner' = class, Elsewhere, UNCHANGED <<last, classes>>,
         open # <<>> => Last(open).kind # "call"
  PROVE  IInv'
<1>1. PICK visible \in BOOLEAN, type \in SignatureTypes \cup {NoType} :
        LET c == ValidateTypeReferences(Visit, visible)
            visits == Visited /\ ~c.recovering
        IN  /\ Open([Frame(kind, visits, ~visible, Errors(c)) EXCEPT
                       !.returns = type, !.class = class, !.previous = owner])
            /\ Checked(c)
            /\ returnTypes' = IF visits THEN Append(returnTypes, type) ELSE returnTypes
  BY DEF Body
<1> DEFINE c == ValidateTypeReferences(Visit, visible)
           visits == Visited /\ ~c.recovering
           plain == Frame(kind, visits, ~visible, Errors(c))
           frame == [plain EXCEPT !.returns = type, !.class = class, !.previous = owner]
<1>2. Reports(Visit, ~visible, c)
  BY VisitIsClean, ErrorIsReported DEF ValidateTypeReferences
<1>3. /\ Visited \in BOOLEAN /\ Errors(c) \in {0, 1} /\ recovering' \in BOOLEAN
      /\ Visited => (Errors(c) = 1 <=> ~visible) /\ (recovering' <=> ~visible)
      /\ visits <=> Visited /\ visible
      /\ classes \in Nat /\ classes <= statements' /\ owner \in 0..classes
      /\ type \in Types \cup {NoType}
  <2>1. Visited \in BOOLEAN /\ recovering \in BOOLEAN
    BY VisitedIsBoolean DEF IInv, TypeInv
  <2>2. classes \in Nat /\ classes <= statements' /\ owner \in 0..classes
    BY DEF IInv, TypeInv, Elsewhere
  <2>3. QED BY <1>1, <1>2, <2>1, <2>2, VisitIsClean, ChecksAssumption
          DEF Errors, Checked, Reports, Check
<1>4. Open(frame) /\ returnTypes' = IF visits THEN Append(returnTypes, type) ELSE returnTypes
  BY <1>1
<1>5. plain \in FrameSet(classes)
  <2>1. visits \in BOOLEAN /\ (~visible) \in BOOLEAN /\ kind \in Kinds /\ Errors(c) \in Nat
    BY <1>3 DEF Kinds
  <2> HIDE DEF c, visits
  <2>2. QED BY <1>3, <2>1, NewFrame
<1> HIDE DEF c, visits
<1>6. /\ plain.kind = kind /\ plain.errors = Errors(c)
      /\ plain.visited <=> visits
      /\ plain.wrong <=> ~visible
  BY DEF Frame
<1>7. plain.reported <=> Errors(c) > 0
  BY NewReported, Zenon
<1> HIDE DEF plain
<1>8. /\ frame \in FrameSet(classes) /\ frame.kind = kind /\ frame.errors = Errors(c)
      /\ frame.visited = plain.visited /\ frame.wrong = plain.wrong
      /\ frame.reported = plain.reported
      /\ frame.returns = type /\ frame.class = class /\ frame.previous = owner
  BY <1>3, <1>5, <1>6 DEF FrameSet
<1> HIDE DEF frame
<1>9. /\ frame.visited <=> visits
      /\ frame.wrong <=> ~visible
      /\ frame.reported <=> Errors(c) > 0
  BY <1>6, <1>7, <1>8
<1>10. Sound(frame, Visited) /\ TopInv(frame, recovering') /\ IsBody(frame)
  BY <1>3, <1>8, <1>9 DEF Sound, TopInv, IsBody
<1>11. returnTypes' = IF frame.visited THEN Append(returnTypes, frame.returns) ELSE returnTypes
  BY <1>4, <1>8, <1>9
<1>12. QED BY <1>3, <1>4, <1>8, <1>10, <1>11, OpenKeeps

LEMMA FunctionKeeps ==
  ASSUME IInv, Function
  PROVE  IInv'
<1>1. /\ Elsewhere /\ UNCHANGED <<last, classes>> /\ Body("function", 0) /\ owner' = 0
      /\ open # <<>> => Last(open).kind # "call"
  BY StatementsAreCounted, NotInCall DEF Function, Statement, EnterFunction
<1>2. 0 \in 0..classes
  BY DEF IInv, TypeInv
<1>3. QED BY <1>1, <1>2, BodyKeeps

LEMMA MethodKeeps ==
  ASSUME IInv, Method
  PROVE  IInv'
<1>1. /\ Elsewhere /\ UNCHANGED <<last, classes>> /\ Body("method", Last(open).class)
      /\ owner' = Last(open).class /\ open # <<>> /\ Last(open).kind # "call"
  BY StatementsAreCounted, NotInCall DEF Method, InClass, EnterMethod
<1>2. Last(open) \in FrameSet(classes)
  BY <1>1, LastProperties DEF IInv, TypeInv
<1>3. Last(open).class \in 0..classes
  BY <1>2 DEF FrameSet
<1>4. QED BY <1>1, <1>3, BodyKeeps

LEMMA ClassKeeps ==
  ASSUME IInv, Class
  PROVE  IInv'
<1>1. PICK base \in {"none", "declared", "undeclared", "cyclic"} :
        LET c == VisitBase(Visit, base)
        IN  /\ Open([Frame("class", Visited, base \in {"undeclared", "cyclic"}, Errors(c))
                       EXCEPT !.class = classes + 1])
            /\ Checked(c)
  BY DEF Class
<1> DEFINE wrong == base \in {"undeclared", "cyclic"}
           c == VisitBase(Visit, base)
           plain == Frame("class", Visited, wrong, Errors(c))
           frame == [plain EXCEPT !.class = classes + 1]
<1>2. Reports(Visit, wrong, c)
  <2>1. c = ReportIf(wrong, Visit) /\ wrong \in BOOLEAN
    BY DEF VisitBase
  <2> HIDE DEF wrong, c
  <2>2. QED BY <2>1, VisitIsClean, ErrorIsReported
<1>3. /\ Elsewhere /\ UNCHANGED <<last, owner, returnTypes>> /\ classes' = classes + 1
      /\ classes' <= statements' /\ classes' \in Nat
      /\ open # <<>> => Last(open).kind # "call"
  <2>1. Elsewhere
    BY StatementsAreCounted DEF Class, Statement, accessVars
  <2>2. open # <<>> => Last(open).kind # "call"
    BY NotInCall DEF Class, Statement
  <2>3. classes' <= statements' /\ classes' \in Nat
    BY DEF Class, Statement, Count, IInv, TypeInv
  <2>4. QED BY <2>1, <2>2, <2>3 DEF Class, accessVars
<1>4. /\ Visited \in BOOLEAN /\ Errors(c) \in {0, 1} /\ recovering' \in BOOLEAN
      /\ Visited => (Errors(c) = 1 <=> wrong) /\ (recovering' <=> wrong)
  <2>1. Visited \in BOOLEAN /\ recovering \in BOOLEAN
    BY VisitedIsBoolean DEF IInv, TypeInv
  <2>2. QED BY <1>1, <1>2, <2>1, VisitIsClean DEF Errors, Checked, Reports, Check
<1>5. Open(frame) /\ wrong \in BOOLEAN
  BY <1>1
<1> HIDE DEF c, wrong
<1>6. plain \in FrameSet(classes')
  BY <1>3, <1>4, <1>5, NewFrame DEF Kinds
<1>7. /\ plain.kind = "class" /\ plain.errors = Errors(c)
      /\ plain.visited <=> Visited
      /\ plain.wrong <=> wrong
  BY DEF Frame
<1>8. plain.reported <=> Errors(c) > 0
  BY NewReported, Zenon
<1> HIDE DEF plain
<1>9. /\ frame \in FrameSet(classes') /\ frame.kind = "class" /\ frame.errors = Errors(c)
      /\ frame.visited = plain.visited /\ frame.wrong = plain.wrong
      /\ frame.reported = plain.reported
  <2>1. classes + 1 \in 0..classes'
    BY <1>3
  <2>2. QED BY <1>6, <1>7, <2>1 DEF FrameSet
<1> HIDE DEF frame
<1>10. Sound(frame, Visited) /\ TopInv(frame, recovering') /\ ~IsBody(frame)
  BY <1>4, <1>7, <1>8, <1>9 DEF Sound, TopInv, IsBody
<1>11. QED BY <1>3, <1>4, <1>5, <1>9, <1>10, OpenKeeps

LEMMA LeaveKeeps ==
  ASSUME IInv, Leave
  PROVE  IInv'
<1>1. /\ open # <<>> /\ UNCHANGED <<denied, recovering, last, statements, classes, forbidden>>
      /\ open' = Mark(Front(open), Last(open).wrong, Last(open).reported)
      /\ CloseBody(Last(open))
  BY DEF Leave, CloseBody, IsBody, Restore, PopReturnType
<1>2. Elsewhere
  BY <1>1 DEF Elsewhere, IInv, TypeInv, AccessInOwnMethods
<1>3. /\ last' \in LastSet /\ last'.errors <= 1
      /\ last'.visited => (last'.wrong <=> last'.errors > 0)
  BY <1>1 DEF IInv, TypeInv, ErrorsInv
<1>4. QED BY <1>1, <1>2, <1>3, CloseKeeps

LEMMA EndCallKeeps ==
  ASSUME IInv, EndCall
  PROVE  IInv'
<1>1. /\ open # <<>> /\ Last(open).kind = "call"
      /\ UNCHANGED <<recovering, returnTypes, owner, denied, statements, classes, forbidden>>
      /\ open' = Mark(Front(open), Last(open).wrong, Last(open).reported)
      /\ last' = [visited |-> TRUE, wrong |-> Last(open).wrong, errors |-> Last(open).errors]
  BY DEF EndCall, checkerVars, accessVars
<1>2. Elsewhere
  BY <1>1 DEF Elsewhere, IInv, TypeInv, AccessInOwnMethods
<1>3. CloseBody(Last(open))
  BY <1>1 DEF CloseBody, IsBody
<1>4. Last(open) \in FrameSet(classes) /\ CallInv(Last(open), recovering)
  BY <1>1, LastProperties DEF IInv, TypeInv, ErrorsInv
<1>5. /\ last' \in LastSet /\ last'.errors <= 1
      /\ last'.visited => (last'.wrong <=> last'.errors > 0)
  BY <1>1, <1>4 DEF CallInv, FrameSet, LastSet
<1>6. QED BY <1>1, <1>2, <1>3, <1>5, CloseKeeps

-----------------------------------------------------------------------------
(* Calls *)

LEMMA CallKeeps ==
  ASSUME IInv, Call
  PROVE  IInv'
<1>1. PICK parameters \in Signatures, count \in 0..MaxArguments :
        LET wrong == count # Len(parameters)
            c == ReportIf(wrong, Visit)
        IN  /\ Open([Frame("call", TRUE, wrong, c.errors) EXCEPT
                       !.parameters = parameters, !.count = count])
            /\ Checked(c)
  BY DEF Call
<1> DEFINE wrong == count # Len(parameters)
           c == ReportIf(wrong, Visit)
           plain == Frame("call", TRUE, wrong, c.errors)
           frame == [plain EXCEPT !.parameters = parameters, !.count = count]
<1>2. /\ Elsewhere /\ UNCHANGED <<last, owner, returnTypes, classes>> /\ Visited
      /\ classes <= statements' /\ classes \in Nat
      /\ open # <<>> => Last(open).kind # "call"
  <2>1. Elsewhere
    BY StatementsAreCounted DEF Call, Statement, accessVars
  <2>2. open # <<>> => Last(open).kind # "call"
    BY NotInCall DEF Call, Statement
  <2>3. classes <= statements' /\ classes \in Nat
    BY DEF Call, Statement, Count, IInv, TypeInv
  <2>4. QED BY <2>1, <2>2, <2>3 DEF Call, accessVars
<1>3. wrong \in BOOLEAN /\ Open(frame) /\ Checked(c)
  BY <1>1
<1> HIDE DEF wrong
<1>4. Reports(Visit, wrong, c)
  BY <1>3, VisitIsClean, ErrorIsReported
<1> HIDE DEF c
<1>5. /\ c.errors \in {0, 1} /\ (c.errors = 1 <=> wrong)
      /\ recovering' \in BOOLEAN /\ (recovering' <=> wrong)
  BY <1>2, <1>3, <1>4, VisitIsClean DEF Checked, Reports, Check
<1>6. plain \in FrameSet(classes)
  BY <1>2, <1>3, <1>5, NewFrame DEF Kinds
<1>7. /\ plain.kind = "call" /\ plain.errors = c.errors /\ plain.visited
      /\ plain.given = <<>> /\ plain.state = CallArgumentsCheckState
      /\ plain.wrong <=> wrong
  BY DEF Frame
<1>8. plain.reported <=> c.errors > 0
  BY NewReported, Zenon
<1>9. parameters \in Seq(Types) /\ count \in Nat
  <2>1. PICK n \in Nat : parameters \in [1..n -> SignatureTypes]
    BY ChecksAssumption DEF Signatures
  <2>2. \A i \in 1..n : parameters[i] \in Types
    BY <2>1, ChecksAssumption
  <2>3. QED BY <2>1, <2>2, ChecksAssumption
<1> HIDE DEF plain
<1>10. /\ frame \in FrameSet(classes) /\ frame.kind = "call" /\ frame.errors = c.errors
       /\ frame.visited = plain.visited /\ frame.wrong = plain.wrong
       /\ frame.reported = plain.reported
       /\ frame.given = <<>> /\ frame.state = CallArgumentsCheckState
       /\ frame.parameters = parameters /\ frame.count = count
  BY <1>6, <1>7, <1>9 DEF FrameSet
<1> HIDE DEF frame
<1>11. LegalArguments(parameters, <<>>) /\ LoopInv(<<>>, CallArgumentsCheckState)
  BY DEF LegalArguments, LoopInv, CallArgumentsCheckState
<1>12. CallInv(frame, recovering')
  BY <1>5, <1>7, <1>8, <1>9, <1>10, <1>11 DEF CallInv, wrong
<1>13. Sound(frame, Visited) /\ TopInv(frame, recovering') /\ ~IsBody(frame)
  BY <1>2, <1>5, <1>7, <1>8, <1>10, <1>12 DEF Sound, TopInv, IsBody
<1>14. QED BY <1>2, <1>3, <1>5, <1>10, <1>13, OpenKeeps

\* An argument is reported if and only if it is the first one that makes the list illegal.
LEMMA ArgumentIsChecked ==
  ASSUME NEW parameters \in Seq(Types), NEW given \in Seq(Arguments),
         NEW state \in LoopStates, NEW argument \in Arguments, NEW c \in Clean,
         LegalArguments(parameters, given), LoopInv(given, state),
         Len(given) < Len(parameters)
  PROVE  LET step == TypeCheckArgument(c, state, parameters, argument)
             new == Append(given, argument)
         IN  /\ Reports(c, ~LegalArguments(parameters, new), step.check)
             /\ step.state \in LoopStates
             /\ LegalArguments(parameters, new) => LoopInv(new, step.state)
<1> DEFINE n == Len(given)
           new == Append(given, argument)
           step == TypeCheckArgument(c, state, parameters, argument)
<1>1. /\ n \in Nat /\ Len(new) = n + 1 /\ new[n + 1] = argument /\ new \in Seq(Arguments)
      /\ \A i \in 1..n : new[i] = given[i] /\ given[i] \in Arguments
      /\ DOMAIN given = 1..n /\ DOMAIN new = 1..(n + 1)
      /\ DOMAIN parameters = 1..Len(parameters) /\ Len(parameters) \in Nat
  BY AppendType, LenProperties
<1>2. argument.name \in Nat /\ argument.value \in Expressions
  BY DEF Arguments, Expressions
<1> HIDE DEF n, new
<1>3. /\ state.named <=> \E i \in 1..n : given[i].name # 0
      /\ state.positional <=> \E i \in 1..n : given[i].name = 0
      /\ \A m \in Nat : m \in state.used <=> m # 0 /\ \E i \in 1..n : given[i].name = m
      /\ ~state.named => state.index = n
  BY DEF LoopInv, n
<1>4. /\ (\A i \in 1..n : given[i].name = 0) \/ (\A i \in 1..n : given[i].name # 0)
      /\ \A i \in 1..n :
           IF given[i].name = 0 THEN Fits(parameters[i], given[i].value)
           ELSE /\ given[i].name \in DOMAIN parameters
                /\ Fits(parameters[given[i].name], given[i].value)
                /\ \A j \in 1..n : given[j].name = given[i].name => i = j
  BY <1>1 DEF LegalArguments
<1>5. CASE argument.name = 0
  <2> DEFINE wrong == state.named \/ ~Fits(parameters[n + 1], argument.value)
             next == [state EXCEPT !.positional = TRUE, !.index = @ + 1]
  <2>1. LegalArguments(parameters, new) <=> ~wrong
    <3>1. ASSUME state.named PROVE ~LegalArguments(parameters, new)
      <4>1. PICK i \in 1..n : given[i].name # 0
        BY <1>3, <3>1
      <4>2. i \in DOMAIN new /\ new[i].name # 0 /\ n + 1 \in DOMAIN new /\ new[n + 1].name = 0
        BY <1>1, <1>5, <4>1
      <4>3. QED BY <4>2 DEF LegalArguments
    <3>2. ASSUME ~state.named
          PROVE  LegalArguments(parameters, new) <=> Fits(parameters[n + 1], argument.value)
      <4>1. \A i \in 1..(n + 1) : new[i].name = 0
        BY <1>1, <1>3, <1>5, <3>2
      <4>2. LegalArguments(parameters, new) <=>
              \A i \in 1..(n + 1) : Fits(parameters[i], new[i].value)
        BY <1>1, <4>1 DEF LegalArguments
      <4>3. \A i \in 1..n : Fits(parameters[i], new[i].value)
        BY <1>1, <1>4, <4>1
      <4>4. QED BY <1>1, <4>2, <4>3
    <3>3. QED BY <3>1, <3>2
  <2>2. step.state = next /\ Reports(c, wrong, step.check)
    <3>1. step = CheckPositional(c, state, parameters, argument)
      BY <1>5 DEF TypeCheckArgument
    <3>2. step.state = next
      BY <3>1 DEF CheckPositional, LoopStates
    <3>3. CASE state.named
      <4>1. step.check = ReportCodeError(c)
        BY <3>1, <3>3 DEF CheckPositional
      <4>2. QED BY <3>2, <3>3, <4>1, ErrorIsReported DEF Reports
    <3>4. CASE ~state.named
      <4>1. state.index = n /\ n + 1 \in DOMAIN parameters
        BY <1>1, <1>3, <3>4 DEF n
      <4>2. step.check = RequireAssignable(c, parameters[n + 1], argument.value)
        BY <3>1, <3>4, <4>1 DEF CheckPositional
      <4>3. Reports(c, ~Fits(parameters[n + 1], argument.value), step.check)
        BY <1>2, <4>2, AssignableIsChecked
      <4>4. QED BY <3>2, <3>4, <4>3 DEF Reports
    <3>5. QED BY <3>3, <3>4
  <2>3. /\ next \in LoopStates /\ next.positional /\ next.index = state.index + 1
        /\ next.named = state.named /\ next.used = state.used
    <3>1. state.index \in Nat /\ state.index + 1 \in Nat
      BY DEF LoopStates
    <3>2. next \in LoopStates
      BY <3>1 DEF LoopStates
    <3>3. DOMAIN state = {"named", "positional", "used", "index"}
      BY DEF LoopStates
    <3>4. QED BY <3>2, <3>3
  <2> HIDE DEF next, wrong, step
  <2>4. LegalArguments(parameters, new) => LoopInv(new, next)
    <3> SUFFICES ASSUME LegalArguments(parameters, new) PROVE LoopInv(new, next)
      OBVIOUS
    <3>1. ~state.named
      BY <2>1 DEF wrong
    <3>2. \A i \in 1..(n + 1) : new[i].name = 0
      BY <1>1, <1>3, <1>5, <3>1
    <3>3. \A m \in Nat : m \notin state.used
      BY <1>3, <3>1
    <3>4. QED BY <1>1, <1>3, <2>3, <3>1, <3>2, <3>3 DEF LoopInv
  <2>5. QED BY <2>1, <2>2, <2>3, <2>4 DEF new, step, Reports
<1>6. CASE argument.name # 0
  <2> DEFINE name == argument.name
             wrong == \/ state.positional \/ name \notin DOMAIN parameters
                      \/ name \in state.used \/ ~Fits(parameters[name], argument.value)
             next == [state EXCEPT !.named = TRUE, !.used = @ \cup {name}]
  <2>1. LegalArguments(parameters, new) <=> ~wrong
    <3>1. ASSUME state.positional PROVE ~LegalArguments(parameters, new)
      <4>1. PICK i \in 1..n : given[i].name = 0
        BY <1>3, <3>1
      <4>2. i \in DOMAIN new /\ new[i].name = 0 /\ n + 1 \in DOMAIN new /\ new[n + 1].name # 0
        BY <1>1, <1>6, <4>1
      <4>3. QED BY <4>2 DEF LegalArguments
    <3>2. ASSUME name \in state.used PROVE ~LegalArguments(parameters, new)
      <4>1. PICK i \in 1..n : given[i].name = name
        BY <1>2, <1>3, <3>2
      <4>2. /\ i \in DOMAIN new /\ n + 1 \in DOMAIN new /\ i # n + 1
            /\ new[i].name = new[n + 1].name /\ new[n + 1].name # 0
        BY <1>1, <1>6, <4>1
      <4>3. QED BY <4>2 DEF LegalArguments
    <3>3. ASSUME LegalArguments(parameters, new)
          PROVE  name \in DOMAIN parameters /\ Fits(parameters[name], argument.value)
      <4>1. n + 1 \in DOMAIN new
        BY <1>1
      <4>2. QED BY <1>1, <1>6, <3>3, <4>1 DEF LegalArguments
    <3>4. ASSUME ~wrong PROVE LegalArguments(parameters, new)
      <4>1. \A i \in 1..(n + 1) : new[i].name # 0
        BY <1>1, <1>3, <1>6, <3>4
      <4>2. \A i \in 1..n : new[i].name # name
        BY <1>1, <1>2, <1>3, <1>6, <3>4
      <4>3. ASSUME NEW i \in 1..(n + 1)
            PROVE  /\ new[i].name \in DOMAIN parameters
                   /\ Fits(parameters[new[i].name], new[i].value)
                   /\ \A j \in 1..(n + 1) : new[j].name = new[i].name => i = j
        <5>1. CASE i = n + 1
          BY <1>1, <3>4, <4>2, <5>1
        <5>2. CASE i \in 1..n
          <6>1. new[i] = given[i] /\ given[i].name # 0
            BY <1>1, <4>1, <5>2
          <6>2. QED BY <1>1, <1>4, <4>2, <5>2, <6>1
        <5>3. QED BY <1>1, <5>1, <5>2
      <4>4. QED BY <1>1, <4>1, <4>3 DEF LegalArguments
    <3>5. QED BY <3>1, <3>2, <3>3, <3>4
  <2>2. step.state = next /\ Reports(c, wrong, step.check)
    <3>1. step = CheckNamed(c, state, parameters, argument)
      BY <1>6 DEF TypeCheckArgument
    <3>2. step.state = next
      BY <3>1 DEF CheckNamed, LoopStates
    <3> DEFINE illegal == \/ state.positional \/ name \notin DOMAIN parameters
                          \/ name \in state.used
    <3>3. CASE illegal
      <4>1. step.check = ReportCodeError(c)
        BY <3>1, <3>3 DEF CheckNamed, IsDuplicate
      <4>2. QED BY <3>2, <3>3, <4>1, ErrorIsReported DEF Reports
    <3>4. CASE ~illegal
      <4>1. step.check = RequireAssignable(c, parameters[name], argument.value)
        BY <3>1, <3>4 DEF CheckNamed, IsDuplicate
      <4>2. Reports(c, ~Fits(parameters[name], argument.value), step.check)
        BY <1>2, <4>1, AssignableIsChecked
      <4>3. QED BY <3>2, <3>4, <4>2 DEF Reports
    <3>5. QED BY <3>3, <3>4
  <2>3. /\ next \in LoopStates /\ next.named /\ next.positional = state.positional
        /\ next.used = state.used \cup {name}
    BY <1>2 DEF LoopStates
  <2> HIDE DEF next, wrong, step
  <2>4. LegalArguments(parameters, new) => LoopInv(new, next)
    <3> SUFFICES ASSUME LegalArguments(parameters, new) PROVE LoopInv(new, next)
      OBVIOUS
    <3>1. ~state.positional
      BY <2>1 DEF wrong
    <3>2. \A i \in 1..(n + 1) : new[i].name # 0
      BY <1>1, <1>3, <1>6, <3>1
    <3>3. \A m \in Nat : m \in next.used <=> m # 0 /\ \E i \in 1..(n + 1) : new[i].name = m
      <4> SUFFICES ASSUME NEW m \in Nat
                   PROVE  m \in next.used <=> m # 0 /\ \E i \in 1..(n + 1) : new[i].name = m
        OBVIOUS
      <4>1. m \in next.used <=> m \in state.used \/ m = name
        BY <2>3
      <4>2. (\E i \in 1..(n + 1) : new[i].name = m) <=>
              (\E i \in 1..n : given[i].name = m) \/ name = m
        BY <1>1
      <4>3. QED BY <1>3, <1>6, <4>1, <4>2
    <3>4. QED BY <1>1, <2>3, <3>1, <3>2, <3>3 DEF LoopInv
  <2>5. QED BY <2>1, <2>2, <2>3, <2>4 DEF new, step, Reports
<1>7. QED BY <1>5, <1>6

LEMMA ArgumentKeeps ==
  ASSUME IInv, Argument
  PROVE  IInv'
<1> DEFINE call == Last(open)
<1>1. /\ open # <<>> /\ call.kind = "call" /\ ~recovering /\ Len(call.given) < call.count
      /\ UNCHANGED <<returnTypes, owner, denied, last, statements, classes, forbidden>>
  BY DEF Argument, ArgumentsLeft, accessVars
<1>2. PICK name \in 0..(MaxArguments + 1), atom \in Values :
        LET argument == [name |-> name, value |-> [op |-> "atom", left |-> atom]]
            step == TypeCheckArgument(Resume, call.state, call.parameters, argument)
            given == Append(call.given, argument)
        IN  /\ open' = Append(Front(open),
                 [call EXCEPT !.given = given, !.state = step.state,
                              !.wrong = @ \/ ~LegalArguments(call.parameters, given),
                              !.errors = @ + step.check.errors,
                              !.reported = @ \/ step.check.errors > 0])
            /\ recovering' = step.check.recovering
  BY DEF Argument
<1> DEFINE argument == [name |-> name, value |-> [op |-> "atom", left |-> atom]]
           step == TypeCheckArgument(Resume, call.state, call.parameters, argument)
           given == Append(call.given, argument)
           legal == LegalArguments(call.parameters, given)
           wrong == call.wrong \/ ~legal
           reported == call.reported \/ step.check.errors > 0
           frame == [call EXCEPT !.given = given, !.state = step.state, !.wrong = wrong,
                                 !.errors = @ + step.check.errors, !.reported = reported]
<1>3. /\ call \in FrameSet(classes) /\ CallInv(call, recovering) /\ Elsewhere
      /\ Sound(call, WithinLast(open))
  BY <1>1, LastProperties, PoppedFrame
     DEF IInv, TypeInv, ErrorsInv, WithinLast, Elsewhere, AccessInOwnMethods
<1>4. argument \in Arguments
  BY ChecksAssumption DEF Arguments
<1>5. open' = Append(Front(open), frame) /\ recovering' = step.check.recovering
  BY <1>2
<1> HIDE DEF call, argument
<1>6. /\ call.parameters \in Seq(Types) /\ call.given \in Seq(Arguments)
      /\ call.state \in LoopStates /\ call.errors \in Nat /\ call.count \in Nat
      /\ call.wrong \in BOOLEAN /\ call.reported \in BOOLEAN /\ call.visited \in BOOLEAN
  BY <1>3 DEF FrameSet
<1>7. /\ call.visited /\ call.errors = 0 /\ ~call.wrong /\ ~call.reported
      /\ call.count = Len(call.parameters)
      /\ LegalArguments(call.parameters, call.given) /\ LoopInv(call.given, call.state)
  BY <1>1, <1>3, <1>6 DEF CallInv
<1>8. Resume \in Clean /\ Resume.errors = 0
  <2>1. recovering = FALSE
    BY <1>1 DEF IInv, TypeInv
  <2>2. QED BY <2>1 DEF Resume, Clean, Check, NoType
<1>9. /\ Reports(Resume, ~legal, step.check) /\ step.state \in LoopStates
      /\ legal => LoopInv(given, step.state)
  BY <1>1, <1>4, <1>6, <1>7, <1>8, ArgumentIsChecked
<1>10. /\ given \in Seq(Arguments) /\ Len(given) <= call.count
  BY <1>1, <1>4, <1>6, AppendType
<1> HIDE DEF step, given
<1>11. legal \in BOOLEAN
  BY DEF LegalArguments
<1> HIDE DEF legal
<1>12. /\ step.check.errors \in {0, 1} /\ (step.check.errors = 1 <=> ~legal)
       /\ recovering' \in BOOLEAN /\ (recovering' <=> ~legal)
  BY <1>5, <1>8, <1>9, <1>11 DEF Reports, Check
<1>13. /\ wrong \in BOOLEAN /\ (wrong <=> ~legal)
       /\ reported \in BOOLEAN /\ (reported <=> ~legal)
  BY <1>6, <1>7, <1>12
<1> HIDE DEF wrong, reported
<1> DEFINE state == step.state
           errors == step.check.errors
<1>14. /\ frame \in FrameSet(classes) /\ frame.kind = call.kind /\ frame.given = given
       /\ frame.state = state /\ frame.errors = errors
       /\ frame.parameters = call.parameters /\ frame.count = call.count
       /\ frame.class = call.class /\ frame.previous = call.previous
       /\ frame.wrong = wrong /\ frame.reported = reported /\ frame.visited = call.visited
  <2>1. /\ frame = [call EXCEPT !.given = given, !.state = state, !.wrong = wrong,
                                 !.errors = errors, !.reported = reported]
        /\ state \in LoopStates /\ errors \in Nat /\ given \in Seq(Arguments)
    <3>1. state \in LoopStates /\ errors \in Nat /\ given \in Seq(Arguments)
      BY <1>9, <1>10, <1>12
    <3>2. call.errors + errors = errors
      BY <1>7, <3>1
    <3> HIDE DEF errors
    <3>3. QED BY <3>1, <3>2 DEF errors
  <2> HIDE DEF state, errors, frame
  <2>2. frame \in FrameSet(classes)
    BY <1>3, <1>13, <2>1 DEF FrameSet
  <2>3. DOMAIN call = {"kind", "visited", "errors", "wrong", "reported", "returns", "class",
                       "previous", "parameters", "count", "given", "state"}
    BY <1>3 DEF FrameSet
  <2>4. QED BY <2>1, <2>2, <2>3
<1> HIDE DEF frame
<1>15. call.kind = "call"
  BY <1>1 DEF call
<1>16. CallInv(frame, recovering')
  <2>1. frame.visited /\ (frame.wrong <=> ~legal) /\ (frame.reported <=> ~legal)
    BY <1>7, <1>13, <1>14
  <2>2. frame.errors \in {0, 1} /\ (frame.errors = 1 <=> ~legal)
    BY <1>12, <1>14
  <2>3. legal => /\ frame.count = Len(frame.parameters) /\ Len(frame.given) <= frame.count
                 /\ LegalArguments(frame.parameters, frame.given)
                 /\ LoopInv(frame.given, frame.state)
    BY <1>7, <1>9, <1>10, <1>14 DEF legal
  <2>4. QED BY <1>12, <2>1, <2>2, <2>3 DEF CallInv
<1>17. Sound(frame, WithinLast(open))
  BY <1>3, <1>7, <1>12, <1>13, <1>14, <1>15 DEF Sound
<1>18. TopInv(frame, recovering')
  BY <1>12, <1>13, <1>14, <1>16 DEF TopInv
<1>19. SameBody(frame, Last(open))
  BY <1>14, <1>15 DEF SameBody, IsBody, call
<1>20. QED BY <1>1, <1>3, <1>5, <1>12, <1>14, <1>17, <1>18, <1>19, ChangeKeeps DEF call

-----------------------------------------------------------------------------
(* The invariant is one *)

LEMMA InitIInv == Init => IInv
<1> SUFFICES ASSUME Init PROVE IInv
  OBVIOUS
<1>1. /\ open = <<>> /\ statements = 0 /\ classes = 0 /\ forbidden = FALSE
      /\ recovering = FALSE /\ returnTypes = <<>> /\ owner = 0 /\ denied = FALSE
      /\ last = [visited |-> TRUE, wrong |-> FALSE, errors |-> 0]
  BY DEF Init, InitAccess
<1>2. TypeInv
  <2>1. open \in Seq(FrameSet(classes)) /\ returnTypes \in Seq(Types \cup {NoType})
    BY <1>1
  <2>2. last \in LastSet
    BY <1>1 DEF LastSet
  <2>3. statements \in 0..MaxStatements /\ classes \in 0..statements /\ owner \in 0..classes
    BY <1>1, ChecksAssumption
  <2>4. recovering \in BOOLEAN /\ denied \in BOOLEAN /\ forbidden \in BOOLEAN
    BY <1>1
  <2>5. QED BY <2>1, <2>2, <2>3, <2>4 DEF TypeInv
<1>3. FramesInv(open) /\ ErrorsInv /\ AccessInOwnMethods
  BY <1>1 DEF FramesInv, ErrorsInv, AccessInOwnMethods
<1>4. OwnerInv(open, owner)
  BY <1>1 DEF OwnerInv, HasOwner
<1>5. ReturnsInv(open, returnTypes)
  <2>1. VisitedBodies(open, Len(open)) = {}
    BY <1>1 DEF VisitedBodies
  <2>2. QED BY <1>1, <2>1, FS_EmptySet DEF ReturnsInv
<1>6. QED BY <1>2, <1>3, <1>4, <1>5 DEF IInv

LEMMA StutterKeeps ==
  ASSUME IInv, UNCHANGED vars
  PROVE  IInv'
  BY DEF vars, walkVars, checkerVars, accessVars, IInv, TypeInv, ErrorsInv, AccessInOwnMethods

LEMMA NextKeeps == IInv /\ [Next]_vars => IInv'
<1> SUFFICES ASSUME IInv, [Next]_vars PROVE IInv'
  OBVIOUS
<1>1. CASE \/ DeclarationStatement \/ AssignmentStatement \/ PrintStatement
           \/ DeleteStatement \/ ReturnStatement \/ ExpressionStatement
  BY <1>1, SimpleStatements
<1>2. CASE FieldAccess \/ FieldAccessInField
  BY <1>2, AccessKeeps
<1>3. CASE Call
  BY <1>3, CallKeeps
<1>4. CASE Argument
  BY <1>4, ArgumentKeeps
<1>5. CASE EndCall
  BY <1>5, EndCallKeeps
<1>6. CASE Block
  BY <1>6, BlockKeeps
<1>7. CASE If
  BY <1>7, IfKeeps
<1>8. CASE ElseBlock
  BY <1>8, ElseBlockKeeps
<1>9. CASE ElseIf
  BY <1>9, ElseIfKeeps
<1>10. CASE Function
  BY <1>10, FunctionKeeps
<1>11. CASE Class
  BY <1>11, ClassKeeps
<1>12. CASE Field
  BY <1>12, FieldKeeps
<1>13. CASE Method
  BY <1>13, MethodKeeps
<1>14. CASE Leave
  BY <1>14, LeaveKeeps
<1>15. CASE EndProgram \/ UNCHANGED vars
  BY <1>15, StutterKeeps DEF EndProgram
<1>16. QED
  BY <1>1, <1>2, <1>3, <1>4, <1>5, <1>6, <1>7, <1>8, <1>9, <1>10, <1>11, <1>12, <1>13,
     <1>14, <1>15 DEF Next

-----------------------------------------------------------------------------
(* What it implies *)

LEMMA FramesHaveTypes ==
  ASSUME IInv, NEW i \in DOMAIN open
  PROVE  /\ open[i] \in FrameSet(classes) /\ i \in 1..Len(open) /\ Len(open) \in Nat
         /\ Sound(open[i], Within(open, i))
         /\ open[i].kind = "call" => i = Len(open) /\ open[i] = Last(open) /\ open # <<>>
<1>1. open \in Seq(FrameSet(classes)) /\ DOMAIN open = 1..Len(open) /\ Len(open) \in Nat
  BY LenProperties DEF IInv, TypeInv
<1>2. open # <<>> => Last(open) = open[Len(open)]
  BY <1>1, LastProperties
<1>3. i \in 1..Len(open) /\ open[i] \in FrameSet(classes) /\ open # <<>>
  BY <1>1
<1>4. Sound(open[i], Within(open, i)) /\ (open[i].kind = "call" => i = Len(open))
  BY <1>3 DEF IInv, FramesInv
<1>5. QED BY <1>1, <1>2, <1>3, <1>4

LEMMA TypesAreCorrect == IInv => TypeOK
<1> SUFFICES ASSUME IInv PROVE TypeOK
  OBVIOUS
<1>1. ASSUME NEW i \in DOMAIN open
      PROVE  /\ open[i].visited \in BOOLEAN /\ open[i].wrong \in BOOLEAN
             /\ open[i].reported \in BOOLEAN /\ open[i].errors \in Nat
             /\ open[i].class \in 0..classes /\ open[i].previous \in 0..classes
  BY FramesHaveTypes DEF FrameSet
<1>2. last.visited \in BOOLEAN /\ last.wrong \in BOOLEAN /\ last.errors \in Nat
  BY DEF IInv, TypeInv, LastSet
<1>3. statements \in 0..MaxStatements /\ classes \in 0..MaxStatements
  BY ChecksAssumption DEF IInv, TypeInv
<1>4. QED BY <1>1, <1>2, <1>3 DEF IInv, TypeInv, TypeOK

LEMMA ErrorsAreSingle == IInv => OneErrorPerStatement
<1> SUFFICES ASSUME IInv PROVE OneErrorPerStatement
  OBVIOUS
<1>1. \A i \in DOMAIN open : open[i].errors <= 1
  BY FramesHaveTypes DEF Sound
<1>2. QED BY <1>1 DEF IInv, ErrorsInv, OneErrorPerStatement

LEMMA ErrorsAreTold == IInv => WrongIsReported
<1> SUFFICES ASSUME IInv PROVE WrongIsReported
  OBVIOUS
<1>1. \A i \in DOMAIN open : open[i].visited => (open[i].wrong <=> open[i].reported)
  BY FramesHaveTypes DEF Sound
<1>2. QED BY <1>1 DEF IInv, ErrorsInv, WrongIsReported

LEMMA TypesAreStacked == IInv => ReturnTypesOfOpenBodies
<1> SUFFICES ASSUME IInv PROVE ReturnTypesOfOpenBodies
  OBVIOUS
<1> DEFINE bodies == {i \in Bodies(open) : open[i].visited}
<1>1. Bodies(open) = {i \in 1..Len(open) : IsBody(open[i])} /\ Len(open) \in Nat
  BY InnermostBody, LenProperties DEF IInv, TypeInv
<1>2. bodies = VisitedBodies(open, Len(open))
  BY <1>1 DEF VisitedBodies
<1>3. \A i \in bodies : {j \in bodies : j <= i} = VisitedBodies(open, i)
  BY <1>1 DEF VisitedBodies
<1>4. QED BY <1>2, <1>3 DEF IInv, ReturnsInv, ReturnTypesOfOpenBodies

\* As many legal arguments as there are parameters.
LEMMA ArgumentsArePlaced ==
  ASSUME NEW parameters \in Seq(Types), NEW given \in Seq(Arguments),
         LegalArguments(parameters, given), Len(given) = Len(parameters),
         NEW p \in DOMAIN parameters
  PROVE  /\ \E a \in DOMAIN given :
              Place(given, a) = p /\ Fits(parameters[p], given[a].value)
         /\ \A a, b \in DOMAIN given : Place(given, a) = Place(given, b) => a = b
<1> DEFINE n == Len(given)
<1>1. n \in Nat /\ DOMAIN given = 1..n /\ DOMAIN parameters = 1..n
  BY LenProperties
<1> HIDE DEF n
<1>2. CASE \A i \in 1..n : given[i].name = 0
  <2>1. ASSUME NEW a \in 1..n PROVE Place(given, a) = a
    <3>1. {j \in 1..a : given[j].name = 0} = 1..a
      BY <1>1, <1>2
    <3>2. Cardinality(1..a) = a
      BY <1>1, FS_Interval
    <3>3. QED BY <1>2, <3>1, <3>2 DEF Place
  <2>2. Fits(parameters[p], given[p].value)
    BY <1>1, <1>2 DEF LegalArguments
  <2>3. QED BY <1>1, <2>1, <2>2
<1>3. CASE \A i \in 1..n : given[i].name # 0
  <2> DEFINE f == [a \in 1..n |-> given[a].name]
  <2>1. \A a \in 1..n : Place(given, a) = given[a].name
    BY <1>3 DEF Place
  <2>2. \A a \in 1..n : /\ given[a].name \in 1..n
                        /\ Fits(parameters[given[a].name], given[a].value)
                        /\ \A b \in 1..n : given[b].name = given[a].name => a = b
    BY <1>1, <1>3 DEF LegalArguments
  <2>3. f \in Injection(1..n, 1..n)
    BY <2>2 DEF Injection, IsInjective
  <2>4. IsFiniteSet(1..n)
    BY <1>1, FS_Interval
  <2>5. f \in Surjection(1..n, 1..n)
    BY <2>3, <2>4, FS_Injection
  <2>6. PICK a \in 1..n : f[a] = p
    BY <1>1, <2>5 DEF Surjection
  <2>7. given[a].name = p
    BY <2>6
  <2>8. Place(given, a) = p /\ Fits(parameters[p], given[a].value)
    BY <2>1, <2>2, <2>7
  <2>9. \A b, c \in 1..n : Place(given, b) = Place(given, c) => b = c
    BY <2>1, <2>2
  <2>10. QED BY <1>1, <2>8, <2>9
<1>4. QED BY <1>1, <1>2, <1>3 DEF LegalArguments

LEMMA CallsAreFilled == IInv => ArgumentsFillParameters
<1> SUFFICES ASSUME IInv, NEW i \in DOMAIN open, open[i].kind = "call", open[i].errors = 0,
                    Len(open[i].given) = open[i].count,
                    NEW p \in DOMAIN open[i].parameters
             PROVE  LET given == open[i].given
                    IN  /\ \E a \in DOMAIN given :
                             Place(given, a) = p /\ Fits(open[i].parameters[p], given[a].value)
                        /\ \A a, b \in DOMAIN given : Place(given, a) = Place(given, b) => a = b
  BY DEF ArgumentsFillParameters
<1>1. open[i] \in FrameSet(classes) /\ open[i] = Last(open) /\ open # <<>>
  BY FramesHaveTypes
<1>2. CallInv(open[i], recovering)
  BY <1>1 DEF IInv, ErrorsInv
<1>3. /\ open[i].parameters \in Seq(Types) /\ open[i].given \in Seq(Arguments)
      /\ LegalArguments(open[i].parameters, open[i].given)
      /\ Len(open[i].given) = Len(open[i].parameters)
  BY <1>1, <1>2 DEF CallInv, FrameSet
<1>4. QED BY <1>3, ArgumentsArePlaced

-----------------------------------------------------------------------------
(* Theorems *)

\* The variables have their types.
THEOREM TypeCorrect == Spec => []TypeOK
<1>1. Init => IInv
  BY InitIInv
<1>2. IInv /\ [Next]_vars => IInv'
  BY NextKeeps
<1>3. IInv => TypeOK
  BY TypesAreCorrect
<1>4. QED BY <1>1, <1>2, <1>3, PTL DEF Spec

\* The type checker reports a statement it visits at most once, whatever is wrong with its
\* expressions, its arguments and its types (errors_recovering_ of CheckTypes).
THEOREM OneErrorEach == Spec => []OneErrorPerStatement
<1>1. Init => IInv
  BY InitIInv
<1>2. IInv /\ [Next]_vars => IInv'
  BY NextKeeps
<1>3. IInv => OneErrorPerStatement
  BY ErrorsAreSingle
<1>4. QED BY <1>1, <1>2, <1>3, PTL DEF Spec

\* Of what the type checker visits, something is reported if and only if something is wrong:
\* what it leaves out after an error never hides the only error.
THEOREM WrongIsToldOf == Spec => []WrongIsReported
<1>1. Init => IInv
  BY InitIInv
<1>2. IInv /\ [Next]_vars => IInv'
  BY NextKeeps
<1>3. IInv => WrongIsReported
  BY ErrorsAreTold
<1>4. QED BY <1>1, <1>2, <1>3, PTL DEF Spec

\* function_return_type_stack_ has the return types of the bodies being visited, outermost
\* first, for functions nested to any depth and left out at any depth.
THEOREM ReturnTypesAreOfBodies == Spec => []ReturnTypesOfOpenBodies
<1>1. Init => IInv
  BY InitIInv
<1>2. IInv /\ [Next]_vars => IInv'
  BY NextKeeps
<1>3. IInv => ReturnTypesOfOpenBodies
  BY TypesAreStacked
<1>4. QED BY <1>1, <1>2, <1>3, PTL DEF Spec

\* The access checker reports the accesses of fields outside the methods of their class, and
\* no others: the owner it keeps is that of the innermost body, however bodies are nested.
THEOREM AccessesAreInOwnMethods == Spec => []AccessInOwnMethods
<1>1. Init => IInv
  BY InitIInv
<1>2. IInv /\ [Next]_vars => IInv'
  BY NextKeeps
<1>3. IInv => AccessInOwnMethods
  BY DEF IInv
<1>4. QED BY <1>1, <1>2, <1>3, PTL DEF Spec

\* The arguments of a call that the type checker accepts, positional or named in any order,
\* are put by LowerCallArguments one at every parameter, and each fits.
THEOREM ArgumentsFill == Spec => []ArgumentsFillParameters
<1>1. Init => IInv
  BY InitIInv
<1>2. IInv /\ [Next]_vars => IInv'
  BY NextKeeps
<1>3. IInv => ArgumentsFillParameters
  BY CallsAreFilled
<1>4. QED BY <1>1, <1>2, <1>3, PTL DEF Spec
=============================================================================
