--------------------------- MODULE FunctionLowering ---------------------------
(***************************************************************************)
(* FunctionLoweringContext: the control flow of one function's body, as    *)
(* LowerStatements makes basic blocks of it.  The body is chosen as it is  *)
(* lowered.  What a statement or an operand does is one event; an operand  *)
(* also has a truth value, on which the paths through the body depend.     *)
(***************************************************************************)
EXTENDS Integers, FiniteSets, SequencesExt

CONSTANTS
  MaxStatements, \* bound: statements of the body
  MaxOperands    \* bound: operands of its expressions but literals

ASSUME BodyAssumption == MaxStatements \in Nat /\ MaxOperands \in Nat

VARIABLES
  blocks,        \* basic blocks in order of creation: code, and whether in the function
  insert,        \* builder_.GetInsertBlock()
  calls,         \* calls of Lower... in progress
  result,        \* what the last call of LowerExpression returned
  statements,    \* statements of the body so far
  expected,      \* history: for every event, the runs in which the body has it
  path,          \* history: the runs that get where the body is being lowered
  operands,      \* operands so far
  declared       \* whether the function has a declared_return_type_

vars == <<blocks, insert, calls, result, statements, expected, path, operands, declared>>

\* A run is known by the truth of every operand it meets.
Runs == [1..MaxOperands -> BOOLEAN]

-----------------------------------------------------------------------------
(* LLVM: values, instructions, and the builder *)

Operand(n) == [is |-> "operand", of |-> n]
Constant(v) == [is |-> "constant", of |-> v]
PhiOf(b) == [is |-> "phi", of |-> b]

Event(e) == [op |-> "event", id |-> e]
Br(b) == [op |-> "br", to |-> <<b>>]
CondBr(v, b, c) == [op |-> "condbr", on |-> v, to |-> <<b, c>>]
Ret(valued) == [op |-> "ret", to |-> <<>>, valued |-> valued]
Phi(incoming) == [op |-> "phi", incoming |-> incoming]
IsTerminator(i) == i.op \in {"br", "condbr", "ret"}

NewBlock(placed) == [code |-> <<>>, placed |-> placed]
Emit(bs, b, instruction) == [bs EXCEPT ![b].code = Append(@, instruction)]
Place(bs, b) == [bs EXCEPT ![b].placed = TRUE]

Terminated(b) == blocks[b].code # <<>> /\ IsTerminator(Last(blocks[b].code))
IsCurrentBlockTerminated == Terminated(insert)

-----------------------------------------------------------------------------
(* Calls in progress *)

NoResult == [value |-> Constant(0), truth |-> {}, none |-> TRUE]
Result(value, truth) == [value |-> value, truth |-> truth, none |-> FALSE]

Lowering(function) == calls # <<>> /\ Last(calls).function = function
Returned(function) == Lowering(function) /\ ~result.none
\* The next thing Last(calls) does is to call LowerExpression.
Expecting ==
  /\ calls # <<>> /\ result.none
  /\ Last(calls).function \notin {"LowerStatements", "LowerIf then", "LowerIf else"}

Call(function) == calls' = Append(calls, [function |-> function])
Return == calls' = Front(calls)

Init ==
  /\ blocks = <<NewBlock(TRUE)>>
  /\ insert = 1
  /\ calls = <<[function |-> "LowerStatements"]>>
  /\ result = NoResult
  /\ statements = 0
  /\ expected = <<>>
  /\ path = Runs
  /\ operands = 0
  /\ declared \in BOOLEAN

NextEvent == Len(expected) + 1

-----------------------------------------------------------------------------
(* LowerStatements and LowerStatement *)

Skips == IsCurrentBlockTerminated

Statement ==
  /\ Lowering("LowerStatements") /\ statements < MaxStatements
  /\ statements' = statements + 1
LoweredStatement == Statement /\ ~Skips

\* A statement nothing is lowered for.  What it would have done is an event.
SkipStatement ==
  /\ Statement /\ Skips
  /\ expected' = Append(expected, path)
  /\ UNCHANGED <<blocks, insert, calls, result, path, operands, declared>>

\* A declaration, an assignment, a print, a delete or an expression.
LowerSimple ==
  /\ LoweredStatement
  /\ blocks' = Emit(blocks, insert, Event(NextEvent))
  /\ expected' = Append(expected, path)
  /\ UNCHANGED <<insert, calls, result, path, operands, declared>>

LowerBlock ==
  /\ LoweredStatement
  /\ Call("LowerStatements")
  /\ UNCHANGED <<blocks, insert, result, expected, path, operands, declared>>

\* A statement that begins with LowerExpression.
LowerWithExpression ==
  /\ LoweredStatement /\ operands < MaxOperands
  /\ \E function \in {"LowerIf", "LowerReturn", "StoreIntoPointer"} :
       /\ function = "LowerReturn" => declared
       /\ Call(function)
  /\ UNCHANGED <<blocks, insert, result, expected, path, operands, declared>>

\* The last statement of a block, or of a side of an if, is lowered.
EndStatements ==
  /\ Lowering("LowerStatements") /\ Len(calls) > 1
  /\ Return
  /\ UNCHANGED <<blocks, insert, result, statements, expected, path, operands, declared>>

\* StoreIntoPointer: the value is lowered.
Store ==
  /\ Returned("StoreIntoPointer")
  /\ blocks' = Emit(blocks, insert, Event(NextEvent))
  /\ expected' = Append(expected, path)
  /\ result' = NoResult
  /\ Return
  /\ UNCHANGED <<insert, statements, path, operands, declared>>

\* LowerReturn: a function without a type, or the value is lowered.
ReturnStatement(b) == Emit(Emit(blocks, b, Event(NextEvent)), b, Ret(declared))

LowerReturn ==
  /\ LoweredStatement /\ ~declared
  /\ blocks' = ReturnStatement(insert)
  /\ expected' = Append(expected, path)
  /\ path' = {}
  /\ UNCHANGED <<insert, calls, result, operands, declared>>

LowerReturnValue ==
  /\ Returned("LowerReturn")
  /\ blocks' = ReturnStatement(insert)
  /\ expected' = Append(expected, path)
  /\ path' = {}
  /\ result' = NoResult
  /\ Return
  /\ UNCHANGED <<insert, statements, operands, declared>>

-----------------------------------------------------------------------------
(* LowerIf *)

\* The condition is lowered: if.then, if.else, and if.merge outside the function.
LowerThen ==
  LET n == Len(blocks)
  IN  /\ Returned("LowerIf")
      /\ blocks' = Emit(blocks, insert, CondBr(result.value, n + 1, n + 2))
                     \o <<NewBlock(TRUE), NewBlock(TRUE), NewBlock(FALSE)>>
      /\ insert' = n + 1
      /\ calls' = Front(calls) \o
           <<[function |-> "LowerIf then", else |-> n + 2, merge |-> n + 3,
              elsePath |-> path \ result.truth],
             [function |-> "LowerStatements"]>>
      /\ path' = path \cap result.truth
      /\ result' = NoResult
      /\ UNCHANGED <<statements, expected, operands, declared>>

\* The end of a side of the if.
BranchTo(b) == IF IsCurrentBlockTerminated THEN blocks ELSE Emit(blocks, insert, Br(b))

\* The true block is lowered.  LowerElseTail: nothing, a block, or an if.
LowerElse ==
  LET frame == Last(calls)
      after == [function |-> "LowerIf else", merge |-> frame.merge,
                thenTerminated |-> IsCurrentBlockTerminated, thenPath |-> path]
  IN  /\ Lowering("LowerIf then")
      /\ blocks' = BranchTo(frame.merge)
      /\ insert' = frame.else
      /\ path' = frame.elsePath
      /\ \/ calls' = Front(calls) \o <<after>> /\ UNCHANGED statements
         \/ /\ calls' = Front(calls) \o <<after, [function |-> "LowerStatements"]>>
            /\ UNCHANGED statements
         \/ /\ calls' = Front(calls) \o <<after, [function |-> "LowerIf"]>>
            /\ statements < MaxStatements /\ operands < MaxOperands
            /\ statements' = statements + 1
      /\ UNCHANGED <<result, expected, operands, declared>>

\* Faulty: if.merge is there although no side gets there.
FaultyAlwaysMerges(thenTerminated) == TRUE
\* Faulty: the statements after the if are dropped when one side returns.
FaultyMerges(thenTerminated) == ~(thenTerminated \/ IsCurrentBlockTerminated)
Merges(thenTerminated) == ~(thenTerminated /\ IsCurrentBlockTerminated)

\* Both sides are lowered.
LowerMerge ==
  LET frame == Last(calls)
      ended == BranchTo(frame.merge)
  IN  /\ Lowering("LowerIf else")
      /\ IF Merges(frame.thenTerminated)
           THEN blocks' = Place(ended, frame.merge) /\ insert' = frame.merge
           ELSE blocks' = ended /\ UNCHANGED insert
      /\ path' = frame.thenPath \cup path
      /\ Return
      /\ UNCHANGED <<result, statements, expected, operands, declared>>

-----------------------------------------------------------------------------
(* LowerExpression *)

\* What an expression without && and || does.
LowerOperand ==
  /\ Expecting /\ operands < MaxOperands
  /\ operands' = operands + 1
  /\ blocks' = Emit(blocks, insert, Event(NextEvent))
  /\ expected' = Append(expected, path)
  /\ result' = Result(Operand(operands + 1), {run \in Runs : run[operands + 1]})
  /\ UNCHANGED <<insert, calls, statements, path, declared>>

\* Operands that calls in progress will still lower.
Pending ==
  1 + Quantify(DOMAIN calls, LAMBDA i :
        calls[i].function \in {"LowerLogicalAnd", "LowerLogicalOr"})

\* An && or an ||: the left operand is lowered first, by the same function.
LowerLogical ==
  /\ Expecting /\ operands + Pending < MaxOperands
  /\ Call("LowerLogicalAnd") \/ Call("LowerLogicalOr")
  /\ UNCHANGED <<blocks, insert, result, statements, expected, path, operands, declared>>

\* The blocks of an && or an ||: land.rhs and land.false, or lor.rhs and lor.true.
Rhs == Len(blocks) + 1
Short == Len(blocks) + 2
\* Faulty: the end of the operator is a block that is not made.
FaultyMerge == Len(blocks) + 4
Merge == Len(blocks) + 3

\* Faulty: the right operand is evaluated when it need not be.
FaultyShortCircuit(and) == IF and THEN <<Short, Rhs>> ELSE <<Rhs, Short>>
\* Where the left operand leads, if true and if not.
ShortCircuit(and) == IF and THEN <<Rhs, Short>> ELSE <<Short, Rhs>>

\* The left operand is lowered.
LowerRhs ==
  LET and == Last(calls).function = "LowerLogicalAnd"
      to == ShortCircuit(and)
  IN  /\ Returned("LowerLogicalAnd") \/ Returned("LowerLogicalOr")
      /\ blocks' = Emit(blocks, insert, CondBr(result.value, to[1], to[2]))
                     \o <<NewBlock(TRUE),
                          IF and THEN NewBlock(TRUE)
                                 ELSE [NewBlock(TRUE) EXCEPT !.code = <<Br(Merge)>>],
                          NewBlock(FALSE)>>
      /\ insert' = Rhs
      /\ calls' = Append(Front(calls),
           [function |-> IF and THEN "LowerLogicalAnd rhs" ELSE "LowerLogicalOr rhs",
            rhs |-> Rhs, short |-> Short, merge |-> Merge,
            path |-> path, truth |-> result.truth])
      /\ path' = IF and THEN path \cap result.truth ELSE path \ result.truth
      /\ result' = NoResult
      /\ UNCHANGED <<statements, expected, operands, declared>>

\* Faulty: the block where the right operand began.
FaultyRhsExit(frame) == frame.rhs
\* rhs_exit: the block where the right operand ends.
RhsExit(frame) == insert

MergeLogical(frame, short) ==
  LET ended == Emit(blocks, insert, Br(frame.merge))
      phi == Phi([b \in {frame.short, RhsExit(frame)} |->
                    IF b = frame.short THEN short ELSE result.value])
  IN  /\ blocks' = Emit(Place(IF short = Constant(TRUE) THEN ended
                              ELSE Emit(ended, frame.short, Br(frame.merge)),
                              frame.merge),
                        frame.merge, phi)
      /\ insert' = frame.merge
      /\ path' = frame.path
      /\ Return
      /\ UNCHANGED <<statements, expected, operands, declared>>

\* The right operand is lowered.
LowerLogicalAnd ==
  /\ Returned("LowerLogicalAnd rhs")
  /\ MergeLogical(Last(calls), Constant(FALSE))
  /\ result' = Result(PhiOf(Last(calls).merge), Last(calls).truth \cap result.truth)

LowerLogicalOr ==
  /\ Returned("LowerLogicalOr rhs")
  /\ MergeLogical(Last(calls), Constant(TRUE))
  /\ result' = Result(PhiOf(Last(calls).merge), Last(calls).truth \cup result.truth)

-----------------------------------------------------------------------------
(* The end of the body *)

NeedsDefaultReturn == ~IsCurrentBlockTerminated

EmitDefaultReturnIfNeeded ==
  /\ Lowering("LowerStatements") /\ Len(calls) = 1
  /\ blocks' = IF NeedsDefaultReturn THEN Emit(blocks, insert, Ret(declared)) ELSE blocks
  /\ Return
  /\ UNCHANGED <<insert, result, statements, expected, path, operands, declared>>

Lowered == calls = <<>>
Ended == Lowered /\ UNCHANGED vars

Next ==
  \/ SkipStatement \/ LowerSimple \/ LowerBlock \/ LowerWithExpression \/ EndStatements
  \/ Store \/ LowerReturn \/ LowerReturnValue
  \/ LowerThen \/ LowerElse \/ LowerMerge
  \/ LowerOperand \/ LowerLogical \/ LowerRhs \/ LowerLogicalAnd \/ LowerLogicalOr
  \/ EmitDefaultReturnIfNeeded
  \/ Ended

Spec == Init /\ [][Next]_vars

-----------------------------------------------------------------------------
(* What the blocks do *)

\* The value of v when control got to a block with the phis as given.
Evaluate(run, phis, v) ==
  CASE v.is = "operand" -> run[v.of]
    [] v.is = "constant" -> v.of
    [] v.is = "phi" -> phis[v.of]

\* The block at.block has been got to: its phis, then its code, then where it leads.
PhisAt(run, at) ==
  LET code == blocks[at.block].code
  IN  IF code # <<>> /\ Head(code).op = "phi"
        THEN [b \in {at.block} \cup DOMAIN at.phis |->
                IF b = at.block THEN Evaluate(run, at.phis, Head(code).incoming[at.from])
                                ELSE at.phis[b]]
        ELSE at.phis
After(run, at) ==
  LET code == blocks[at.block].code
      phis == PhisAt(run, at)
      i == Last(code)
      to == IF i.op = "condbr" /\ ~Evaluate(run, phis, i.on) THEN i.to[2] ELSE i.to[1]
  IN  [block |-> to, from |-> at.block, phis |-> phis]
Stops(b) == ~Terminated(b) \/ Last(blocks[b].code).op = "ret"

\* Every run of the blocks: the places it gets to.  There is no way back to a block.
Execution(run) ==
  LET go[k \in 1..Len(blocks)] ==
        IF k = 1 THEN <<[block |-> 1, from |-> 0, phis |-> <<>>]>>
        ELSE LET before == go[k - 1]
             IN  IF Stops(Last(before).block) THEN before
                 ELSE Append(before, After(run, Last(before)))
  IN  go[Len(blocks)]

Events(code) ==
  FlattenSeq([i \in DOMAIN code |-> IF code[i].op = "event" THEN <<code[i].id>> ELSE <<>>])
\* The events of a run of the blocks, and those the body has in it.
Trace(run) ==
  FlattenSeq([i \in DOMAIN Execution(run) |-> Events(blocks[Execution(run)[i].block].code)])
EventsOfBody(run) ==
  FlattenSeq([e \in DOMAIN expected |-> IF run \in expected[e] THEN <<e>> ELSE <<>>])

-----------------------------------------------------------------------------
(* Properties *)

Value ==
  [is : {"operand"}, of : 1..operands] \cup [is : {"constant"}, of : BOOLEAN]
    \cup [is : {"phi"}, of : DOMAIN blocks]
TypeOfInstruction(i) ==
  CASE i.op = "event" -> i.id \in DOMAIN expected
    [] i.op = "br" -> i.to \in [1..1 -> DOMAIN blocks]
    [] i.op = "condbr" -> i.to \in [1..2 -> DOMAIN blocks] /\ i.on \in Value
    [] i.op = "ret" -> i.valued \in BOOLEAN
    [] i.op = "phi" -> \A b \in DOMAIN i.incoming :
                         b \in DOMAIN blocks /\ i.incoming[b] \in Value

\* The variables have their types.
TypeOK ==
  /\ \A b \in DOMAIN blocks :
       blocks[b].placed \in BOOLEAN /\ \A i \in ToSet(blocks[b].code) : TypeOfInstruction(i)
  /\ insert \in DOMAIN blocks
  /\ result.none \/ result.value \in Value
  /\ result.truth \subseteq Runs /\ path \subseteq Runs
  /\ \A e \in DOMAIN expected : expected[e] \subseteq Runs
  /\ statements \in 0..MaxStatements /\ operands \in 0..MaxOperands /\ declared \in BOOLEAN

Placed == {b \in DOMAIN blocks : blocks[b].placed}
Predecessors(b) ==
  {p \in Placed : Terminated(p) /\ \E i \in DOMAIN Last(blocks[p].code).to :
                                      Last(blocks[p].code).to[i] = b}

\* What VerifyModule asks of a function that is lowered: every block ends with a
\* terminator and has no other, branches stay in the function, a phi comes first and
\* has a value for each predecessor, and a return has a value if the function has a type.
VerifyModule ==
  Lowered => \A b \in Placed :
    LET code == blocks[b].code
    IN  /\ Terminated(b)
        /\ ~\E i \in 1..(Len(code) - 1) : IsTerminator(code[i])
        /\ \A i \in DOMAIN Last(code).to : Last(code).to[i] \in Placed
        /\ \A i \in DOMAIN code : code[i].op = "phi" =>
             i = 1 /\ DOMAIN code[i].incoming = Predecessors(b)
        /\ Last(code).op = "ret" => (Last(code).valued <=> declared)

\* The runs in which the code so far leads to the builder's insert point, so that what is
\* emitted next is what they do next, are those in which the body gets to what is lowered
\* next: in particular IsCurrentBlockTerminated, on which statements are dropped, means
\* that no run gets to the statement.
BuilderFollowsBody ==
  \A run \in Runs :
    ~Lowered => ((Last(Execution(run)).block = insert /\ ~Terminated(insert)) <=> run \in path)

\* A function does in every run what its body does, in the same order: both sides of an
\* if, a right operand only when it decides, and nothing after a return.
SameEvents ==
  Lowered => \A run \in Runs : Trace(run) = EventsOfBody(run)

\* No block is made for statements no run gets to: every block of a function that is
\* lowered is executed in some run.
EveryBlockExecuted ==
  Lowered => Placed = UNION {{at.block : at \in ToSet(Execution(run))} : run \in Runs}
=============================================================================
